------------------------ MODULE ControllerOwners_proofs ------------------------
(***************************************************************************)
(* What belongs to whom, for every value of the constants that the         *)
(* assumptions below leave open.  In the first process, while leases       *)
(* outlast it: bound allocations are served, addresses exclusive.  In the  *)
(* first process, with renewals: removed allocations are stopped.  Across  *)
(* restarts, while no lease is renewed: hardware and IP addresses are      *)
(* exclusive.  In every environment with managed interfaces: configured    *)
(* hardware addresses are lost from the controller's hand only.            *)
(***************************************************************************)
EXTENDS ControllerStore_proofs

-----------------------------------------------------------------------------
(* The first process, with leases that outlast it.  An address has one       *)
(* owner: the allocation whose record, stored or about to be, or whose       *)
(* deletion, not yet handled, names it.                                      *)

FirstProcess == ~Renewals /\ ~LateLeases /\ MaxBoots <= 1

Live == {"register", "converge", "watch"}

\* id is stored with ip; the snapshot says so; the thread will store it; its deletion is
\* the i-th event.
Has(id, ip) == alloc[id] # Absent /\ alloc[id].ip = ip
Walks(id, ip) == todo[id] # Absent /\ todo[id].ip = ip
Writes(id, ip) ==
  pc \in {"removemac", "put", "stop.put"} /\ cur = id /\ rec.ip = ip
Leaves(i, id, ip) ==
  /\ i \in 1..Len(events)
  /\ events[i].kind = "delete" /\ events[i].id = id /\ events[i].val.ip = ip

Owns(id, ip) ==
  \/ Has(id, ip) \/ Walks(id, ip) \/ Writes(id, ip)
  \/ \E i \in 1..Len(events) : Leaves(i, id, ip)

\* It is so in one way only, the snapshot apart.
Apart(id, ip) ==
  /\ ~(Has(id, ip) /\ Writes(id, ip))
  /\ \A i \in 1..Len(events) : Leaves(i, id, ip) =>
       /\ ~Has(id, ip) /\ ~Writes(id, ip)
       /\ \A j \in 1..Len(events) : Leaves(j, id, ip) => i = j

\* No callback is under way, and there is no second process.
CalmInv ==
  /\ phase # "down" => boots = 1
  /\ \A id \in Id : client[id] # Absent => client[id].cb = Absent
  /\ pc = "removemac" => client[cur].al = rec

\* The owner is unique, and as long as no stop has begun its client has the address.
OwnerInv ==
  /\ phase = "down" /\ boots = 0 => \A id \in Id, ip \in IP : ~Owns(id, ip)
  /\ \A id, other \in Id, ip \in IP : Owns(id, ip) /\ Owns(other, ip) => id = other
  /\ phase \in Live => \A id \in Id, ip \in IP :
       (Owns(id, ip) => clients[ip] = id) /\ Apart(id, ip)

FirstInv == ClientInv /\ StoreInv /\ CalmInv /\ OwnerInv

-----------------------------------------------------------------------------

\* Nobody becomes an owner.
Keeps ==
  /\ \A id \in Id, ip \in IP : Owns(id, ip)' => Owns(id, ip)
  /\ phase' = "down" /\ boots' = 0 => phase = "down" /\ boots = 0
  /\ phase' \in Live =>
       /\ phase \in Live \/ (phase = "down" /\ boots = 0)
       /\ \A id \in Id, ip \in IP : Apart(id, ip)'
       /\ \A id \in Id, ip \in IP : Owns(id, ip)' => clients'[ip] = clients[ip]

LEMMA KeepsOwners == OwnerInv /\ Keeps => OwnerInv'
BY DEF OwnerInv, Keeps

\* The store, its events and the map stay; so does what the thread is about to store.
Still ==
  /\ alloc' = alloc /\ events' = events /\ clients' = clients
  /\ \A id \in Id : todo'[id] \in {todo[id], Absent}
  /\ pc' \in {"removemac", "put", "stop.put"} =>
       pc \in {"removemac", "put", "stop.put"} /\ cur' = cur /\ rec' = rec
  /\ pc \in {"removemac", "put"} /\ faults' = faults =>
       pc' \in {"removemac", "put"} /\ cur' = cur /\ rec' = rec
  /\ phase' \in Live => phase \in Live
  /\ phase' = "down" => phase = "down"
  /\ boots' = boots

LEMMA StillKeeps == OwnerInv /\ Still => Keeps
<1> SUFFICES ASSUME OwnerInv, Still PROVE Keeps
  OBVIOUS
<1>1. \A id \in Id, ip \in IP :
        /\ Has(id, ip)' <=> Has(id, ip)
        /\ Walks(id, ip)' => Walks(id, ip)
        /\ Writes(id, ip)' => Writes(id, ip)
        /\ \A i \in 1..Len(events) : Leaves(i, id, ip)' <=> Leaves(i, id, ip)
  BY DEF Still, Has, Walks, Writes, Leaves
<1>2. \A id \in Id, ip \in IP :
        (Owns(id, ip)' => Owns(id, ip)) /\ (Apart(id, ip) => Apart(id, ip)')
  BY <1>1 DEF Owns, Apart, Still
<1> QED
  BY <1>2 DEF Keeps, Still, OwnerInv

\* A stored allocation is removed: if anybody watches, its deletion is queued.
LEMMA RemoveKeeps ==
  ASSUME ClientInv, OwnerInv, NEW x \in Id, RemoveAllocation(x),
         UNCHANGED <<clients, todo, phase, boots>>,
         \A id \in Id, ip \in IP : Writes(id, ip)' => Writes(id, ip)
  PROVE  Keeps
<1> DEFINE e == [kind |-> "delete", id |-> x, val |-> alloc[x]]
<1>1. /\ events \in Seq(RecordEvent) /\ alloc \in [Id -> Record \cup {Absent}]
      /\ alloc' = [alloc EXCEPT ![x] = Absent]
  BY DEF ClientInv, TypeInv, RecordsOK, RemoveAllocation
<1>2. \A id \in Id, ip \in IP :
        /\ Has(id, ip)' => Has(id, ip) /\ id # x
        /\ Walks(id, ip)' => Walks(id, ip)
  BY <1>1 DEF Has, Walks
<1>3. CASE events' = events
  <2>1. \A id \in Id, ip \in IP, i \in 1..Len(events) :
          Leaves(i, id, ip)' <=> Leaves(i, id, ip)
    BY <1>3 DEF Leaves
  <2>2. \A id \in Id, ip \in IP :
          (Owns(id, ip)' => Owns(id, ip)) /\ (Apart(id, ip) => Apart(id, ip)')
    BY <1>2, <1>3, <2>1 DEF Owns, Apart
  <2> QED
    BY <2>2 DEF Keeps, OwnerInv
<1>4. CASE events' = Append(events, e) /\ alloc[x] # Absent
  <2>1. e \in RecordEvent
    BY <1>1, <1>4 DEF RecordEvent
  <2>2. /\ Len(events') = Len(events) + 1 /\ Len(events) \in Nat
        /\ \A i \in 1..Len(events) : events'[i] = events[i]
        /\ events'[Len(events) + 1] = e
    BY <1>1, <1>4, <2>1
  <2> HIDE DEF e
  <2>3. \A id \in Id, ip \in IP :
          /\ \A i \in 1..Len(events) : Leaves(i, id, ip)' <=> Leaves(i, id, ip)
          /\ \A i : i = Len(events) + 1 /\ Leaves(i, id, ip)' => id = x /\ Has(x, ip)
    BY <1>4, <2>2 DEF Leaves, Has, e
  <2>4. \A i \in 1..Len(events') : i \in 1..Len(events) \/ i = Len(events) + 1
    BY <2>2
  <2>5. \A id \in Id, ip \in IP : Owns(id, ip)' => Owns(id, ip)
    BY <1>2, <2>3, <2>4 DEF Owns
  <2>6. \A id \in Id, ip \in IP : Apart(id, ip) => Apart(id, ip)'
    BY <1>2, <2>3, <2>4 DEF Apart
  <2> QED
    BY <2>5, <2>6 DEF Keeps, OwnerInv
<1> QED
  BY <1>3, <1>4 DEF RemoveAllocation, Notified

\* A record is stored whose address its allocation owns, if any: the thread was about to.
LEMMA PutKeeps ==
  ASSUME ClientInv, OwnerInv, NEW x \in Id, NEW a \in Record, PutAllocation(x, a),
         UNCHANGED <<clients, todo, phase, boots>>,
         a.ip = NoIP \/ Writes(x, a.ip),
         a.ip # NoIP => pc' = "ready",
         \A id \in Id, ip \in IP : Writes(id, ip)' => Writes(id, ip)
  PROVE  Keeps
<1>1. alloc' = [alloc EXCEPT ![x] = a] /\ alloc \in [Id -> Record \cup {Absent}]
  BY DEF ClientInv, TypeInv, RecordsOK, PutAllocation
<1>2. \A id \in Id, ip \in IP :
        /\ Has(id, ip)' => Has(id, ip) \/ (id = x /\ ip = a.ip /\ Writes(id, ip))
        /\ Walks(id, ip)' => Walks(id, ip)
        /\ a.ip # NoIP => ~Writes(id, ip)'
        /\ id = x /\ Has(id, ip)' => a.ip # NoIP
  BY <1>1, NullsAreNotValues DEF Has, Walks, Writes
<1>3. events \in Seq(RecordEvent) /\ Len(events) \in Nat
  BY DEF ClientInv, TypeInv, RecordsOK
<1>4. \A i \in 1..Len(events') : events'[i].kind = "delete" =>
        i \in 1..Len(events) /\ events'[i] = events[i]
  <2> DEFINE e == [kind |-> "create", id |-> x, val |-> a]
  <2>1. e \in RecordEvent
    BY DEF RecordEvent
  <2>2. CASE events' = Append(events, e)
    <3>1. \A i \in 1..Len(events') :
            (i \in 1..Len(events) /\ events'[i] = events[i]) \/ events'[i] = e
      BY <1>3, <2>1, <2>2
    <3> QED
      BY <3>1
  <2> QED
    BY <2>2 DEF PutAllocation, Notified
<1>5. \A id \in Id, ip \in IP, i \in 1..Len(events') :
        Leaves(i, id, ip)' => i \in 1..Len(events) /\ Leaves(i, id, ip)
  BY <1>4 DEF Leaves
<1>6. \A id \in Id, ip \in IP : Owns(id, ip)' => Owns(id, ip)
  BY <1>2, <1>5 DEF Owns
<1>7. \A id \in Id, ip \in IP : Apart(id, ip) => Apart(id, ip)'
  BY <1>2, <1>5 DEF Apart
<1> QED
  BY <1>6, <1>7 DEF Keeps, OwnerInv

\* The oldest event is taken out of the queue.
LEMMA NextEventKeeps ==
  ASSUME ClientInv, OwnerInv, events # << >>, events' = Tail(events),
         UNCHANGED <<alloc, todo, phase, boots>>,
         pc' \notin {"removemac", "put", "stop.put"},
         \A id \in Id, ip \in IP : Owns(id, ip)' => clients'[ip] = clients[ip]
  PROVE  Keeps
<1>1. /\ Len(events') = Len(events) - 1 /\ Len(events) \in Nat
      /\ \A i \in 1..Len(events') : i + 1 \in 1..Len(events) /\ events'[i] = events[i + 1]
  BY DEF ClientInv, TypeInv, RecordsOK
<1>2. \A id \in Id, ip \in IP :
        /\ Has(id, ip)' <=> Has(id, ip)
        /\ Walks(id, ip)' => Walks(id, ip)
        /\ ~Writes(id, ip)'
        /\ \A i \in 1..Len(events') : Leaves(i, id, ip)' =>
             i + 1 \in 1..Len(events) /\ Leaves(i + 1, id, ip)
  BY <1>1 DEF Has, Walks, Writes, Leaves
<1>3. \A id \in Id, ip \in IP : Owns(id, ip)' => Owns(id, ip)
  BY <1>2 DEF Owns
<1>4. \A i, j \in 1..Len(events') : i + 1 = j + 1 => i = j
  BY <1>1
<1>5. \A id \in Id, ip \in IP : Apart(id, ip) => Apart(id, ip)'
  BY <1>2, <1>4 DEF Apart
<1> QED
  BY <1>3, <1>5 DEF Keeps, OwnerInv

\* The actions that leave the owners alone in that sense.
LEMMA StillActions ==
  ASSUME FirstInv
  PROVE  /\ \A m \in MAC : RegisterMAC(m) => Still /\ CalmInv'
         /\ StartWatch => Still /\ CalmInv'
         /\ \A id \in Id : ConvergeUnbound(id) => Still /\ CalmInv'
         /\ \A id \in Id : ConvergeStopped(id) => Still /\ CalmInv'
         /\ \A id \in Id : ConvergeBound(id) => Still /\ CalmInv'
         /\ PopMACGet => Still /\ CalmInv'
         /\ PopMACDelete => Still /\ CalmInv'
         /\ PopMACEmpty => Still /\ CalmInv'
         /\ \A m \in MAC \cup {HostMAC} : DeviceReady(m) => Still /\ CalmInv'
         /\ \A ip \in IP : Bound(ip) /\ AlreadyManaged(ip) => Still /\ CalmInv'
         /\ BindTimeout => Still /\ CalmInv'
         /\ BindStop => Still /\ CalmInv'
         /\ RemoveMAC => Still /\ CalmInv'
         /\ PutMACCheck => Still /\ CalmInv'
         /\ PutMACWrite => Still /\ CalmInv'
         /\ RemoveDevice => Still /\ CalmInv'
         /\ PopMACFails => Still /\ CalmInv'
         /\ DeviceFails => Still /\ CalmInv'
         /\ RequestFails => Still /\ CalmInv'
         /\ \A m \in MAC : AdminCheck(m) => Still /\ CalmInv'
         /\ \A m \in MAC : AdminRemove(m) => Still /\ CalmInv'
         /\ AdminWrite => Still /\ CalmInv'
         /\ (UNCHANGED vars) => Still /\ CalmInv'
<1> USE DEF FirstInv, Still, CalmInv, Live, store, dhcp, thread, process, api
<1>0. /\ client \in [Id -> RecordClient \cup {Absent}]
      /\ todo \in [Id -> Record \cup {Absent}]
      /\ pc \notin {"ready", "putmac.check", "putmac.write"} => cur \in Id
      /\ faults + 1 # faults
  BY DEF ClientInv, TypeInv, RecordsOK, ThreadOK, ScalarsOK
<1> USE <1>0
<1>1. ASSUME NEW m \in MAC, RegisterMAC(m) PROVE Still /\ CalmInv'
  BY <1>1 DEF RegisterMAC, Idle
<1>2. ASSUME StartWatch PROVE Still /\ CalmInv'
  BY <1>2 DEF StartWatch, Idle
<1>3. ASSUME NEW id \in Id, ConvergeUnbound(id) PROVE Still /\ CalmInv'
  BY <1>3 DEF ConvergeUnbound, ConvergeOn, BeginUnbound, Idle
<1>4. ASSUME NEW id \in Id, ConvergeStopped(id) PROVE Still /\ CalmInv'
  BY <1>4 DEF ConvergeStopped, ConvergeOn, BeginStopped, Idle
<1>5. ASSUME NEW id \in Id, ConvergeBound(id) PROVE Still /\ CalmInv'
  BY <1>5 DEF ConvergeBound, ConvergeOn, Idle
<1>6. ASSUME PopMACGet PROVE Still /\ CalmInv'
  BY <1>6 DEF PopMACGet
<1>7. ASSUME PopMACDelete PROVE Still /\ CalmInv'
  BY <1>7 DEF PopMACDelete, SetPool, GoTo
<1>8. ASSUME PopMACEmpty PROVE Still /\ CalmInv'
  BY <1>8 DEF PopMACEmpty, WithoutMAC, Return
<1>9. ASSUME NEW m \in MAC \cup {HostMAC}, DeviceReady(m) PROVE Still /\ CalmInv'
  BY <1>9 DEF DeviceReady, StartClient
<1>10. ASSUME NEW ip \in IP, Bound(ip), AlreadyManaged(ip) PROVE Still /\ CalmInv'
  BY <1>10 DEF Bound, GiveUp, StopClient, BindFails, GoTo, Return
<1>11. ASSUME BindTimeout PROVE Still /\ CalmInv'
  BY <1>11 DEF BindTimeout, GoTo
<1>12. ASSUME BindStop PROVE Still /\ CalmInv'
  BY <1>12 DEF BindStop, GiveUp, StopClient, BindFails, GoTo, Return
<1>13. ASSUME RemoveMAC PROVE Still /\ CalmInv'
  BY <1>13 DEF RemoveMAC, SetPool, EncodeAndPut
<1>14. ASSUME PutMACCheck PROVE Still /\ CalmInv'
  BY <1>14 DEF PutMACCheck, PutMACSites, MACInUse, PutMACReturns, GoTo, Return
<1>15. ASSUME PutMACWrite PROVE Still /\ CalmInv'
  BY <1>15 DEF PutMACWrite, PutMACSites, PutMACReturns, SetPool, Return, GoTo
<1>16. ASSUME RemoveDevice PROVE Still /\ CalmInv'
  BY <1>16 DEF RemoveDevice, Return
<1>17. ASSUME PopMACFails PROVE Still /\ CalmInv'
  BY <1>17 DEF PopMACFails, Fault, SetPool, WithoutMAC, Return
<1>18. ASSUME DeviceFails PROVE Still /\ CalmInv'
  BY <1>18 DEF DeviceFails, Fault, GoTo, Return
<1>19. ASSUME RequestFails PROVE Still /\ CalmInv'
  BY <1>19 DEF RequestFails, Fault, EncodeAndPut, GoTo, Return
<1>20. ASSUME NEW m \in MAC, AdminCheck(m) PROVE Still /\ CalmInv'
  BY <1>20 DEF AdminCheck, MACInUse
<1>21. ASSUME NEW m \in MAC, AdminRemove(m) PROVE Still /\ CalmInv'
  BY <1>21 DEF AdminRemove, SetPool
<1>22. ASSUME AdminWrite PROVE Still /\ CalmInv'
  BY <1>22 DEF AdminWrite, SetPool
<1>23. ASSUME UNCHANGED vars PROVE Still /\ CalmInv'
  BY <1>23 DEF vars
<1> QED
  BY <1>1, <1>2, <1>3, <1>4, <1>5, <1>6, <1>7, <1>8, <1>9, <1>10, <1>11, <1>12, <1>13,
     <1>14, <1>15, <1>16, <1>17, <1>18, <1>19, <1>20, <1>21, <1>22,
     <1>23

LEMMA ConvergeDeleteIsStill ==
  ASSUME FirstInv, NEW x \in Id, ConvergeDelete(x)
  PROVE  Still /\ CalmInv'
<1> USE DEF FirstInv
<1>1. phase = "converge" /\ pc = "ready" /\ todo[x] # Absent /\ client[x] = Absent
  BY DEF ConvergeDelete, ConvergeOn, Idle, ClientInv, TodoInv
<1>2. todo[x].ip \in IP => clients[todo[x].ip] = x
  BY <1>1 DEF OwnerInv, Owns, Walks, Live
<1>3. todo[x].ip \notin IP
  BY <1>1, <1>2, NullsAreNotValues DEF ClientInv, MapIsExact, Running
<1>4. UNCHANGED <<clients, client>>
  BY <1>3 DEF ConvergeDelete, deleteAllocation, Stop
<1>5. pc' \in {"ready", "recover.check"}
  BY DEF ConvergeDelete, ConvergeOn, deleteAllocation, Recover, Return, Idle
<1> QED
  BY <1>1, <1>4, <1>5
  DEF ConvergeDelete, ConvergeOn, Still, CalmInv, Live, store, dhcp, process, api,
      ClientInv, TypeInv, RecordsOK

\* The actions that remove a record.
LEMMA RemovingActions ==
  ASSUME FirstInv
  PROVE  /\ RemoveUnbound => Keeps /\ CalmInv'
         /\ \A id \in Id : ReturnIP(id) => Keeps /\ CalmInv'
         /\ \A id \in Id : Expire(id) => Keeps /\ CalmInv'
<1> USE RemoveKeeps DEF FirstInv, CalmInv, Writes, dhcp, thread, process, api
<1>1. ASSUME RemoveUnbound PROVE Keeps /\ CalmInv'
  BY <1>1 DEF RemoveUnbound, Return, ClientInv, TypeInv, ThreadOK
<1>2. ASSUME NEW id \in Id, ReturnIP(id) PROVE Keeps /\ CalmInv'
  BY <1>2 DEF ReturnIP
<1>3. ASSUME NEW id \in Id, Expire(id) PROVE Keeps /\ CalmInv'
  BY <1>3 DEF Expire
<1> QED
  BY <1>1, <1>2, <1>3

\* The actions that store one.
LEMMA PuttingActions ==
  ASSUME FirstInv
  PROVE  /\ PutBound => Keeps /\ CalmInv'
         /\ PutStopped => Keeps /\ CalmInv'
         /\ \A id \in Id : ObtainIP(id) => Keeps /\ CalmInv'
<1> USE DEF FirstInv, CalmInv, Writes, dhcp, thread, process, api
<1>1. ASSUME PutBound PROVE Keeps /\ CalmInv'
  BY <1>1, PutKeeps DEF PutBound, Return, ClientInv, TypeInv, ThreadOK
<1>2. ASSUME PutStopped PROVE Keeps /\ CalmInv'
  BY <1>2, PutKeeps DEF PutStopped, Return, ClientInv, TypeInv, ThreadOK
<1>3. ASSUME NEW id \in Id, ObtainIP(id) PROVE Keeps /\ CalmInv'
  <2>1. NewAllocation \in Record /\ NewAllocation.ip = NoIP
    BY NullsAreNotValues DEF NewAllocation, Record, Allocation, AllocationState
  <2> QED
    BY <1>3, <2>1, PutKeeps DEF ObtainIP
<1> QED
  BY <1>1, <1>2, <1>3

LEMMA OnCreateKeeps == ASSUME FirstInv, OnCreate PROVE Keeps /\ CalmInv'
<1> USE DEF FirstInv, OnCreate, NextEvent, dhcp, thread, process, api, Idle
<1>1. pc' \notin {"removemac", "put", "stop.put"}
  BY DEF BeginUnbound
<1>2. Keeps
  BY <1>1, NextEventKeeps
<1> QED
  BY <1>1, <1>2 DEF CalmInv

\* What a deletion stops is the client of the deleted allocation, which nothing else makes
\* an owner of the address.
LEMMA OnDeleteStopsOwner ==
  ASSUME FirstInv, OnDelete, NEW id, id = Head(events).id,
         NEW ip \in IP, ip = Head(events).val.ip
  PROVE  /\ clients[ip] = id /\ id \in Id
         /\ \A other \in Id : ~Owns(other, ip)'
<1> USE DEF FirstInv
<1>1. /\ phase = "watch" /\ phase' = "watch" /\ todo' = NoRecords /\ alloc' = alloc
      /\ events # << >> /\ events' = Tail(events) /\ Head(events).kind = "delete"
      /\ pc' \in {"ready", "recover.check"}
  BY DEF OnDelete, NextEvent, process, deleteAllocation, Recover, Return,
         StoreInv, StageInv
<1>2. events \in Seq(RecordEvent) /\ Head(events) \in RecordEvent
  BY <1>1, FirstEvent DEF ClientInv, TypeInv, RecordsOK
<1>3. id \in Id
  BY <1>2 DEF RecordEvent
<1>4. /\ Len(events') = Len(events) - 1 /\ Len(events) \in Nat /\ 1 \in 1..Len(events)
      /\ events[1] = Head(events)
      /\ \A i \in 1..Len(events') :
           i + 1 \in 1..Len(events) /\ i + 1 # 1 /\ events'[i] = events[i + 1]
  BY <1>1, <1>2
<1>5. Leaves(1, id, ip)
  BY <1>1, <1>4 DEF Leaves
<1>6. Owns(id, ip) /\ clients[ip] = id /\ Apart(id, ip)
  BY <1>1, <1>3, <1>4, <1>5 DEF Owns, OwnerInv, Live
<1>7. ASSUME NEW other \in Id, Owns(other, ip)' PROVE FALSE
  <2>1. ~\E i \in 1..Len(events') : Leaves(i, other, ip)'
    <3> SUFFICES ASSUME NEW i \in 1..Len(events'), Leaves(i, other, ip)' PROVE FALSE
      OBVIOUS
    <3>1. i + 1 \in 1..Len(events) /\ Leaves(i + 1, other, ip)
      BY <1>4 DEF Leaves
    <3>2. other = id
      BY <1>3, <1>6, <3>1 DEF OwnerInv, Owns
    <3> QED
      BY <1>4, <1>5, <1>6, <3>1, <3>2 DEF Apart
  <2>2. Has(other, ip)
    BY <1>1, <1>7, <2>1 DEF Owns, Has, Walks, Writes, NoRecords
  <2>3. other = id
    BY <1>3, <1>6, <2>2 DEF OwnerInv, Owns
  <2> QED
    BY <1>4, <1>5, <1>6, <2>2, <2>3 DEF Apart
<1> QED
  BY <1>3, <1>6, <1>7

LEMMA OnDeleteKeeps == ASSUME FirstInv, OnDelete PROVE Keeps /\ CalmInv'
<1> USE DEF FirstInv
<1>1. /\ UNCHANGED <<alloc, phase, todo, boots>>
      /\ events # << >> /\ events' = Tail(events)
      /\ pc' \in {"ready", "recover.check"}
  BY DEF OnDelete, NextEvent, process, deleteAllocation, Recover, Return
<1>2. \A id \in Id, ip \in IP : Owns(id, ip)' => clients'[ip] = clients[ip]
  <2>1. \A ip \in IP : ip # Head(events).val.ip => clients'[ip] = clients[ip]
    BY DEF OnDelete, deleteAllocation, Stop, ClientInv, TypeInv, ScalarsOK
  <2> QED
    BY <2>1, OnDeleteStopsOwner
<1>3. \A id \in Id : client'[id] \in {client[id], Absent}
  BY StopShrinks DEF OnDelete, deleteAllocation, ClientInv
<1>4. Keeps
  BY <1>1, <1>2, NextEventKeeps
<1> QED
  BY <1>1, <1>3, <1>4 DEF CalmInv

\* Where the phase is a live one, an address that no client has has no owner.
LEMMA NobodyOwnsFree ==
  ASSUME FirstInv, phase \in Live, NEW ip \in IP, clients[ip] = Absent
  PROVE  \A id \in Id : ~Owns(id, ip)
BY NullsAreNotValues DEF FirstInv, OwnerInv

\* The allocation that is bound becomes the owner of an address that was free.
LEMMA BoundKeepsOwners ==
  ASSUME FirstInv, NEW ip \in IP, Bound(ip), ~AlreadyManaged(ip)
  PROVE  OwnerInv' /\ CalmInv'
<1> USE DEF FirstInv
<1>1. /\ pc = "bind" /\ phase \in Live /\ cur \in Id /\ clients[ip] = Absent
      /\ UNCHANGED <<alloc, events, todo, phase, boots, cur>>
      /\ pc' \in {"removemac", "put"} /\ rec' = WithLease(ip)
      /\ clients' = [clients EXCEPT ![ip] = cur]
      /\ client' = [client EXCEPT ![cur] =
                      [al |-> rec', ip |-> ip, mac |-> hand, cb |-> Absent]]
  BY DEF Bound, AlreadyManaged, Register, Become, WithLease, store, process, Live,
         ClientInv, PhaseInv, TypeInv, ThreadOK, ScalarsOK, StoreInv, StageInv
<1>2. \A id \in Id : ~Owns(id, ip)
  BY <1>1, NobodyOwnsFree
<1>3. \A id \in Id, x \in IP :
        /\ Has(id, x)' <=> Has(id, x)
        /\ Walks(id, x)' <=> Walks(id, x)
        /\ Writes(id, x)' <=> id = cur /\ x = ip
        /\ ~Writes(id, x)
        /\ \A i \in 1..Len(events) : Leaves(i, id, x)' <=> Leaves(i, id, x)
  BY <1>1 DEF Has, Walks, Writes, Leaves, WithLease
<1>4. \A id \in Id, x \in IP : Owns(id, x)' => Owns(id, x) \/ (id = cur /\ x = ip)
  BY <1>1, <1>3 DEF Owns
<1>5. \A id \in Id, x \in IP : Apart(id, x)'
  BY <1>1, <1>2, <1>3 DEF OwnerInv, Apart, Owns
<1>6. clients'[ip] = cur /\ \A x \in IP \ {ip} : clients'[x] = clients[x]
  BY <1>1 DEF ClientInv, TypeInv, ScalarsOK
<1>7. OwnerInv'
  BY <1>1, <1>2, <1>4, <1>5, <1>6 DEF OwnerInv, Live
<1>8. CalmInv'
  BY <1>1 DEF CalmInv, ClientInv, TypeInv, RecordsOK, Live
<1> QED
  BY <1>7, <1>8

\* Before converge nothing has an owner: there is no client yet.
LEMMA ConvergeKeepsOwners ==
  ASSUME FirstInv, Converge
  PROVE  OwnerInv' /\ CalmInv'
<1> USE DEF FirstInv
<1>1. /\ phase = "register" /\ phase' = "converge" /\ pc = "ready" /\ todo' = alloc
      /\ UNCHANGED <<alloc, events, clients, client, pc, cur, rec, boots>>
  BY DEF Converge, store, dhcp, thread, Idle
<1>2. \A ip \in IP : clients[ip] = Absent
  BY <1>1 DEF ClientInv, PhaseInv, MapIsExact, Running, TypeInv, ScalarsOK
<1>3. \A id \in Id, ip \in IP : ~Owns(id, ip)
  BY <1>1, <1>2, NobodyOwnsFree DEF Live
<1>4. \A id \in Id, ip \in IP : ~Owns(id, ip)'
  BY <1>1, <1>3 DEF Owns, Has, Walks, Writes, Leaves
<1>5. \A id \in Id, ip \in IP : Apart(id, ip)'
  BY <1>4 DEF Owns, Apart
<1> QED
  BY <1>1, <1>4, <1>5 DEF OwnerInv, CalmInv

LEMMA BootKeepsOwners ==
  ASSUME FirstProcess, FirstInv, Boot
  PROVE  OwnerInv' /\ CalmInv'
<1> USE DEF FirstInv
<1>1. /\ phase = "down" /\ boots = 0 /\ boots' = 1 /\ phase' = "register"
      /\ UNCHANGED <<alloc, events, clients, client, pc, cur, rec, todo>>
  BY ConfigurationAssumption
  DEF Boot, store, dhcp, thread, FirstProcess, ClientInv, TypeInv, ScalarsOK
<1>2. \A id \in Id, ip \in IP : ~Owns(id, ip)
  BY <1>1 DEF OwnerInv
<1>3. \A id \in Id, ip \in IP : ~Owns(id, ip)'
  BY <1>1, <1>2 DEF Owns, Has, Walks, Writes, Leaves
<1>4. \A id \in Id, ip \in IP : Apart(id, ip)'
  BY <1>3 DEF Owns, Apart
<1> QED
  BY <1>1, <1>3, <1>4 DEF OwnerInv, CalmInv

\* Stop takes the clients from the map, and stores what the bound allocations had.
LEMMA StoppingActions ==
  ASSUME FirstInv
  PROVE  /\ BeginStop => Keeps /\ CalmInv'
         /\ \A id \in Id : StopAllocation(id) => Keeps /\ CalmInv'
         /\ Exit => Keeps /\ CalmInv'
<1> USE DEF FirstInv, Keeps, Owns, Has, Walks, Writes, Leaves, CalmInv, Live, Idle,
            store, dhcp, thread, process, api
<1>1. ASSUME BeginStop PROVE Keeps /\ CalmInv'
  BY <1>1 DEF BeginStop
<1>2. ASSUME NEW x \in Id, StopAllocation(x) PROVE Keeps /\ CalmInv'
  <2>1. /\ phase = "stop" /\ phase' = "stop" /\ todo[x] # Absent
        /\ pc' = "stop.put" /\ cur' = x /\ rec'.ip = todo[x].ip
        /\ todo' = [todo EXCEPT ![x] = Absent]
        /\ UNCHANGED <<alloc, events, boots>>
        /\ todo \in [Id -> Record \cup {Absent}]
    BY <1>2 DEF StopAllocation, ClientInv, TypeInv, RecordsOK, Record, Allocation
  <2>2. \A id \in Id : client'[id] \in {client[id], Absent}
    BY <1>2, StopShrinks DEF StopAllocation, ClientInv
  <2> QED
    BY <2>1, <2>2
<1>3. ASSUME Exit PROVE Keeps /\ CalmInv'
  BY <1>3, NullsAreNotRecords DEF Exit, Halt, Return, NoRecords
<1> QED
  BY <1>1, <1>2, <1>3

\* Callbacks and crashes are for other environments.
LEMMA ExcludedActions ==
  ASSUME FirstProcess, FirstInv
  PROVE  /\ ~Crash
         /\ \A id \in Id : ~WriteRenewal(id) /\ ~RenewFails(id)
         /\ \A id \in Id, ip \in IP : ~Renew(id, ip)
BY ConfigurationAssumption
DEF FirstProcess, FirstInv, CalmInv, ClientInv, TypeInv, ScalarsOK, Crash, WriteRenewal,
    RenewPut, RenewFails, RenewPutFails, Running, Renew

LEMMA FirstInvIsInductive ==
  ASSUME FirstProcess, FirstInv, [Next]_vars
  PROVE  FirstInv'
<1> SUFFICES OwnerInv' /\ CalmInv'
  BY ClientInvIsInductive, StoreInvIsInductive DEF FirstInv
<1>1. Keeps => OwnerInv'
  BY KeepsOwners DEF FirstInv
<1>2. Still => OwnerInv'
  BY <1>1, StillKeeps DEF FirstInv
<1>3. CASE Startup
  BY <1>2, <1>3, StillActions, ConvergeDeleteIsStill, BootKeepsOwners, ConvergeKeepsOwners
  DEF Startup
<1>4. CASE Handler
  BY <1>1, <1>2, <1>4, StillActions, RemovingActions, PuttingActions, OnCreateKeeps,
     OnDeleteKeeps, BoundKeepsOwners
  DEF Handler
<1>5. CASE Shutdown
  BY <1>1, <1>5, PuttingActions, StoppingActions DEF Shutdown
<1>6. CASE Clients
  BY <1>6, ExcludedActions DEF Clients
<1>7. CASE Failures
  BY <1>2, <1>7, StillActions, ExcludedActions DEF Failures
<1>8. CASE Environment
  BY <1>1, <1>2, <1>8, StillActions, RemovingActions, PuttingActions DEF Environment
<1>9. CASE UNCHANGED vars
  BY <1>2, <1>9, StillActions
<1> QED
  BY <1>3, <1>4, <1>5, <1>6, <1>7, <1>8, <1>9 DEF Next

LEMMA FirstInvHolds == FirstProcess => (Spec => []FirstInv)
<1> SUFFICES ASSUME FirstProcess PROVE Spec => []FirstInv
  OBVIOUS
<1>1. Init => FirstInv
  <2>1. Init => \A id \in Id, ip \in IP : ~Owns(id, ip)
    BY DEF Init, StoreInit, NoRecords, Owns, Has, Walks, Writes, Leaves
  <2>2. Init => CalmInv
    BY DEF Init, DHCPInit, CalmInv
  <2> QED
    BY <2>1, <2>2, ClientInvStarts, StoreInvStarts DEF FirstInv, OwnerInv, Live, Init
<1>2. FirstInv /\ [Next]_vars => FirstInv'
  BY FirstInvIsInductive
<1> QED
  BY <1>1, <1>2, PTL DEF Spec

\* In the first process, while leases outlast it, each bound allocation has a client that
\* will renew its lease, or a deletion is queued: no failure, late removal or early
\* request leaves a lease unattended (controller.go:141-151, 229).
THEOREM BoundAllocationsAreServed == FirstProcess => (Spec => []BoundIsServed)
<1> SUFFICES ASSUME FirstProcess PROVE Spec => []BoundIsServed
  OBVIOUS
<1>1. FirstInv => BoundIsServed
  <2> SUFFICES ASSUME FirstInv, Steady, NEW id \in Id, Stored(id, "Bound")
               PROVE  Registered(id)
    BY DEF BoundIsServed
  <2>1. alloc[id] # Absent /\ alloc[id].ip \in IP
    BY DEF FirstInv, StoreInv, CompleteInv, Complete, Stored, ClientInv, TypeInv, RecordsOK,
           Record, Allocation
  <2>2. clients[alloc[id].ip] = id
    BY <2>1 DEF FirstInv, OwnerInv, Owns, Has, Steady, Live
  <2> QED
    BY <2>1, <2>2 DEF Registered
<1> QED
  BY <1>1, FirstInvHolds, PTL

\* In the same environment no address is stored twice, although Bound looks only at the
\* map of clients, and the store follows later (dhcp.go:57-64, controller.go:149, 219).
THEOREM AddressesAreExclusive == FirstProcess => (Spec => []IPIsExclusive)
<1> SUFFICES ASSUME FirstProcess PROVE Spec => []IPIsExclusive
  OBVIOUS
<1>1. FirstInv => IPIsExclusive
  <2> SUFFICES ASSUME FirstInv, NEW id \in Id, NEW other \in Id,
                      alloc[id] # Absent, alloc[other] # Absent,
                      alloc[id].ip = alloc[other].ip, alloc[id].ip # NoIP
               PROVE  id = other
    BY DEF IPIsExclusive
  <2>1. alloc[id].ip \in IP
    BY DEF FirstInv, ClientInv, TypeInv, RecordsOK, Record, Allocation
  <2> QED
    BY <2>1 DEF FirstInv, OwnerInv, Owns, Has
<1> QED
  BY <1>1, FirstInvHolds, PTL

\* And the deletion of an allocation stops its own client only, although
\* deleteAllocation looks the client up by the address of the record (controller.go:229,
\* dhcp.go:78-85).
THEOREM DeletionStopsItsOwnClient == FirstProcess => (Spec => StopsOwnClient)
<1> DEFINE Own == phase = "watch" /\ phase' = "watch" =>
                    \A id \in Id : Running(id) /\ ~Running(id)' =>
                      \/ id = cur
                      \/ events # << >> /\ Head(events).id = id
<1> SUFFICES ASSUME FirstProcess PROVE Spec => [][Own]_vars
  BY DEF StopsOwnClient
<1>1. FirstInv /\ [Next]_vars => Own
  <2> SUFFICES ASSUME FirstInv, [Next]_vars, phase = "watch", phase' = "watch",
                      NEW id \in Id, client[id] # Absent, client'[id] = Absent, id # cur
               PROVE  events # << >> /\ Head(events).id = id
    BY DEF Running
  <2>0. ClientInv /\ client \in [Id -> RecordClient \cup {Absent}]
        /\ (pc \notin {"ready", "putmac.check", "putmac.write"} => cur \in Id)
    BY DEF FirstInv, ClientInv, TypeInv, RecordsOK, ThreadOK
  <2>1. ~Harmless
    BY DEF Harmless
  <2>2. CASE OnDelete
    <3>1. Stop(Head(events).val.ip) /\ events # << >>
      BY <2>2 DEF OnDelete, NextEvent, deleteAllocation
    <3>2. Head(events).val.ip \in IP /\ clients[Head(events).val.ip] = id
      BY <2>0, <3>1 DEF Stop, StopClient, ClientInv, TypeInv, ScalarsOK
    <3> QED
      BY <2>2, <3>1, <3>2, OnDeleteStopsOwner
  <2>3. CASE Startup
    BY <2>0, <2>1, <2>3, HarmlessActions
    DEF Startup, Boot, Converge, StartWatch, ConvergeOn, ConvergeUnbound, ConvergeStopped,
        ConvergeDelete, dhcp
  <2>4. CASE Handler
    <3>1. OnCreate => client' = client
      BY DEF OnCreate, dhcp
    <3>2. ASSUME NEW m \in MAC \cup {HostMAC}, DeviceReady(m) PROVE FALSE
      BY <2>0, <3>2 DEF DeviceReady, StartClient
    <3>3. ASSUME NEW ip \in IP, Bound(ip) PROVE FALSE
      BY <2>0, <3>3 DEF Bound, GiveUp, StopClient, Become
    <3>4. BindStop => FALSE
      BY <2>0 DEF BindStop, GiveUp, StopClient
    <3> QED
      BY <2>0, <2>1, <2>2, <2>4, <3>1, <3>2, <3>3, <3>4, HarmlessActions DEF Handler
  <2>5. CASE Shutdown
    BY <2>0, <2>1, <2>5, HarmlessActions DEF Shutdown, BeginStop, Exit, StopAllocation
  <2>6. CASE Clients
    BY <2>6, ExcludedActions DEF Clients
  <2>7. CASE Failures
    BY <2>0, <2>1, <2>7, HarmlessActions, ExcludedActions DEF Failures
  <2>8. CASE Environment
    BY <2>0, <2>1, <2>8, HarmlessActions DEF Environment, ObtainIP, dhcp
  <2>9. CASE UNCHANGED vars
    BY <2>9 DEF vars, dhcp
  <2> QED
    BY <2>3, <2>4, <2>5, <2>6, <2>7, <2>8, <2>9 DEF Next
<1> QED
  BY <1>1, FirstInvHolds, PTL DEF Spec

-----------------------------------------------------------------------------
(* One process, no failing request and none before the watch, but renewals   *)
(* and late leases: the client that runs for an allocation can be found by   *)
(* the lease it holds, and something that names this lease will end it.      *)

Undisturbed ==
  /\ MaxBoots <= 1 /\ MaxFaults = 0 /\ ~EarlyRequests
  /\ Renewals => ~IPChange

\* Until the watch is on there is nothing.
Early == phase \in {"register", "converge"} \/ (phase = "down" /\ boots = 0)

\* The thread will store id.
Puts(id) == pc \in {"removemac", "put"} /\ cur = id

\* The lease is the key in the map, and what the struct and the next record say.
Findable(id, ip) ==
  /\ client[id].ip = ip /\ client[id].al.ip = ip /\ clients[ip] = id
  /\ pc = "put" /\ cur = id => rec.ip = ip

\* A record with the lease is stored, will be, or its deletion is in the queue.
Backed(id, ip) ==
  \/ client[id].cb # Absent \/ Puts(id) \/ Has(id, ip)
  \/ \E i \in 1..Len(events) : Leaves(i, id, ip)

Followed(id) ==
  client[id] # Absent /\ ~Binding(id) =>
    \E ip \in IP : Findable(id, ip) /\ Backed(id, ip)

ReleaseInv ==
  /\ phase # "down" => boots = 1
  /\ Early =>
       /\ pc \in {"ready", "putmac.check", "putmac.write"}
       /\ \A id \in Id : alloc[id] = Absent /\ client[id] = Absent /\ todo[id] = Absent
  /\ phase = "watch" => watching /\ \A id \in Id : Followed(id)

LEMMA NoneFails ==
  ASSUME Undisturbed, ClientInv, ReleaseInv
  PROVE  /\ ~Crash /\ ~Fault
         /\ boots \in 0..1
         /\ \A id \in Id : ~RenewFails(id)
         /\ ~RequestFails /\ ~PopMACFails
<1>1. /\ faults \in 0..MaxFaults /\ boots \in 0..MaxBoots
      /\ MaxBoots \in Nat /\ MaxFaults = 0 /\ MaxBoots <= 1
  BY ConfigurationAssumption DEF Undisturbed, ClientInv, TypeInv, ScalarsOK
<1>2. ~Fault /\ ~Crash /\ boots \in 0..1
  BY <1>1 DEF Fault, Crash, ReleaseInv
<1> QED
  BY <1>2 DEF RenewFails, RequestFails, PopMACFails

LEMMA EarlySteps ==
  ASSUME Undisturbed, ClientInv, ReleaseInv, [Next]_vars, Early
  PROVE  /\ pc' \in {"ready", "putmac.check", "putmac.write"}
         /\ \A id \in Id :
              alloc'[id] = Absent /\ client'[id] = Absent /\ todo'[id] = Absent
         /\ phase' = "watch" => watching'
         /\ phase' # "down" => boots' = 1
<1> USE DEF Early, store, dhcp, thread, process, api
<1>0. /\ ~watching /\ events = << >> /\ phase # "watch" /\ phase # "stop"
      /\ pc \in {"ready", "putmac.check", "putmac.write"}
      /\ client \in [Id -> RecordClient \cup {Absent}]
      /\ todo \in [Id -> Record \cup {Absent}]
      /\ alloc \in [Id -> Record \cup {Absent}]
      /\ \A id \in Id : alloc[id] = Absent /\ client[id] = Absent /\ todo[id] = Absent
      /\ ~EarlyRequests
      /\ phase # "down" => boots = 1
      /\ phase = "down" => boots = 0
  BY DEF ClientInv, PhaseInv, TypeInv, RecordsOK, Undisturbed, ReleaseInv
<1>1. CASE Startup
  BY <1>0, <1>1
  DEF Startup, Boot, Converge, StartWatch, RegisterMAC, ConvergeOn, ConvergeUnbound,
      ConvergeStopped, ConvergeDelete, ConvergeBound
<1>2. CASE Handler
  <2>1. PutMACCheck \/ PutMACWrite
    BY <1>0, <1>2
    DEF Handler, OnCreate, OnDelete, NextEvent, PopMACGet, PopMACDelete, PopMACEmpty,
        DeviceReady, Bound, BindTimeout, BindStop, RemoveMAC, PutBound, RemoveUnbound,
        RemoveDevice
  <2> QED
    BY <1>0, <2>1
    DEF PutMACCheck, PutMACWrite, PutMACSites, PutMACReturns, Return, GoTo, SetPool
<1>3. CASE Shutdown
  BY <1>0, <1>3 DEF Shutdown, BeginStop, PutStopped, Exit, StopAllocation
<1>4. CASE Clients
  BY <1>0, <1>4 DEF Clients, WriteRenewal, RenewPut, Renew, OnRenew, Running
<1>5. CASE Failures
  BY <1>0, <1>5, NoneFails DEF Failures, DeviceFails, Return
<1>6. CASE Environment
  BY <1>0, <1>6
  DEF Environment, ObtainIP, ReturnIP, Expire, Requests, AdminCheck, AdminWrite,
      AdminRemove, SetPool
<1>7. CASE UNCHANGED vars
  BY <1>0, <1>7 DEF vars
<1> QED
  BY <1>1, <1>2, <1>3, <1>4, <1>5, <1>6, <1>7 DEF Next

\* The phases are passed once.
LEMMA PhasesOfTheFirst ==
  ASSUME Undisturbed, ClientInv, ReleaseInv, [Next]_vars, ~Early
  PROVE  ~Early' /\ (phase' = "watch" => phase = "watch") /\ (phase' # "down" => boots' = 1)
<1> USE DEF Early
<1>1. (phase # "down" => boots = 1) /\ (phase = "down" => boots # 0 /\ boots \in 0..1)
      /\ MaxBoots \in {0, 1}
  BY ConfigurationAssumption, NoneFails DEF ReleaseInv, Undisturbed
<1>2. SUFFICES \/ UNCHANGED <<phase, boots>>
               \/ phase' = "stop" /\ phase = "watch" /\ boots' = boots
               \/ phase # "down" /\ phase' = "down" /\ boots' = boots
  BY <1>1
<1> USE DEF process
<1>3. CASE Startup
  BY <1>1, <1>3
  DEF Startup, Boot, Converge, StartWatch, RegisterMAC, ConvergeOn, ConvergeUnbound,
      ConvergeStopped, ConvergeDelete, ConvergeBound
<1>4. CASE Handler
  BY <1>4
  DEF Handler, OnCreate, OnDelete, NextEvent, PopMACGet, PopMACDelete, PopMACEmpty,
      DeviceReady, Bound, BindTimeout, BindStop, RemoveMAC, PutBound, RemoveUnbound,
      PutMACCheck, PutMACWrite, RemoveDevice
<1>5. CASE Shutdown
  BY <1>5 DEF Shutdown, BeginStop, PutStopped, Exit, Halt, StopAllocation
<1>6. CASE Clients
  BY <1>6 DEF Clients, WriteRenewal, Renew
<1>7. CASE Failures
  BY <1>7, NoneFails DEF Failures, DeviceFails
<1>8. CASE Environment
  BY <1>8 DEF Environment, ObtainIP, ReturnIP, Expire, AdminCheck, AdminWrite, AdminRemove
<1>9. CASE UNCHANGED vars
  BY <1>9 DEF vars
<1> QED
  BY <1>3, <1>4, <1>5, <1>6, <1>7, <1>8, <1>9 DEF Next

-----------------------------------------------------------------------------
(* While the controller watches, most steps leave the clients and what they  *)
(* can be found by as they are, and the rest is about the records.           *)

Watches == ClientInv /\ StoreInv /\ ReleaseInv /\ phase = "watch"

Follows == \A id \in Id : Followed(id)'

\* No client is new or has a new lease, none is taken out of the map while it runs, and the
\* record in hand is the old one or the client's.
Retains ==
  /\ \A id \in Id : client'[id] # Absent /\ ~Binding(id)' =>
       /\ client[id] # Absent /\ ~Binding(id)
       /\ client'[id].ip = client[id].ip /\ client'[id].al = client[id].al
       /\ \A ip \in IP : clients[ip] = id => clients'[ip] = id
  /\ pc' = "put" => \/ pc = "put" /\ cur' = cur /\ rec' = rec
                    \/ cur' = cur /\ rec' = client[cur].al

LEMMA RetainedIsFollowed ==
  ASSUME Watches, Retains, NEW id \in Id,
         \A ip \in IP : /\ client[id] # Absent /\ client'[id] # Absent /\ ~Binding(id)'
                        /\ Findable(id, ip) /\ Backed(id, ip)
                        => Backed(id, ip)'
  PROVE  Followed(id)'
<1> SUFFICES ASSUME client'[id] # Absent, ~Binding(id)'
             PROVE  \E ip \in IP : Findable(id, ip)' /\ Backed(id, ip)'
  BY DEF Followed
<1>1. /\ client[id] # Absent /\ ~Binding(id)
      /\ client'[id].ip = client[id].ip /\ client'[id].al = client[id].al
      /\ \A ip \in IP : clients[ip] = id => clients'[ip] = id
      /\ pc' = "put" /\ cur' = id =>
           (pc = "put" /\ cur = id /\ rec' = rec) \/ rec' = client[id].al
  BY DEF Retains
<1>2. PICK ip \in IP : Findable(id, ip) /\ Backed(id, ip)
  BY <1>1 DEF Watches, ReleaseInv, Followed
<1>3. Findable(id, ip)'
  BY <1>1, <1>2 DEF Findable
<1> QED
  BY <1>1, <1>2, <1>3

\* The records do not change, nor does what is in hand for one.
LEMMA QuietFollows ==
  ASSUME Watches, Retains, UNCHANGED <<alloc, events>>,
         \A id \in Id : Puts(id) => Puts(id)',
         \A id \in Id : client'[id] # Absent /\ ~Binding(id)' /\ client[id].cb # Absent =>
                          client'[id].cb # Absent
  PROVE  Follows
<1> SUFFICES ASSUME NEW id \in Id PROVE Followed(id)'
  BY DEF Follows
<1>1. \A ip \in IP : (Has(id, ip) => Has(id, ip)')
        /\ \A i \in 1..Len(events) : Leaves(i, id, ip) => Leaves(i, id, ip)'
  BY DEF Has, Leaves
<1> QED
  BY <1>1, RetainedIsFollowed DEF Backed

LEMMA RemoveFollows ==
  ASSUME Watches, Retains, NEW x \in Id, RemoveAllocation(x), client' = client,
         \A id \in Id : Puts(id) => Puts(id)'
  PROVE  Follows
<1> DEFINE e == [kind |-> "delete", id |-> x, val |-> alloc[x]]
<1>0. /\ events \in Seq(RecordEvent) /\ alloc \in [Id -> Record \cup {Absent}]
      /\ alloc' = [alloc EXCEPT ![x] = Absent] /\ watching
  BY DEF Watches, ClientInv, TypeInv, RecordsOK, RemoveAllocation, ReleaseInv
<1> SUFFICES ASSUME NEW id \in Id PROVE Followed(id)'
  BY DEF Follows
<1>1. CASE alloc[x] = Absent
  <2>1. events' = events
    BY <1>1 DEF RemoveAllocation
  <2>2. \A ip \in IP : (Has(id, ip) => Has(id, ip)')
          /\ \A i \in 1..Len(events) : Leaves(i, id, ip) => Leaves(i, id, ip)'
    BY <1>0, <1>1, <2>1 DEF Has, Leaves
  <2> QED
    BY <2>1, <2>2, RetainedIsFollowed DEF Backed
<1>2. CASE alloc[x] # Absent
  <2>1. events' = Append(events, e) /\ e \in RecordEvent
    BY <1>0, <1>2 DEF RemoveAllocation, Notified, RecordEvent
  <2>2. PICK n \in 1..Len(events') :
          events'[n] = e /\ \A i \in 1..Len(events) : i \in 1..Len(events') /\ events'[i] = events[i]
    BY <1>0, <2>1
  <2>3. \A ip \in IP :
          /\ Has(id, ip) => Has(id, ip)' \/ Leaves(n, id, ip)'
          /\ \A i \in 1..Len(events) : Leaves(i, id, ip) => Leaves(i, id, ip)'
    BY <1>0, <2>2 DEF Has, Leaves
  <2> QED
    BY <2>2, <2>3, RetainedIsFollowed DEF Backed
<1> QED
  BY <1>1, <1>2

\* What is stored names the lease, if its client runs on.
LEMMA PutFollows ==
  ASSUME Watches, Retains, NEW x \in Id, NEW a \in Record, PutAllocation(x, a),
         \A id \in Id \ {x} : Puts(id) => Puts(id)',
         \A id \in Id \ {x} : client'[id] = client[id],
         \A ip \in IP : client[x] # Absent /\ client'[x] # Absent /\ ~Binding(x)' /\ Findable(x, ip)
                          => a.ip = ip
  PROVE  Follows
<1> DEFINE e == [kind |-> "create", id |-> x, val |-> a]
<1>1. /\ events \in Seq(RecordEvent) /\ alloc \in [Id -> Record \cup {Absent}]
      /\ alloc' = [alloc EXCEPT ![x] = a] /\ a # Absent
      /\ events' \in {events, Append(events, e)} /\ e \in RecordEvent
  BY NullsAreNotRecords
  DEF Watches, ClientInv, TypeInv, RecordsOK, RecordEvent, PutAllocation, Notified
<1>2. \A i \in 1..Len(events) : i \in 1..Len(events') /\ events'[i] = events[i]
  BY <1>1
<1> SUFFICES ASSUME NEW id \in Id PROVE Followed(id)'
  BY DEF Follows
<1>3. CASE id = x
  BY <1>1, <1>3, RetainedIsFollowed DEF Backed, Has
<1>4. CASE id # x
  <2>1. \A ip \in IP : (Has(id, ip) => Has(id, ip)')
          /\ \A i \in 1..Len(events) : Leaves(i, id, ip) => Leaves(i, id, ip)'
    BY <1>1, <1>2, <1>4 DEF Has, Leaves
  <2> QED
    BY <1>2, <1>4, <2>1, RetainedIsFollowed DEF Backed
<1> QED
  BY <1>3, <1>4

\* The event that is taken out of the queue is no deletion of a client that runs on.
LEMMA NextEventFollows ==
  ASSUME Watches, Retains, Idle, events # << >>, events' = Tail(events), alloc' = alloc,
         \A id \in Id : client'[id] \in {client[id], Absent},
         \A id \in Id, ip \in IP : client'[id] # Absent /\ Findable(id, ip) => ~Leaves(1, id, ip)
  PROVE  Follows
<1>1. events \in Seq(RecordEvent)
  BY DEF Watches, ClientInv, TypeInv, RecordsOK
<1>2. \A i \in 1..Len(events) : i # 1 =>
        i - 1 \in 1..Len(events') /\ events'[i - 1] = events[i]
  BY <1>1
<1> SUFFICES ASSUME NEW id \in Id PROVE Followed(id)'
  BY DEF Follows
<1>3. \A ip \in IP : (Has(id, ip) => Has(id, ip)') /\ ~Puts(id)
  BY DEF Has, Puts, Idle
<1>4. ASSUME NEW ip \in IP, NEW i \in 1..Len(events), i # 1, Leaves(i, id, ip)
      PROVE  \E j \in 1..Len(events') : Leaves(j, id, ip)'
  <2>1. PICK j \in 1..Len(events') : events'[j] = events[i]
    BY <1>2, <1>4
  <2> QED
    BY <1>4, <2>1 DEF Leaves
<1> QED
  BY <1>3, <1>4, RetainedIsFollowed DEF Backed

LEMMA OnCreateFollows == ASSUME Watches, OnCreate PROVE Follows
<1>1. /\ Idle /\ events # << >> /\ events' = Tail(events) /\ alloc' = alloc
      /\ clients' = clients /\ client' = client /\ Head(events).kind = "create"
      /\ events \in Seq(RecordEvent) /\ pc' \notin {"bind", "bindstop", "put"}
  BY DEF OnCreate, NextEvent, BeginUnbound, Idle, dhcp, thread, Watches, ClientInv, TypeInv,
         RecordsOK
<1>2. \A id \in Id, ip \in IP : ~Leaves(1, id, ip)
  BY <1>1 DEF Leaves
<1>3. Retains
  BY <1>1 DEF Retains, Binding, Idle
<1> QED
  BY <1>1, <1>2, <1>3, NextEventFollows

LEMMA OnDeleteFollows == ASSUME Watches, OnDelete PROVE Follows
<1>1. /\ Idle /\ events # << >> /\ events' = Tail(events) /\ alloc' = alloc
      /\ Stop(Head(events).val.ip) /\ events \in Seq(RecordEvent)
      /\ clients \in [IP -> Id \cup {Absent}]
      /\ client \in [Id -> RecordClient \cup {Absent}]
      /\ pc' \notin {"bind", "bindstop", "put"}
  BY DEF OnDelete, NextEvent, deleteAllocation, Recover, Return, Watches, ClientInv, TypeInv,
         RecordsOK, ScalarsOK
<1>2. \A id \in Id : client'[id] \in {client[id], Absent}
  BY <1>1, StopShrinks DEF Watches, ClientInv
<1>3. \A id \in Id, ip \in IP : client'[id] # Absent /\ clients[ip] = id =>
        clients'[ip] = id /\ ip # Head(events).val.ip
  BY <1>1, NullsAreNotValues DEF Stop, StopClient
<1>4. \A id \in Id, ip \in IP : Leaves(1, id, ip) => ip = Head(events).val.ip
  BY <1>1 DEF Leaves
<1>5. Retains
  BY <1>1, <1>2, <1>3 DEF Retains, Binding, Idle
<1> QED
  BY <1>1, <1>2, <1>3, <1>4, <1>5, NextEventFollows DEF Findable

LEMMA BoundFollows == ASSUME Watches, NEW ip \in IP, Bound(ip) PROVE Follows
<1>0. /\ pc = "bind" /\ cur \in Id /\ UNCHANGED <<alloc, events>>
      /\ clients \in [IP -> Id \cup {Absent}]
      /\ client \in [Id -> RecordClient \cup {Absent}]
  BY DEF Bound, store, Watches, ClientInv, TypeInv, RecordsOK, ScalarsOK, ThreadOK
<1>1. CASE AlreadyManaged(ip)
  <2>1. /\ client' = [client EXCEPT ![cur] = Absent] /\ clients' = clients
        /\ pc' \in {"remove", "ready"}
    BY <1>0, <1>1 DEF Bound, GiveUp, StopClient, BindFails, GoTo, Return
  <2>2. Retains /\ \A id \in Id : ~Puts(id)
    BY <1>0, <2>1 DEF Retains, Binding, Puts
  <2> QED
    BY <1>0, <2>1, <2>2, QuietFollows
<1>2. CASE ~AlreadyManaged(ip)
  <2>1. /\ pc' \in {"removemac", "put"} /\ cur' = cur /\ rec'.ip = ip
        /\ clients' = [clients EXCEPT ![ip] = cur] /\ clients[ip] = Absent
        /\ client' = [client EXCEPT ![cur] =
                        [al |-> rec', ip |-> ip, mac |-> hand, cb |-> Absent]]
    BY <1>0, <1>2 DEF Bound, AlreadyManaged, Register, Become, WithLease
  <2>2. ASSUME NEW id \in Id, id = cur PROVE Followed(id)'
    BY <1>0, <2>1, <2>2 DEF Followed, Findable, Backed, Puts
  <2>3. ASSUME NEW id \in Id \ {cur}, client[id] # Absent PROVE Followed(id)'
    <3>1. ~Binding(id) /\ client'[id] = client[id]
      BY <1>0, <2>1, <2>3 DEF Binding
    <3>2. PICK x \in IP : Findable(id, x) /\ Backed(id, x)
      BY <2>3, <3>1 DEF Watches, ReleaseInv, Followed
    <3>3. Findable(id, x)'
      BY <1>0, <2>1, <2>3, <3>1, <3>2, NullsAreNotValues DEF Findable
    <3>4. Backed(id, x)'
      BY <1>0, <2>1, <2>3, <3>1, <3>2 DEF Backed, Puts, Has, Leaves
    <3> QED
      BY <3>3, <3>4 DEF Followed
  <2>4. ASSUME NEW id \in Id \ {cur}, client[id] = Absent PROVE Followed(id)'
    BY <1>0, <2>1, <2>4 DEF Followed
  <2> QED
    BY <2>2, <2>3, <2>4 DEF Follows
<1> QED
  BY <1>1, <1>2

\* A renewal yields the same lease.
LEMMA RenewFollows ==
  ASSUME Undisturbed, Watches, NEW x \in Id, NEW ip \in IP, Renew(x, ip) PROVE Follows
<1>1. /\ client \in [Id -> RecordClient \cup {Absent}] /\ client[x] # Absent
      /\ UNCHANGED <<alloc, events, clients, pc, cur, rec>>
      /\ \A id \in Id \ {x} : client'[id] = client[id]
  BY DEF Renew, OnRenew, Running, store, thread, Watches, ClientInv, TypeInv, RecordsOK
<1>2. /\ client'[x].ip = ip /\ client'[x].al.ip = ip /\ client'[x].cb = client'[x].al
      /\ client'[x].al \in Record
  <2>1. client[x] \in RecordClient
    BY <1>1
  <2>2. [client[x].al EXCEPT !.ip = ip] \in Record
    BY <2>1 DEF RecordClient, Record, Allocation
  <2> QED
    BY <1>1, <2>1, <2>2 DEF Renew, OnRenew, RecordClient, Record, Allocation
<1>3. \A id \in Id : Binding(id)' <=> Binding(id)
  BY <1>1 DEF Binding
<1>4. ASSUME NEW id \in Id, client'[id] # Absent, ~Binding(id) PROVE Followed(id)'
  <2>1. PICK p \in IP : Findable(id, p) /\ Backed(id, p)
    BY <1>1, <1>4 DEF Watches, ReleaseInv, Followed
  <2>2. CASE id = x
    <3>1. ip = p
      BY <1>4, <2>1, <2>2, NullsAreNotValues
      DEF Renew, OnRenew, Leasable, Undisturbed, Findable
    <3>2. Findable(id, p)'
      BY <1>1, <1>2, <2>1, <2>2, <3>1 DEF Findable
    <3>3. Backed(id, p)'
      BY <1>2, <2>2, NullsAreNotRecords DEF Backed
    <3> QED
      BY <3>2, <3>3 DEF Followed
  <2>3. CASE id # x
    <3>1. client'[id] = client[id]
      BY <1>1, <2>3
    <3>2. Findable(id, p)' /\ Backed(id, p)'
      BY <1>1, <2>1, <3>1 DEF Findable, Backed, Puts, Has, Leaves
    <3> QED
      BY <3>2 DEF Followed
  <2> QED
    BY <2>2, <2>3
<1> QED
  BY <1>3, <1>4 DEF Follows, Followed

\* What is put is what the client holds.
LEMMA PutBoundFollows == ASSUME Watches, PutBound PROVE Follows
<1>1. /\ cur \in Id /\ rec \in Record /\ PutAllocation(cur, rec)
      /\ client' = client /\ clients' = clients /\ pc = "put" /\ pc' = "ready"
  BY DEF PutBound, Return, dhcp, Watches, ClientInv, TypeInv, ThreadOK
<1>2. Retains
  BY <1>1 DEF Retains, Binding
<1>3. \A id \in Id \ {cur} : ~Puts(id)
  BY DEF Puts
<1> QED
  BY <1>1, <1>2, <1>3, PutFollows DEF Findable

LEMMA WriteRenewalFollows ==
  ASSUME Watches, NEW x \in Id, WriteRenewal(x) PROVE Follows
<1>1. /\ RenewPut(x) /\ PutAllocation(x, client[x].cb)
      /\ client \in [Id -> RecordClient \cup {Absent}]
      /\ UNCHANGED <<clients, pc, cur, rec>>
      /\ client' = [client EXCEPT ![x].cb = Absent]
  BY DEF WriteRenewal, RenewPut, thread, Watches, ClientInv, TypeInv, RecordsOK
<1>2. client[x].cb \in Record /\ client[x].cb = client[x].al
  BY <1>1, CallbackRecord DEF Watches
<1>3. \A id \in Id : /\ client'[id] # Absent => client[id] # Absent
                     /\ client'[id].ip = client[id].ip /\ client'[id].al = client[id].al
                     /\ Binding(id)' <=> Binding(id)
                     /\ Puts(id)' <=> Puts(id)
  BY <1>1, NullsAreNotRecords DEF Binding, Puts, RenewPut, Running, RecordClient
<1>4. Retains
  BY <1>1, <1>3 DEF Retains
<1>5. \A id \in Id \ {x} : client'[id] = client[id]
  BY <1>1
<1> QED
  BY <1>1, <1>2, <1>3, <1>4, <1>5, PutFollows DEF Findable

LEMMA ObtainIPFollows == ASSUME Watches, NEW x \in Id, ObtainIP(x) PROVE Follows
<1>1. /\ PutAllocation(x, NewAllocation) /\ client[x] = Absent
      /\ UNCHANGED <<client, clients, pc, cur, rec>>
  BY DEF ObtainIP, dhcp, thread, Watches, ClientInv, FreshInv
<1>2. NewAllocation \in Record
  BY NullsAreNotValues DEF NewAllocation, Record, Allocation, AllocationState
<1>3. Retains /\ \A id \in Id : Puts(id)' <=> Puts(id)
  BY <1>1 DEF Retains, Binding, Puts
<1> QED
  BY <1>1, <1>2, <1>3, PutFollows

LEMMA RemovingFollows ==
  ASSUME Watches
  PROVE  /\ RemoveUnbound => Follows
         /\ \A id \in Id : ReturnIP(id) \/ Expire(id) => Follows
<1>1. ASSUME RemoveUnbound PROVE Follows
  <2>1. /\ cur \in Id /\ RemoveAllocation(cur) /\ UNCHANGED <<client, clients>>
        /\ pc = "remove" /\ pc' = "ready"
    BY <1>1 DEF RemoveUnbound, Return, dhcp, Watches, ClientInv, TypeInv, ThreadOK
  <2>2. Retains /\ \A id \in Id : ~Puts(id)
    BY <2>1 DEF Retains, Binding, Puts
  <2> QED
    BY <2>1, <2>2, RemoveFollows
<1>2. ASSUME NEW x \in Id, ReturnIP(x) \/ Expire(x) PROVE Follows
  <2>1. RemoveAllocation(x) /\ UNCHANGED <<client, clients, pc, cur, rec>>
    BY <1>2 DEF ReturnIP, Expire, dhcp, thread
  <2>2. Retains /\ \A id \in Id : Puts(id)' <=> Puts(id)
    BY <2>1 DEF Retains, Binding, Puts
  <2> QED
    BY <2>1, <2>2, RemoveFollows
<1> QED
  BY <1>1, <1>2

LEMMA QuietFollowing ==
  ASSUME Watches
  PROVE  /\ PopMACGet => Follows
         /\ PopMACDelete => Follows
         /\ PopMACEmpty => Follows
         /\ \A m \in MAC \cup {HostMAC} : DeviceReady(m) => Follows
         /\ BindTimeout => Follows
         /\ BindStop => Follows
         /\ RemoveMAC => Follows
         /\ PutMACCheck => Follows
         /\ PutMACWrite => Follows
         /\ RemoveDevice => Follows
         /\ DeviceFails => Follows
         /\ \A m \in MAC : AdminCheck(m) => Follows
         /\ \A m \in MAC : AdminRemove(m) => Follows
         /\ AdminWrite => Follows
         /\ (UNCHANGED vars) => Follows
<1>0. /\ client \in [Id -> RecordClient \cup {Absent}]
      /\ pc \notin {"ready", "putmac.check", "putmac.write"} => cur \in Id
  BY DEF Watches, ClientInv, TypeInv, RecordsOK, ThreadOK
<1> DEFINE AllFollow ==
      /\ UNCHANGED <<alloc, events, clients>>
      /\ \A id \in Id : client'[id] # Absent /\ ~Binding(id)' =>
           client'[id] = client[id] /\ ~Binding(id)
      /\ \A id \in Id : Puts(id) => Puts(id)'
      /\ pc' = "put" => \/ pc = "put" /\ cur' = cur /\ rec' = rec
                        \/ cur' = cur /\ rec' = client[cur].al
<1>1. AllFollow => Follows
  BY QuietFollows DEF Retains
<1> USE <1>0 DEF Binding, Puts, store, dhcp, thread, GoTo, Return
<1>2. PopMACGet => AllFollow
  BY DEF PopMACGet
<1>3. PopMACDelete => AllFollow
  BY DEF PopMACDelete, SetPool
<1>4. PopMACEmpty => AllFollow
  BY DEF PopMACEmpty, WithoutMAC
<1>5. \A m \in MAC \cup {HostMAC} : DeviceReady(m) => AllFollow
  BY DEF DeviceReady, StartClient
<1>6. BindTimeout => AllFollow
  BY DEF BindTimeout
<1>7. BindStop => AllFollow
  BY DEF BindStop, GiveUp, StopClient, BindFails
<1>8. RemoveMAC => AllFollow
  BY DEF RemoveMAC, SetPool, EncodeAndPut
<1>9. PutMACCheck => AllFollow
  BY DEF PutMACCheck, PutMACSites, PutMACReturns
<1>10. PutMACWrite => AllFollow
  BY DEF PutMACWrite, PutMACSites, PutMACReturns, SetPool
<1>11. RemoveDevice => AllFollow
  BY DEF RemoveDevice
<1>12. DeviceFails => AllFollow
  BY DEF DeviceFails
<1>13. \A m \in MAC : (AdminCheck(m) => AllFollow) /\ (AdminRemove(m) => AllFollow)
  BY DEF AdminCheck, AdminRemove, SetPool
<1>14. AdminWrite => AllFollow
  BY DEF AdminWrite, SetPool
<1>15. (UNCHANGED vars) => AllFollow
  BY DEF vars
<1> HIDE DEF AllFollow
<1> QED
  BY <1>1, <1>2, <1>3, <1>4, <1>5, <1>6, <1>7, <1>8, <1>9, <1>10, <1>11, <1>12, <1>13, <1>14, <1>15

LEMMA WatchSteps ==
  ASSUME Undisturbed, Watches, [Next]_vars, phase' = "watch"
  PROVE  watching' /\ Follows
<1>0. ClientInv /\ StoreInv /\ ReleaseInv /\ watching /\ pc # "stop.put"
  BY DEF Watches, ReleaseInv, StoreInv, StageInv
<1> USE <1>0
<1>1. CASE Startup
  <2>1. FALSE
    BY <1>1
    DEF Startup, Boot, Converge, StartWatch, RegisterMAC, ConvergeOn, ConvergeUnbound,
        ConvergeStopped, ConvergeDelete, ConvergeBound, Watches
  <2> QED
    BY <2>1
<1>2. CASE Handler
  <2>1. Follows
    BY <1>2, QuietFollowing, RemovingFollows, OnCreateFollows, OnDeleteFollows, BoundFollows,
       PutBoundFollows
    DEF Handler
  <2>2. watching' = watching
    <3>1. CASE OnCreate \/ OnDelete
      BY <3>1 DEF OnCreate, OnDelete, NextEvent
    <3>2. CASE RemoveUnbound \/ PutBound
      BY <3>2 DEF RemoveUnbound, PutBound, RemoveAllocation, PutAllocation
    <3>3. ASSUME NEW m \in MAC \cup {HostMAC}, DeviceReady(m) PROVE watching' = watching
      BY <3>3 DEF DeviceReady, store
    <3>4. ASSUME NEW ip \in IP, Bound(ip) PROVE watching' = watching
      BY <3>4 DEF Bound, store
    <3> QED
      BY <1>2, <3>1, <3>2, <3>3, <3>4
      DEF Handler, PopMACGet, PopMACDelete, PopMACEmpty, BindTimeout, BindStop, RemoveMAC,
          PutMACCheck, PutMACWrite, RemoveDevice, SetPool, store
  <2> QED
    BY <2>1, <2>2
<1>3. CASE Shutdown
  <2>1. FALSE
    BY <1>3 DEF Shutdown, BeginStop, PutStopped, Exit, StopAllocation, Watches
  <2> QED
    BY <2>1
<1>4. CASE Clients
  BY <1>4, RenewFollows, WriteRenewalFollows DEF Clients, Renew, WriteRenewal, store
<1>5. CASE Failures
  BY <1>5, NoneFails, QuietFollowing DEF Failures, DeviceFails, store
<1>6. CASE Environment
  <2>1. Follows
    BY <1>6, QuietFollowing, RemovingFollows, ObtainIPFollows DEF Environment
  <2>2. watching' = watching
    BY <1>6 DEF Environment, ObtainIP, ReturnIP, Expire, PutAllocation, RemoveAllocation,
                AdminCheck, AdminWrite, AdminRemove, SetPool, store
  <2> QED
    BY <2>1, <2>2
<1>7. CASE UNCHANGED vars
  BY <1>7, QuietFollowing DEF vars, store
<1> QED
  BY <1>1, <1>2, <1>3, <1>4, <1>5, <1>6, <1>7 DEF Next

LEMMA ReleaseInvIsInductive ==
  ASSUME Undisturbed, ClientInv, StoreInv, ReleaseInv, [Next]_vars
  PROVE  ReleaseInv'
<1>1. CASE Early
  BY <1>1, EarlySteps DEF ReleaseInv, Followed
<1>2. CASE ~Early
  <2>1. ~Early' /\ (phase' = "watch" => phase = "watch") /\ (phase' # "down" => boots' = 1)
    BY <1>2, PhasesOfTheFirst
  <2>2. phase' = "watch" => watching' /\ Follows
    BY <2>1, WatchSteps DEF Watches
  <2> QED
    BY <2>1, <2>2 DEF ReleaseInv, Follows
<1> QED
  BY <1>1, <1>2

\* In a process that is not disturbed by failing requests, or by requests before the watch,
\* and while renewals yield the same address: when the event of its deletion has been
\* handled, a removed allocation has no client, unless a renewal is just storing it again,
\* in whatever order it was bound, renewed, removed, expired and asked for
\* (controller.go:65-79, 85-98, 229, 245-247).
THEOREM RemovedAllocationsAreStopped == Undisturbed => (Spec => []RemovedIsStopped)
<1> SUFFICES ASSUME Undisturbed PROVE Spec => []RemovedIsStopped
  OBVIOUS
<1>1. Init => ReleaseInv
  BY DEF Init, StoreInit, DHCPInit, NoRecords, ReleaseInv
<1>2. (ClientInv /\ StoreInv) /\ ReleaseInv /\ [Next]_vars => ReleaseInv'
  BY ReleaseInvIsInductive
<1>3. (ClientInv /\ StoreInv) /\ ReleaseInv => RemovedIsStopped
  <2> SUFFICES ASSUME ClientInv, ReleaseInv, Steady, NEW id \in Id,
                      alloc[id] = Absent, Running(id), client[id].cb = Absent
               PROVE  PendingDelete(id)
    BY DEF RemovedIsStopped
  <2>1. PICK ip \in IP : Backed(id, ip)
    BY DEF ReleaseInv, Followed, Running, Binding, Steady, Idle
  <2>2. PICK i \in 1..Len(events) : Leaves(i, id, ip)
    BY <2>1 DEF Backed, Has, Puts, Steady, Idle
  <2>3. DOMAIN events = 1..Len(events)
    BY DEF ClientInv, TypeInv, RecordsOK
  <2> QED
    BY <2>2, <2>3 DEF Leaves, PendingDelete
<1> QED
  BY <1>1, <1>2, <1>3, StoreInvHolds, PTL DEF Spec

-----------------------------------------------------------------------------
(* The hardware addresses, across stops, crashes, failures and late leases,  *)
(* while nobody else touches the pool and no lease is renewed.               *)

NoRivals == ~Renewals /\ AdminMAC = {}

\* The thread has m for id: on the way to a client, a record or a second life of one.
Takes(id, m) ==
  /\ cur = id
  /\ \/ pc \in {"device", "bind", "bindstop", "removemac", "put"} /\ hand = m
     \/ pc = "stop.put" /\ rec.mac = m

\* id has m, or may be stored with it.
Uses(id, m) ==
  \/ alloc[id] # Absent /\ alloc[id].mac = m
  \/ todo[id] # Absent /\ todo[id].mac = m
  \/ Takes(id, m)

\* The i-th event will give m back; the thread is giving it back.
Gives(i, id, m) ==
  /\ i \in 1..Len(events)
  /\ events[i].kind = "delete" /\ events[i].id = id /\ events[i].val.mac = m

Recovers(id, m) == pc \in {"recover.check", "recover.write"} /\ cur = id /\ hand = m

Involved(id, m) ==
  Uses(id, m) \/ Recovers(id, m) \/ \E i \in 1..Len(events) : Gives(i, id, m)

\* m is about to leave the pool, or to enter it.
Moving == {"popmac.delete", "putmac.write", "recover.write"}

\* Nobody but the thread writes, and only what it has in hand.
AloneInv ==
  /\ adminMac = NoMAC
  /\ phase = "down" => pc = "ready"
  /\ \A id \in Id : client[id] # Absent /\ client[id].cb # Absent => Binding(id)
  /\ pc \in {"removemac", "put"} =>
       /\ client[cur].mac = hand
       /\ phase = "watch" => Unset(cur)

InvolvedInv ==
  \A id, other \in Id, m \in MAC : Involved(id, m) /\ Involved(other, m) => id = other

UsedInv ==
  \A id \in Id, m \in MAC : Uses(id, m) => m \notin pool /\ ~(pc \in Moving /\ hand = m)

GivenInv ==
  \A id \in Id, m \in MAC, i \in 1..Len(events) : Gives(i, id, m) =>
    /\ m \notin pool /\ ~Uses(id, m) /\ ~Recovers(id, m)
    /\ ~(pc \in {"popmac.delete", "putmac.check", "putmac.write"} /\ hand = m)
    /\ \A j \in 1..Len(events) : Gives(j, id, m) => i = j

\* What PutMAC does not look at.
CheckInv ==
  pc \in {"putmac.check", "recover.check"} => \A id \in Id :
    /\ ~(todo[id] # Absent /\ todo[id].mac = hand)
    /\ phase = "watch" => ~Uses(id, hand)

HardInv == AloneInv /\ InvolvedInv /\ UsedInv /\ GivenInv /\ CheckInv

RivalInv == ClientInv /\ StoreInv /\ HardInv

-----------------------------------------------------------------------------
(* What the requests do to the deletions in the queue.                       *)

LEMMA RemoveGives ==
  ASSUME TypeInv, NEW x \in Id, RemoveAllocation(x), NEW n, n = Len(events) + 1
  PROVE  \A id \in Id, m \in MAC :
           /\ \A i \in 1..Len(events) : Gives(i, id, m)' <=> Gives(i, id, m)
           /\ \A i \in 1..Len(events') : i \in 1..Len(events) \/ i = n
           /\ n \in 1..Len(events') /\ Gives(n, id, m)' =>
                id = x /\ watching /\ alloc[x] # Absent /\ alloc[x].mac = m
<1> DEFINE e == [kind |-> "delete", id |-> x, val |-> alloc[x]]
<1>1. events \in Seq(RecordEvent) /\ alloc \in [Id -> Record \cup {Absent}]
  BY DEF TypeInv, RecordsOK
<1>2. CASE events' = events
  BY <1>1, <1>2 DEF Gives
<1>3. CASE events' = Append(events, e) /\ watching /\ alloc[x] # Absent
  <2>1. e \in RecordEvent
    BY <1>1, <1>3 DEF RecordEvent
  <2>2. /\ Len(events') = n /\ Len(events) \in Nat
        /\ \A i \in 1..Len(events) : i \in 1..Len(events') /\ events'[i] = events[i]
        /\ events'[n] = e
    BY <1>1, <1>3, <2>1
  <2>3. \A i \in 1..Len(events') : i \in 1..Len(events) \/ i = n
    BY <2>2
  <2> QED
    BY <1>3, <2>2, <2>3 DEF Gives
<1> QED
  BY <1>2, <1>3 DEF RemoveAllocation, Notified

LEMMA PutGives ==
  ASSUME TypeInv, NEW x \in Id, NEW a \in Record, PutAllocation(x, a)
  PROVE  \A id \in Id, m \in MAC, i \in 1..Len(events') :
           Gives(i, id, m)' => i \in 1..Len(events) /\ Gives(i, id, m)
<1> DEFINE e == [kind |-> "create", id |-> x, val |-> a]
<1>1. events \in Seq(RecordEvent) /\ e \in RecordEvent
  BY DEF TypeInv, RecordsOK, RecordEvent
<1>2. events' \in {events, Append(events, e)}
  BY DEF PutAllocation, Notified
<1>3. \A i \in 1..Len(events') :
        (i \in 1..Len(events) /\ events'[i] = events[i]) \/ events'[i] = e
  BY <1>1, <1>2
<1> QED
  BY <1>3 DEF Gives

LEMMA NextGives ==
  ASSUME TypeInv, events # << >>, events' = Tail(events)
  PROVE  /\ 1 \in 1..Len(events) /\ events[1] = Head(events)
         /\ \A i \in 1..Len(events') : i + 1 # 1
         /\ \A i, j \in 1..Len(events') : i + 1 = j + 1 => i = j
         /\ \A id \in Id, m \in MAC, i \in 1..Len(events') :
              Gives(i, id, m)' => i + 1 \in 1..Len(events) /\ Gives(i + 1, id, m)
<1>1. /\ Len(events') = Len(events) - 1 /\ Len(events) \in Nat /\ Len(events) # 0
      /\ \A i \in 1..Len(events') : i + 1 \in 1..Len(events) /\ events'[i] = events[i + 1]
      /\ events[1] = Head(events)
  BY DEF TypeInv, RecordsOK
<1> QED
  BY <1>1 DEF Gives

-----------------------------------------------------------------------------
(* Most steps involve no allocation with an address it was not involved with. *)

\* Deletions stay in the queue or are forgotten; the pool gets nothing; nothing starts to
\* move.
Rests ==
  /\ \A id \in Id, m \in MAC : (Uses(id, m)' => Uses(id, m))
                            /\ (Recovers(id, m)' => Recovers(id, m))
  /\ events' \in {events, << >>}
  /\ pool' \subseteq pool
  /\ pc' \in Moving \cup {"putmac.check", "recover.check"} =>
       /\ pc' = pc /\ hand' = hand /\ phase' = phase
       /\ \A id \in Id : todo'[id] \in {todo[id], Absent}

LEMMA RestsKeep ==
  ASSUME RivalInv, Rests
  PROVE  InvolvedInv' /\ UsedInv' /\ GivenInv' /\ CheckInv'
<1> USE DEF RivalInv, HardInv
<1>1. \A id \in Id, m \in MAC, i \in 1..Len(events') :
        Gives(i, id, m)' => i \in 1..Len(events) /\ Gives(i, id, m)
  BY DEF Rests, Gives
<1>2. InvolvedInv'
  BY <1>1 DEF Rests, InvolvedInv, Involved
<1>3. UsedInv'
  BY DEF Rests, UsedInv
<1>4. GivenInv'
  BY <1>1 DEF Rests, GivenInv, Moving
<1>5. CheckInv'
  <2>1. pc' \in {"putmac.check", "recover.check"} => hand \in MAC
    BY DEF Rests, ClientInv, TypeInv, ThreadOK
  <2> QED
    BY <2>1 DEF Rests, CheckInv
<1> QED
  BY <1>2, <1>3, <1>4, <1>5

LEMMA RestingActions ==
  ASSUME NoRivals, RivalInv
  PROVE  /\ Boot => Rests /\ AloneInv'
         /\ StartWatch => Rests /\ AloneInv'
         /\ Converge => Rests /\ AloneInv'
         /\ \A id \in Id : ConvergeUnbound(id) => Rests /\ AloneInv'
         /\ \A id \in Id : ConvergeStopped(id) => Rests /\ AloneInv'
         /\ \A id \in Id : ConvergeBound(id) => Rests /\ AloneInv'
         /\ PopMACEmpty => Rests /\ AloneInv'
         /\ BindTimeout => Rests /\ AloneInv'
         /\ BindStop => Rests /\ AloneInv'
         /\ RemoveMAC => Rests /\ AloneInv'
         /\ RemoveDevice => Rests /\ AloneInv'
         /\ BeginStop => Rests /\ AloneInv'
         /\ Exit => Rests /\ AloneInv'
         /\ Crash => Rests /\ AloneInv'
         /\ PopMACFails => Rests /\ AloneInv'
         /\ RequestFails => Rests /\ AloneInv'
         /\ \A id \in Id : RenewFails(id) => Rests /\ AloneInv'
         /\ \A m \in MAC : AdminCheck(m) => Rests /\ AloneInv'
         /\ \A m \in MAC : AdminRemove(m) => Rests /\ AloneInv'
         /\ AdminWrite => Rests /\ AloneInv'
         /\ (UNCHANGED vars) => Rests /\ AloneInv'
<1> USE DEF NoRivals, RivalInv, HardInv, Rests, AloneInv, Unset, Uses, Takes, Recovers, Moving,
            Binding, store, dhcp, thread, process, api
<1>0. /\ client \in [Id -> RecordClient \cup {Absent}]
      /\ todo \in [Id -> Record \cup {Absent}]
      /\ pc \notin {"ready", "putmac.check", "putmac.write"} => cur \in Id
      /\ NoMAC \notin MAC
  BY NullsAreNotValues DEF ClientInv, TypeInv, RecordsOK, ThreadOK
<1> USE <1>0
<1>1. ASSUME Boot PROVE Rests /\ AloneInv'
  BY <1>1 DEF Boot
<1>2. ASSUME StartWatch PROVE Rests /\ AloneInv'
  BY <1>2 DEF StartWatch, Idle
<1>3. ASSUME Converge PROVE Rests /\ AloneInv'
  BY <1>3 DEF Converge, Idle
<1>4. ASSUME NEW x \in Id, ConvergeUnbound(x) PROVE Rests /\ AloneInv'
  BY <1>4 DEF ConvergeUnbound, ConvergeOn, BeginUnbound, Idle
<1>5. ASSUME NEW x \in Id, ConvergeStopped(x) PROVE Rests /\ AloneInv'
  BY <1>5 DEF ConvergeStopped, ConvergeOn, BeginStopped, Idle
<1>6. ASSUME NEW x \in Id, ConvergeBound(x) PROVE Rests /\ AloneInv'
  BY <1>6 DEF ConvergeBound, ConvergeOn, Idle
<1>7. ASSUME PopMACEmpty PROVE Rests /\ AloneInv'
  BY <1>7 DEF PopMACEmpty, WithoutMAC, Return
<1>8. ASSUME BindTimeout PROVE Rests /\ AloneInv'
  BY <1>8 DEF BindTimeout, GoTo
<1>9. ASSUME BindStop PROVE Rests /\ AloneInv'
  BY <1>9 DEF BindStop, GiveUp, StopClient, BindFails, GoTo, Return
<1>10. ASSUME RemoveMAC PROVE Rests /\ AloneInv'
  BY <1>10 DEF RemoveMAC, SetPool, EncodeAndPut
<1>11. ASSUME RemoveDevice PROVE Rests /\ AloneInv'
  BY <1>11 DEF RemoveDevice, Return
<1>12. ASSUME BeginStop PROVE Rests /\ AloneInv'
  BY <1>12 DEF BeginStop, Idle
<1>13. ASSUME Exit PROVE Rests /\ AloneInv'
  BY <1>13 DEF Exit, Halt, Return, NoRecords
<1>14. ASSUME Crash PROVE Rests /\ AloneInv'
  BY <1>14 DEF Crash, Halt, Return, NoRecords
<1>15. ASSUME PopMACFails PROVE Rests /\ AloneInv'
  BY <1>15 DEF PopMACFails, Fault, SetPool, WithoutMAC, Return
<1>16. ASSUME RequestFails PROVE Rests /\ AloneInv'
  BY <1>16 DEF RequestFails, EncodeAndPut, GoTo, Return
<1>17. ASSUME NEW x \in Id, RenewFails(x) PROVE Rests /\ AloneInv'
  BY <1>17 DEF RenewFails, RenewPutFails, Running
<1>18. ASSUME NEW x \in MAC, AdminCheck(x) PROVE Rests /\ AloneInv'
  BY <1>18 DEF AdminCheck
<1>19. ASSUME NEW x \in MAC, AdminRemove(x) PROVE Rests /\ AloneInv'
  BY <1>19 DEF AdminRemove
<1>20. ASSUME AdminWrite PROVE Rests /\ AloneInv'
  BY <1>20 DEF AdminWrite
<1>21. ASSUME UNCHANGED vars PROVE Rests /\ AloneInv'
  BY <1>21 DEF vars
<1> QED
  BY <1>1, <1>2, <1>3, <1>4, <1>5, <1>6, <1>7, <1>8, <1>9, <1>10, <1>11,
     <1>12, <1>13, <1>14, <1>15, <1>16, <1>17, <1>18, <1>19, <1>20, <1>21

\* A bind, a stop and a late lease keep the address.
LEMMA BoundRests ==
  ASSUME RivalInv, NEW ip \in IP, Bound(ip)
  PROVE  Rests /\ AloneInv'
<1> USE DEF RivalInv, HardInv, Rests, AloneInv, Uses, Takes, Recovers, Moving, Binding,
            store, process, api
<1>0. client \in [Id -> RecordClient \cup {Absent}] /\ cur \in Id /\ pc = "bind"
  BY DEF Bound, ClientInv, TypeInv, RecordsOK, ThreadOK
<1>1. CASE AlreadyManaged(ip)
  BY <1>0, <1>1 DEF Bound, GiveUp, StopClient, BindFails, GoTo, Return
<1>2. CASE ~AlreadyManaged(ip)
  <2>1. phase = "watch" => alloc[cur] = Absent \/ alloc[cur].state = "Unbound"
    BY <1>0 DEF StoreInv, StageInv, HandlerInv, UnsetInv, Unset, Waiting, ClientInv, TypeInv,
       ThreadOK
  <2> QED
    BY <1>0, <1>2, <2>1 DEF Bound, Register, Become, WithLease, Unset
<1> QED
  BY <1>1, <1>2

LEMMA StopRests ==
  ASSUME RivalInv, NEW x \in Id, StopAllocation(x)
  PROVE  Rests /\ AloneInv'
<1> USE DEF RivalInv, HardInv
<1>1. /\ pc = "ready" /\ todo[x] # Absent
      /\ pc' = "stop.put" /\ cur' = x /\ rec'.mac = todo[x].mac
      /\ todo' = [todo EXCEPT ![x] = Absent] /\ todo \in [Id -> Record \cup {Absent}]
      /\ UNCHANGED <<alloc, pool, events, adminMac>> /\ phase' = "stop"
  BY DEF StopAllocation, Idle, store, api, ClientInv, TypeInv, RecordsOK, Record, Allocation
<1>2. \A id \in Id : client'[id] \in {client[id], Absent}
  BY StopShrinks DEF StopAllocation, ClientInv
<1>3. Rests
  BY <1>1 DEF Rests, Uses, Takes, Recovers, Moving
<1> QED
  BY <1>1, <1>2, <1>3 DEF AloneInv, Binding

LEMMA RenewRests ==
  ASSUME NoRivals, RivalInv, NEW x \in Id, NEW ip \in IP, Renew(x, ip)
  PROVE  Rests /\ AloneInv'
<1> USE DEF RivalInv, HardInv
<1>1. /\ cur = x /\ pc \in {"bind", "bindstop"}
      /\ UNCHANGED <<alloc, pool, events, pc, cur, rec, hand, todo, phase, adminMac>>
      /\ \A id \in Id \ {x} : client'[id] = client[id]
  BY DEF Renew, NoRivals, Binding, OnRenew, store, thread, process, api, ClientInv, TypeInv,
         RecordsOK
<1>2. Rests
  BY <1>1 DEF Rests, Uses, Takes, Recovers
<1> QED
  BY <1>1, <1>2 DEF AloneInv, Binding, Unset

\* A record is removed: during the watch, its deletion takes its place.
LEMMA RemovingHard ==
  ASSUME RivalInv, NEW x \in Id, RemoveAllocation(x), UNCHANGED <<client, todo, phase, adminMac>>,
         (UNCHANGED <<pc, cur, rec, hand>>) \/ (pc = "remove" /\ pc' = "ready")
  PROVE  HardInv'
<1> USE DEF RivalInv, HardInv
<1>1. AloneInv'
  BY DEF AloneInv, Binding, Unset, RemoveAllocation, ClientInv, TypeInv, RecordsOK
<1>2. /\ alloc' = [alloc EXCEPT ![x] = Absent] /\ alloc \in [Id -> Record \cup {Absent}]
      /\ pool' = pool /\ TypeInv
  BY DEF RemoveAllocation, ClientInv, TypeInv, RecordsOK
<1>3. PICK n : n = Len(events) + 1
  OBVIOUS
<1>4. \A id \in Id, m \in MAC :
        /\ \A i \in 1..Len(events) : Gives(i, id, m)' <=> Gives(i, id, m)
        /\ \A i \in 1..Len(events') : i \in 1..Len(events) \/ i = n
        /\ n \in 1..Len(events') /\ Gives(n, id, m)' =>
             id = x /\ watching /\ alloc[x] # Absent /\ alloc[x].mac = m
  BY <1>2, <1>3, RemoveGives
<1>5. \A id \in Id, m \in MAC :
        /\ Takes(id, m)' <=> Takes(id, m)
        /\ Recovers(id, m)' <=> Recovers(id, m)
        /\ Uses(id, m)' => Uses(id, m)
        /\ Uses(x, m)' => (todo[x] # Absent /\ todo[x].mac = m) \/ Takes(x, m)
  BY <1>2 DEF Takes, Recovers, Uses
<1>6. InvolvedInv'
  BY <1>4, <1>5 DEF InvolvedInv, Involved, Uses
<1>7. UsedInv'
  BY <1>2, <1>5 DEF UsedInv, Moving
<1>8. CheckInv'
  <2>1. pc' \in {"putmac.check", "recover.check"} => hand \in MAC /\ hand' = hand /\ pc' = pc
    BY DEF ClientInv, TypeInv, ThreadOK
  <2> QED
    BY <1>5, <2>1 DEF CheckInv
<1>9. GivenInv'
  <2>1. ASSUME NEW m \in MAC, watching, alloc[x] # Absent, alloc[x].mac = m
        PROVE  /\ m \notin pool /\ ~(\E i \in 1..Len(events) : Gives(i, x, m))
               /\ ~Takes(x, m) /\ todo[x] = Absent /\ ~Recovers(x, m)
               /\ ~(pc \in {"popmac.delete", "putmac.check", "putmac.write"} /\ hand = m)
    <3>1. phase = "watch" /\ Uses(x, m)
      BY <2>1 DEF ClientInv, PhaseInv, Uses
    <3>2. todo[x] = Absent
      BY <3>1 DEF StoreInv, StageInv, NoRecords
    <3>3. ~Unset(x)
      BY <2>1, <3>1, NullsAreNotValues DEF Unset, StoreInv, CompleteInv, Complete
    <3>4. ~Takes(x, m)
      BY <3>1, <3>3
      DEF Takes, AloneInv, StoreInv, StageInv, HandlerInv, UnsetInv, Starting, Waiting,
          ClientInv, TypeInv, ThreadOK
    <3> QED
      BY <3>1, <3>2, <3>4 DEF UsedInv, GivenInv, CheckInv, Moving, Recovers
  <2> QED
    BY <1>2, <1>3, <1>4, <1>5, <2>1 DEF GivenInv
<1> QED
  BY <1>1, <1>6, <1>7, <1>8, <1>9

LEMMA RemovingActionsHard ==
  ASSUME RivalInv
  PROVE  /\ RemoveUnbound => HardInv'
         /\ \A id \in Id : ReturnIP(id) => HardInv'
         /\ \A id \in Id : Expire(id) => HardInv'
<1> USE DEF RivalInv, dhcp, thread, process, api
<1>1. ASSUME RemoveUnbound PROVE HardInv'
  <2>1. cur \in Id
    BY <1>1 DEF RemoveUnbound, ClientInv, TypeInv, ThreadOK
  <2> QED
    BY <1>1, <2>1, RemovingHard DEF RemoveUnbound, Return
<1>2. ASSUME NEW x \in Id, ReturnIP(x) PROVE HardInv'
  BY <1>2, RemovingHard DEF ReturnIP
<1>3. ASSUME NEW x \in Id, Expire(x) PROVE HardInv'
  BY <1>3, RemovingHard DEF Expire
<1> QED
  BY <1>1, <1>2, <1>3

\* A record is put: its address is one that the allocation has already.
LEMMA PuttingHard ==
  ASSUME RivalInv, NEW x \in Id, NEW a \in Record, PutAllocation(x, a),
         a.mac \in MAC => Uses(x, a.mac),
         UNCHANGED <<todo, phase>>,
         (UNCHANGED <<pc, cur, rec, hand>>) \/ pc' = "ready"
  PROVE  InvolvedInv' /\ UsedInv' /\ GivenInv' /\ CheckInv'
<1> USE DEF RivalInv, HardInv
<1>1. /\ alloc' = [alloc EXCEPT ![x] = a] /\ pool' = pool
      /\ alloc \in [Id -> Record \cup {Absent}] /\ TypeInv
  BY DEF PutAllocation, ClientInv, TypeInv, RecordsOK
<1>2. \A id \in Id, m \in MAC, i \in 1..Len(events') :
        Gives(i, id, m)' => i \in 1..Len(events) /\ Gives(i, id, m)
  BY <1>1, PutGives
<1>3. \A id \in Id, m \in MAC :
        (Uses(id, m)' => Uses(id, m)) /\ (Recovers(id, m)' => Recovers(id, m))
  BY <1>1 DEF Uses, Takes, Recovers
<1>4. InvolvedInv'
  BY <1>2, <1>3 DEF InvolvedInv, Involved
<1>5. UsedInv'
  BY <1>1, <1>3 DEF UsedInv, Moving
<1>6. GivenInv'
  BY <1>1, <1>2, <1>3 DEF GivenInv
<1>7. CheckInv'
  <2>1. pc' \in {"putmac.check", "recover.check"} => hand \in MAC /\ hand' = hand /\ pc' = pc
    BY DEF ClientInv, TypeInv, ThreadOK
  <2> QED
    BY <1>3, <2>1 DEF CheckInv
<1> QED
  BY <1>4, <1>5, <1>6, <1>7

LEMMA PutBoundHard == ASSUME RivalInv, PutBound PROVE HardInv'
<1> USE DEF RivalInv, HardInv
<1>1. /\ pc = "put" /\ pc' = "ready" /\ PutAllocation(cur, rec)
      /\ UNCHANGED <<client, todo, phase, adminMac>>
  BY DEF PutBound, Return, dhcp, process, api
<1>2. cur \in Id /\ rec \in Record
  BY <1>1 DEF ClientInv, TypeInv, ThreadOK
<1>3. rec.mac = hand
  BY <1>1 DEF AloneInv, StoreInv, HandlerInv
<1>4. rec.mac \in MAC => Uses(cur, rec.mac)
  BY <1>1, <1>3 DEF Uses, Takes
<1>5. AloneInv'
  BY <1>1 DEF AloneInv, Binding
<1> QED
  BY <1>1, <1>2, <1>4, <1>5, PuttingHard

LEMMA PutStoppedHard == ASSUME RivalInv, PutStopped PROVE HardInv'
<1> USE DEF RivalInv, HardInv
<1>1. /\ pc = "stop.put" /\ pc' = "ready" /\ PutAllocation(cur, rec)
      /\ UNCHANGED <<client, todo, phase, adminMac>>
  BY DEF PutStopped, Return, dhcp, process, api
<1>2. cur \in Id /\ rec \in Record
  BY <1>1 DEF ClientInv, TypeInv, ThreadOK
<1>3. rec.mac \in MAC => Uses(cur, rec.mac)
  BY <1>1 DEF Uses, Takes
<1>4. AloneInv'
  BY <1>1 DEF AloneInv, Binding
<1> QED
  BY <1>1, <1>2, <1>3, <1>4, PuttingHard

LEMMA ObtainIPHard == ASSUME RivalInv, NEW x \in Id, ObtainIP(x) PROVE HardInv'
<1> USE DEF RivalInv, HardInv
<1>1. /\ x \notin issued /\ PutAllocation(x, NewAllocation)
      /\ UNCHANGED <<client, todo, phase, adminMac, pc, cur, rec, hand>>
  BY DEF ObtainIP, dhcp, thread, process
<1>2. NewAllocation \in Record /\ NewAllocation.mac \notin MAC
  BY NullsAreNotValues DEF NewAllocation, Record, Allocation, AllocationState
<1>3. cur # x
  BY <1>1 DEF ClientInv, FreshInv
<1>4. AloneInv'
  <2>1. alloc'[cur] = alloc[cur]
    BY <1>1, <1>3 DEF PutAllocation, ClientInv, TypeInv, RecordsOK
  <2> QED
    BY <1>1, <2>1 DEF AloneInv, Binding, Unset
<1> QED
  BY <1>1, <1>2, <1>4, PuttingHard

\* The only callback is one in the bind.
LEMMA WriteRenewalHard == ASSUME RivalInv, NEW x \in Id, WriteRenewal(x) PROVE HardInv'
<1> USE DEF RivalInv, HardInv
<1> DEFINE a == client[x].cb
<1>1. /\ RenewPut(x) /\ PutAllocation(x, a)
      /\ client' = [client EXCEPT ![x].cb = Absent]
      /\ UNCHANGED <<pc, cur, rec, hand, todo, phase, adminMac>>
  BY DEF WriteRenewal, RenewPut, thread, process, api
<1>2. /\ a \in Record /\ a = client[x].al /\ Complete(a) /\ client[x] # Absent
      /\ client[x].cb # Absent
  BY <1>1, CallbackRecord DEF RenewPut
<1>3. cur = x /\ pc \in {"bind", "bindstop"}
  BY <1>2 DEF AloneInv, Binding
<1>4. a.mac \in MAC => Uses(x, a.mac)
  BY <1>2, <1>3, NullsAreNotValues
  DEF Uses, Takes, StoreInv, HandlerInv, CompleteInv, Complete, Waiting
<1>5. AloneInv'
  BY <1>1, <1>2, <1>3
  DEF AloneInv, Binding, ClientInv, TypeInv, RecordsOK, RecordClient
<1> HIDE DEF a
<1> QED
  BY <1>1, <1>2, <1>4, <1>5, PuttingHard

-----------------------------------------------------------------------------
(* The steps that move an address.                                           *)

LEMMA RegisterMACHard == ASSUME RivalInv, NEW x \in MAC, RegisterMAC(x) PROVE HardInv'
<1> USE DEF RivalInv, HardInv
<1>1. /\ phase = "register" /\ pc = "ready" /\ pc' = "putmac.check" /\ hand' = x
      /\ UNCHANGED <<alloc, pool, events, client, todo, phase, adminMac>>
  BY DEF RegisterMAC, Idle, store, dhcp, api
<1>2. todo = NoRecords /\ events = << >> /\ Len(events) = 0
  BY <1>1 DEF StoreInv, StageInv, ClientInv, PhaseInv
<1>3. \A id \in Id, m \in MAC : /\ Uses(id, m)' => Uses(id, m)
                                /\ ~Recovers(id, m)'
  BY <1>1 DEF Uses, Takes, Recovers
<1>4. \A i \in 1..Len(events') : FALSE
  BY <1>1, <1>2
<1>5. InvolvedInv'
  BY <1>3, <1>4 DEF InvolvedInv, Involved
<1>6. UsedInv' /\ GivenInv'
  BY <1>1, <1>3, <1>4 DEF UsedInv, GivenInv, Moving
<1>7. CheckInv'
  BY <1>1, <1>2 DEF CheckInv, NoRecords
<1>8. AloneInv'
  BY <1>1 DEF AloneInv, Binding
<1> QED
  BY <1>5, <1>6, <1>7, <1>8

LEMMA PopMACGetHard == ASSUME RivalInv, PopMACGet PROVE HardInv'
<1> USE DEF RivalInv, HardInv
<1>1. /\ pc = "popmac.get" /\ pc' = "popmac.delete" /\ hand' \in pool /\ cur' = cur
      /\ UNCHANGED <<alloc, pool, events, client, todo, phase, adminMac>>
  BY DEF PopMACGet, store, dhcp, process, api
<1>2. \A id \in Id, m \in MAC : /\ Uses(id, m)' => Uses(id, m)
                                /\ ~Recovers(id, m)'
                                /\ \A i \in 1..Len(events) : Gives(i, id, m)' <=> Gives(i, id, m)
  BY <1>1 DEF Uses, Takes, Recovers, Gives
<1>3. InvolvedInv'
  BY <1>1, <1>2 DEF InvolvedInv, Involved
<1>4. UsedInv'
  BY <1>1, <1>2 DEF UsedInv
<1>5. GivenInv'
  BY <1>1, <1>2 DEF GivenInv
<1>6. CheckInv' /\ AloneInv'
  BY <1>1 DEF CheckInv, AloneInv, Binding
<1> QED
  BY <1>3, <1>4, <1>5, <1>6

LEMMA PopMACDeleteHard == ASSUME RivalInv, PopMACDelete PROVE HardInv'
<1> USE DEF RivalInv, HardInv
<1>1. /\ pc = "popmac.delete" /\ pc' = "device" /\ hand' = hand /\ cur' = cur
      /\ pool' = pool \ {hand} /\ hand \in MAC
      /\ UNCHANGED <<alloc, events, client, todo, phase, adminMac>>
  BY DEF PopMACDelete, SetPool, GoTo, dhcp, process, api, ClientInv, TypeInv, ThreadOK
<1>2. \A id \in Id, m \in MAC : /\ Uses(id, m)' => Uses(id, m) \/ (id = cur /\ m = hand)
                                /\ ~Recovers(id, m) /\ ~Recovers(id, m)'
                                /\ \A i \in 1..Len(events) : Gives(i, id, m)' <=> Gives(i, id, m)
  BY <1>1 DEF Uses, Takes, Recovers, Gives
<1>3. \A id \in Id : ~Uses(id, hand) /\ \A i \in 1..Len(events) : ~Gives(i, id, hand)
  BY <1>1 DEF UsedInv, GivenInv, Moving
<1>4. InvolvedInv'
  BY <1>1, <1>2, <1>3 DEF InvolvedInv, Involved
<1>5. UsedInv'
  BY <1>1, <1>2 DEF UsedInv, Moving
<1>6. GivenInv'
  BY <1>1, <1>2, <1>3 DEF GivenInv
<1>7. CheckInv' /\ AloneInv'
  BY <1>1 DEF CheckInv, AloneInv, Binding
<1> QED
  BY <1>4, <1>5, <1>6, <1>7

\* The device has the address in hand, a fresh one, or that of the parent interface.
LEMMA DeviceReadyHard ==
  ASSUME RivalInv, NEW d \in MAC \cup {HostMAC}, DeviceReady(d) PROVE HardInv'
<1> USE DEF RivalInv, HardInv
<1>1. /\ pc = "device" /\ pc' = "bind" /\ hand' = d /\ cur' = cur /\ cur \in Id
      /\ client' = [client EXCEPT ![cur] =
                      [al |-> rec, ip |-> NoIP, mac |-> d, cb |-> Absent]]
      /\ client \in [Id -> RecordClient \cup {Absent}]
      /\ UNCHANGED <<alloc, pool, events, todo, phase, adminMac>>
  BY DEF DeviceReady, StartClient, store, process, api, ClientInv, TypeInv, RecordsOK, ThreadOK
<1>2. \A id \in Id, m \in MAC : /\ Uses(id, m)' => Uses(id, m) \/ (id = cur /\ m = d)
                                /\ ~Recovers(id, m) /\ ~Recovers(id, m)'
                                /\ \A i \in 1..Len(events) : Gives(i, id, m)' <=> Gives(i, id, m)
  BY <1>1 DEF Uses, Takes, Recovers, Gives
<1>3. \/ d = hand \/ d \notin MAC
      \/ /\ d \notin pool
         /\ \A id \in Id : ~Uses(id, d) /\ \A i \in 1..Len(events) : ~Gives(i, id, d)
  <2>1. CASE ManageInterfaces /\ hand = NoMAC
    <3>1. Random(d)
      BY <2>1 DEF DeviceReady
    <3>2. /\ d \in MAC \ pool /\ d # hand
          /\ \A id \in Id : /\ alloc[id] # Absent => alloc[id].mac # d
                            /\ todo[id] # Absent => todo[id].mac # d
      BY <2>1, <3>1, NullsAreNotValues DEF Random, MACInUse
    <3>3. \A i \in 1..Len(events) : events[i].val.mac # d
      BY <3>1 DEF Random, ClientInv, TypeInv, RecordsOK
    <3> QED
      BY <1>1, <3>2, <3>3 DEF Uses, Takes, Gives
  <2>2. CASE ~(ManageInterfaces /\ hand = NoMAC)
    BY <2>2, NullsAreNotValues DEF DeviceReady
  <2> QED
    BY <2>1, <2>2
<1>4. d = hand => (\A m \in MAC : m = d => Uses(cur, m))
  BY <1>1 DEF Uses, Takes
<1>5. InvolvedInv'
  BY <1>1, <1>2, <1>3, <1>4 DEF InvolvedInv, Involved
<1>6. UsedInv'
  BY <1>1, <1>2, <1>3, <1>4 DEF UsedInv, Moving
<1>7. GivenInv'
  BY <1>1, <1>2, <1>3, <1>4 DEF GivenInv
<1>8. CheckInv' /\ AloneInv'
  BY <1>1 DEF CheckInv, AloneInv, Binding
<1> QED
  BY <1>5, <1>6, <1>7, <1>8

\* There is no device: an address from the pool is given back.
LEMMA DeviceFailsHard == ASSUME RivalInv, DeviceFails PROVE HardInv'
<1> USE DEF RivalInv, HardInv
<1>1. /\ pc = "device" /\ cur \in Id
      /\ UNCHANGED <<alloc, pool, events, client, todo, phase, adminMac>>
  BY DEF DeviceFails, store, dhcp, process, api, ClientInv, TypeInv, ThreadOK
<1>2. CASE pc' = "ready"
  <2>1. Rests /\ AloneInv'
    BY <1>1, <1>2 DEF Rests, AloneInv, Binding, Uses, Takes, Recovers, Moving
  <2> QED
    BY <2>1, RestsKeep
<1>3. CASE /\ pc' = "putmac.check" /\ hand' = hand /\ cur' = cur
           /\ hand # rec.mac /\ hand # NoMAC
  <2>1. hand \in MAC
    BY <1>1, <1>3 DEF ClientInv, TypeInv, ThreadOK
  <2>2. \A id \in Id, m \in MAC : /\ Uses(id, m)' => Uses(id, m)
                                  /\ ~Recovers(id, m) /\ ~Recovers(id, m)'
                                  /\ \A i \in 1..Len(events) : Gives(i, id, m)' <=> Gives(i, id, m)
    BY <1>1, <1>3 DEF Uses, Takes, Recovers, Gives
  <2>3. Uses(cur, hand)
    BY <1>1 DEF Uses, Takes
  <2>4. \A id \in Id : /\ Uses(id, hand) => id = cur
                       /\ \A i \in 1..Len(events) : ~Gives(i, id, hand)
    BY <1>1, <2>1, <2>3 DEF InvolvedInv, Involved, GivenInv
  <2>5. InvolvedInv'
    BY <1>1, <2>2 DEF InvolvedInv, Involved
  <2>6. UsedInv'
    BY <1>1, <1>3, <2>2 DEF UsedInv, Moving
  <2>7. GivenInv'
    BY <1>1, <1>3, <2>2, <2>4 DEF GivenInv
  <2>8. todo[cur] = Absent
    BY <1>1 DEF ClientInv, TodoInv, TypeInv, ScalarsOK, AloneInv, StoreInv, StageInv,
                NoRecords, Starting
  <2>9. phase = "watch" => alloc[cur] = Absent \/ alloc[cur].mac = NoMAC
    <3>1. phase = "watch" => Unset(cur)
      BY <1>1 DEF StoreInv, StageInv, UnsetInv, Starting
    <3> QED
      BY <1>1, <3>1 DEF Unset, StoreInv, CompleteInv, Complete
  <2>10. CheckInv'
    <3>1. \A id \in Id : todo[id] # Absent => todo[id].mac # hand
      BY <2>4, <2>8 DEF Uses
    <3>2. phase = "watch" => \A id \in Id : ~Uses(id, hand)'
      BY <1>1, <1>3, <2>1, <2>2, <2>4, <2>8, <2>9 DEF Uses, Takes
    <3> QED
      BY <1>1, <1>3, <3>1, <3>2 DEF CheckInv
  <2>11. AloneInv'
    BY <1>1, <1>3 DEF AloneInv, Binding
  <2> QED
    BY <2>5, <2>6, <2>7, <2>10, <2>11
<1> QED
  BY <1>2, <1>3 DEF DeviceFails, GoTo, Return

\* The check and the write of PutMAC: nobody comes in between.
LEMMA PutMACCheckHard == ASSUME RivalInv, PutMACCheck PROVE HardInv'
<1> USE DEF RivalInv, HardInv
<1>1. /\ pc \in {"putmac.check", "recover.check"} /\ hand \in MAC
      /\ UNCHANGED <<alloc, pool, events, client, todo, phase, adminMac>>
  BY DEF PutMACCheck, PutMACSites, store, dhcp, process, api, ClientInv, TypeInv, ThreadOK
<1>2. CASE pc' \in {"ready", "rmdevice"}
  <2>1. Rests /\ AloneInv'
    BY <1>1, <1>2 DEF Rests, AloneInv, Binding, Uses, Takes, Recovers, Moving
  <2> QED
    BY <2>1, RestsKeep
<1>3. CASE /\ hand' = hand /\ cur' = cur /\ ~MACInUse(hand)
           /\ \/ pc = "putmac.check" /\ pc' = "putmac.write"
              \/ pc = "recover.check" /\ pc' = "recover.write"
  <2>1. \A id \in Id, m \in MAC : /\ Uses(id, m)' <=> Uses(id, m)
                                  /\ Recovers(id, m)' <=> Recovers(id, m)
                                  /\ \A i \in 1..Len(events) : Gives(i, id, m)' <=> Gives(i, id, m)
    BY <1>1, <1>3 DEF Uses, Takes, Recovers, Gives
  <2>2. \A id \in Id : ~Uses(id, hand)
    BY <1>1, <1>3 DEF Uses, Takes, MACInUse, CheckInv
  <2>3. InvolvedInv'
    BY <1>1, <2>1 DEF InvolvedInv, Involved
  <2>4. UsedInv'
    BY <1>1, <1>3, <2>1, <2>2 DEF UsedInv
  <2>5. GivenInv'
    BY <1>1, <1>3, <2>1 DEF GivenInv
  <2>6. CheckInv' /\ AloneInv'
    BY <1>1, <1>3 DEF CheckInv, AloneInv, Binding
  <2> QED
    BY <2>3, <2>4, <2>5, <2>6
<1> QED
  BY <1>2, <1>3 DEF PutMACCheck, PutMACSites, PutMACReturns, GoTo, Return

LEMMA PutMACWriteHard == ASSUME RivalInv, PutMACWrite PROVE HardInv'
<1> USE DEF RivalInv, HardInv
<1>1. /\ \/ pc = "putmac.write" /\ pc' = "ready"
         \/ pc = "recover.write" /\ pc' = "rmdevice" /\ cur \in Id
      /\ hand \in MAC /\ pool' = pool \cup {hand}
      /\ UNCHANGED <<alloc, events, client, todo, phase, adminMac>>
  BY DEF PutMACWrite, PutMACSites, PutMACReturns, GoTo, Return, SetPool, dhcp, process, api,
         ClientInv, TypeInv, ThreadOK
<1>2. \A id \in Id, m \in MAC : /\ Uses(id, m)' => Uses(id, m)
                                /\ ~Recovers(id, m)'
                                /\ \A i \in 1..Len(events) : Gives(i, id, m)' <=> Gives(i, id, m)
  BY <1>1 DEF Uses, Takes, Recovers, Gives
<1>3. ASSUME NEW id \in Id, NEW i \in 1..Len(events), Gives(i, id, hand) PROVE FALSE
  <2>1. pc = "recover.write" /\ Recovers(cur, hand) /\ cur \in Id
    BY <1>1, <1>3 DEF GivenInv, Recovers
  <2>2. id = cur
    BY <1>1, <1>3, <2>1 DEF InvolvedInv, Involved
  <2> QED
    BY <1>1, <1>3, <2>1, <2>2 DEF GivenInv
<1>4. InvolvedInv'
  BY <1>1, <1>2 DEF InvolvedInv, Involved
<1>5. UsedInv'
  BY <1>1, <1>2 DEF UsedInv, Moving
<1>6. GivenInv'
  BY <1>1, <1>2, <1>3 DEF GivenInv
<1>7. CheckInv' /\ AloneInv'
  BY <1>1 DEF CheckInv, AloneInv, Binding
<1> QED
  BY <1>4, <1>5, <1>6, <1>7

\* A deletion begins: what the allocation used, or the event said, is recovered.
LEMMA ConvergeDeleteHard == ASSUME RivalInv, NEW x \in Id, ConvergeDelete(x) PROVE HardInv'
<1> USE DEF RivalInv, HardInv
<1>1. /\ phase = "converge" /\ pc = "ready" /\ todo[x] # Absent
      /\ todo' = [todo EXCEPT ![x] = Absent] /\ todo \in [Id -> Record \cup {Absent}]
      /\ UNCHANGED <<alloc, pool, events, phase, adminMac>>
      /\ \/ pc' = "ready"
         \/ pc' = "recover.check" /\ cur' = x /\ hand' = todo[x].mac
  BY DEF ConvergeDelete, ConvergeOn, deleteAllocation, Recover, Return, Idle, store, api,
         ClientInv, TypeInv, RecordsOK
<1>2. \A id \in Id : client'[id] \in {client[id], Absent}
  BY StopShrinks DEF ConvergeDelete, deleteAllocation, ClientInv
<1>3. events = << >> /\ \A i \in 1..Len(events') : FALSE
  BY <1>1 DEF ClientInv, PhaseInv
<1>4. \A id \in Id, m \in MAC : /\ Uses(id, m)' => Uses(id, m)
                                /\ Recovers(id, m)' => Uses(id, m)
  BY <1>1 DEF Uses, Takes, Recovers
<1>5. InvolvedInv'
  BY <1>3, <1>4 DEF InvolvedInv, Involved
<1>6. UsedInv' /\ GivenInv'
  BY <1>1, <1>3, <1>4 DEF UsedInv, GivenInv, Moving
<1>7. CheckInv'
  <2>1. ASSUME pc' = "recover.check", NEW id \in Id, todo'[id] # Absent, todo'[id].mac = hand'
        PROVE  FALSE
    <3>1. hand' \in MAC
      BY <1>1, <2>1
      DEF ConvergeDelete, deleteAllocation, Recover, Return, ClientInv, TypeInv, RecordsOK, Record,
          Allocation
    <3>2. id # x /\ Uses(id, hand') /\ Uses(x, hand')
      BY <1>1, <2>1 DEF Uses
    <3> QED
      BY <3>1, <3>2 DEF InvolvedInv, Involved
  <2> QED
    BY <1>1, <2>1 DEF CheckInv
<1>8. AloneInv'
  BY <1>1, <1>2 DEF AloneInv, Binding
<1> QED
  BY <1>5, <1>6, <1>7, <1>8

LEMMA OnCreateHard == ASSUME RivalInv, OnCreate PROVE HardInv'
<1> USE DEF RivalInv, HardInv
<1>1. /\ phase = "watch" /\ pc = "ready" /\ events # << >> /\ events' = Tail(events)
      /\ pc' \notin Moving \cup {"putmac.check", "recover.check", "removemac", "put"}
      /\ pc' = "device" => hand' = NoMAC
      /\ pc' \in {"ready", "popmac.get", "device"}
      /\ UNCHANGED <<alloc, pool, client, todo, phase, adminMac>>
  BY DEF OnCreate, NextEvent, BeginUnbound, Idle, Moving, dhcp, thread, process, api
<1>2. \A id \in Id, m \in MAC : /\ Uses(id, m)' => Uses(id, m)
                                /\ ~Recovers(id, m)'
  BY <1>1, NullsAreNotValues DEF Uses, Takes, Recovers
<1>3. /\ \A i, j \in 1..Len(events') : i + 1 = j + 1 => i = j
      /\ \A id \in Id, m \in MAC, i \in 1..Len(events') :
           Gives(i, id, m)' => i + 1 \in 1..Len(events) /\ Gives(i + 1, id, m)
  BY <1>1, NextGives DEF ClientInv
<1>4. InvolvedInv'
  BY <1>2, <1>3 DEF InvolvedInv, Involved
<1>5. UsedInv' /\ CheckInv'
  BY <1>1, <1>2 DEF UsedInv, CheckInv
<1>6. GivenInv'
  BY <1>1, <1>2, <1>3 DEF GivenInv, Moving
<1>7. AloneInv'
  BY <1>1 DEF AloneInv, Binding
<1> QED
  BY <1>4, <1>5, <1>6, <1>7

LEMMA OnDeleteHard == ASSUME RivalInv, OnDelete PROVE HardInv'
<1> USE DEF RivalInv, HardInv
<1>1. PICK x \in Id, a \in Record : x = Head(events).id /\ a = Head(events).val
  BY FirstEvent DEF OnDelete, NextEvent, ClientInv, TypeInv
<1>2. /\ phase = "watch" /\ pc = "ready" /\ events # << >> /\ events' = Tail(events)
      /\ UNCHANGED <<alloc, pool, todo, phase, adminMac>>
      /\ \/ pc' = "ready"
         \/ /\ pc' = "recover.check" /\ cur' = x /\ hand' = a.mac /\ hand' \in MAC
  BY <1>1
  DEF OnDelete, NextEvent, deleteAllocation, Recover, Return, Idle, process, api, Record,
      Allocation
<1>3. \A id \in Id : client'[id] \in {client[id], Absent}
  BY StopShrinks DEF OnDelete, deleteAllocation, ClientInv
<1>4. /\ 1 \in 1..Len(events) /\ events[1] = Head(events)
      /\ \A i \in 1..Len(events') : i + 1 # 1
      /\ \A i, j \in 1..Len(events') : i + 1 = j + 1 => i = j
      /\ \A id \in Id, m \in MAC, i \in 1..Len(events') :
           Gives(i, id, m)' => i + 1 \in 1..Len(events) /\ Gives(i + 1, id, m)
  BY <1>2, NextGives DEF ClientInv
<1>5. \A m \in MAC : m = a.mac => Gives(1, x, m)
  BY <1>1, <1>4 DEF Gives, OnDelete, NextEvent
<1>6. \A id \in Id, m \in MAC :
        /\ Uses(id, m)' => Uses(id, m)
        /\ Recovers(id, m)' => id = x /\ m = a.mac /\ Gives(1, x, m)
  BY <1>2, <1>5 DEF Uses, Takes, Recovers
<1>7. InvolvedInv'
  BY <1>4, <1>6 DEF InvolvedInv, Involved
<1>8. UsedInv'
  BY <1>2, <1>6 DEF UsedInv, Moving
<1>9. GivenInv'
  BY <1>2, <1>4, <1>6 DEF GivenInv
<1>10. CheckInv'
  <2>1. todo = NoRecords
    BY <1>2 DEF StoreInv, StageInv
  <2>2. ASSUME pc' = "recover.check", NEW id \in Id, Uses(id, hand)' PROVE FALSE
    <3>1. hand' \in MAC /\ hand' = a.mac
      BY <1>2, <2>2
    <3>2. PICK m \in MAC : m = hand'
      BY <3>1
    <3>3. Uses(id, m) /\ Gives(1, x, m)
      BY <1>5, <1>6, <2>2, <3>1, <3>2
    <3> QED
      BY <1>4, <3>3 DEF InvolvedInv, Involved, GivenInv
  <2> QED
    BY <1>2, <2>1, <2>2 DEF CheckInv, NoRecords
<1>11. AloneInv'
  BY <1>2, <1>3 DEF AloneInv, Binding
<1> QED
  BY <1>7, <1>8, <1>9, <1>10, <1>11

-----------------------------------------------------------------------------

LEMMA HardInvStarts == ASSUME Init PROVE HardInv
<1>1. /\ \A id \in Id, m \in MAC : ~Uses(id, m) /\ ~Recovers(id, m)
      /\ events = << >> /\ \A i \in 1..Len(events) : FALSE
  BY DEF Init, StoreInit, NoRecords, Uses, Takes, Recovers
<1>2. AloneInv
  BY DEF Init, DHCPInit, AloneInv
<1> QED
  BY <1>1, <1>2
  DEF Init, HardInv, InvolvedInv, Involved, UsedInv, GivenInv, CheckInv

LEMMA HardInvIsInductive ==
  ASSUME NoRivals, RivalInv, [Next]_vars PROVE HardInv'
<1>1. Rests /\ AloneInv' => HardInv'
  BY RestsKeep DEF HardInv
<1>2. CASE Startup
  BY <1>1, <1>2, RestingActions, RegisterMACHard, ConvergeDeleteHard DEF Startup
<1>3. CASE Handler
  BY <1>1, <1>3, RestingActions, BoundRests, OnCreateHard, OnDeleteHard, PopMACGetHard,
     PopMACDeleteHard, DeviceReadyHard, PutBoundHard, RemovingActionsHard, PutMACCheckHard,
     PutMACWriteHard
  DEF Handler
<1>4. CASE Shutdown
  BY <1>1, <1>4, RestingActions, StopRests, PutStoppedHard DEF Shutdown
<1>5. CASE Clients
  BY <1>1, <1>5, RenewRests, WriteRenewalHard DEF Clients
<1>6. CASE Failures
  BY <1>1, <1>6, RestingActions, DeviceFailsHard DEF Failures
<1>7. CASE Environment
  BY <1>1, <1>7, RestingActions, ObtainIPHard, RemovingActionsHard DEF Environment
<1>8. CASE UNCHANGED vars
  BY <1>1, <1>8, RestingActions
<1> QED
  BY <1>2, <1>3, <1>4, <1>5, <1>6, <1>7, <1>8 DEF Next

\* While no lease is renewed and nobody but the controller touches the pool, the hardware
\* address of a stored allocation is not in the pool and with no second allocation, across
\* any number of stops, crashes, failing requests and late leases: no address is given back
\* twice, or given back while something may still be stored with it (model.go:535-554,
\* 574-588; controller.go:141-146, 229-236).
THEOREM HardwareAddressesAreExclusive == NoRivals => (Spec => []MACIsExclusive)
<1> SUFFICES ASSUME NoRivals PROVE Spec => []MACIsExclusive
  OBVIOUS
<1>1. Init => HardInv
  BY HardInvStarts
<1>2. (ClientInv /\ StoreInv) /\ HardInv /\ [Next]_vars => HardInv'
  BY HardInvIsInductive DEF RivalInv
<1>3. HardInv => MACIsExclusive
  BY DEF HardInv, InvolvedInv, Involved, UsedInv, Uses, MACIsExclusive, HoldsMAC
<1> QED
  BY <1>1, <1>2, <1>3, StoreInvHolds, PTL DEF Spec, NoRivals

-----------------------------------------------------------------------------
(* The same environment with managed interfaces: the addresses that are      *)
(* leased.  A second process may lease what a record of the first one names  *)
(* only to the same hardware address.                                        *)

\* A late lease of id is about to be stored with ip.
Renewing(id, ip) == client[id] # Absent /\ client[id].cb # Absent /\ client[id].cb.ip = ip

\* id is stored with ip, or may be without a new lease.
Bears(id, ip) ==
  \/ Has(id, ip) \/ Writes(id, ip) \/ Renewing(id, ip)
  \/ phase = "stop" /\ Walks(id, ip)

BearerInv ==
  /\ \A id, other \in Id, ip \in IP : Bears(id, ip) /\ Bears(other, ip) => id = other
  /\ pc = "removemac" => client[cur].al = rec

\* Nobody becomes a bearer.
Sheds ==
  /\ \A id \in Id, ip \in IP : Bears(id, ip)' => Bears(id, ip)
  /\ pc' = "removemac" => client'[cur'].al = rec'

LEMMA ShedsKeeps == ASSUME BearerInv, Sheds PROVE BearerInv'
BY DEF BearerInv, Sheds

\* What touches neither the records nor what may be written there.
LEMMA QuietSheds ==
  ASSUME RivalInv, BearerInv,
         \A id \in Id : alloc'[id] \in {alloc[id], Absent},
         \A id \in Id : \/ client'[id] = Absent
                        \/ client'[id] = client[id]
                        \/ client'[id].cb = Absent,
         \/ pc' \in {"removemac", "put", "stop.put"} =>
              /\ UNCHANGED <<pc, cur, rec>> /\ client'[cur] = client[cur],
         phase' = "stop" => phase = "stop" /\ \A id \in Id : todo'[id] \in {todo[id], Absent}
  PROVE  Sheds
BY DEF Sheds, Bears, Has, Writes, Renewing, Walks, BearerInv

\* The steps of the thread that write no record and start no client.
LEMMA QuietSteps ==
  ASSUME NoRivals, RivalInv, BearerInv
  PROVE  /\ Boot => Sheds
         /\ StartWatch => Sheds
         /\ Converge => Sheds
         /\ \A m \in MAC : RegisterMAC(m) => Sheds
         /\ \A id \in Id : ConvergeUnbound(id) => Sheds
         /\ \A id \in Id : ConvergeStopped(id) => Sheds
         /\ \A id \in Id : ConvergeDelete(id) => Sheds
         /\ \A id \in Id : ConvergeBound(id) => Sheds
         /\ OnCreate => Sheds
         /\ OnDelete => Sheds
         /\ PopMACGet => Sheds
         /\ PopMACDelete => Sheds
         /\ PopMACEmpty => Sheds
         /\ BindTimeout => Sheds
         /\ BindStop => Sheds
         /\ RemoveUnbound => Sheds
         /\ PutMACCheck => Sheds
         /\ PutMACWrite => Sheds
         /\ RemoveDevice => Sheds
<1>0. /\ client \in [Id -> RecordClient \cup {Absent}]
      /\ clients \in [IP -> Id \cup {Absent}]
      /\ alloc \in [Id -> Record \cup {Absent}]
      /\ todo \in [Id -> Record \cup {Absent}]
      /\ pc \notin {"ready", "putmac.check", "putmac.write"} => cur \in Id
      /\ phase = "stop" => pc \in {"ready", "stop.put"}
  BY DEF RivalInv, ClientInv, StoreInv, StageInv, TypeInv, RecordsOK, ScalarsOK, ThreadOK
<1> USE <1>0 DEF store, dhcp, thread, process, api
<1>1. ASSUME Boot PROVE Sheds
  BY <1>1, QuietSheds DEF Boot, RivalInv, HardInv, AloneInv
<1>2. ASSUME StartWatch PROVE Sheds
  BY <1>2, QuietSheds DEF StartWatch, Idle
<1>3. ASSUME Converge PROVE Sheds
  BY <1>3, QuietSheds DEF Converge, Idle
<1>4. ASSUME NEW x \in MAC, RegisterMAC(x) PROVE Sheds
  BY <1>4, QuietSheds DEF RegisterMAC, Idle
<1>5. ASSUME NEW x \in Id, ConvergeUnbound(x) PROVE Sheds
  BY <1>5, QuietSheds DEF ConvergeUnbound, ConvergeOn, BeginUnbound, Idle
<1>6. ASSUME NEW x \in Id, ConvergeStopped(x) PROVE Sheds
  BY <1>6, QuietSheds DEF ConvergeStopped, ConvergeOn, BeginStopped, Idle
<1>7. ASSUME NEW x \in Id, ConvergeDelete(x) PROVE Sheds
  <2>1. \A id \in Id : client'[id] \in {client[id], Absent}
    BY <1>7, StopShrinks DEF ConvergeDelete, deleteAllocation, RivalInv, ClientInv
  <2> QED
    BY <1>7, <2>1, QuietSheds DEF ConvergeDelete, ConvergeOn, deleteAllocation, Recover, Return, Idle
<1>8. ASSUME NEW x \in Id, ConvergeBound(x) PROVE Sheds
  BY <1>8, QuietSheds DEF ConvergeBound, ConvergeOn, Idle
<1>9. ASSUME OnCreate PROVE Sheds
  BY <1>9, QuietSheds DEF OnCreate, NextEvent, BeginUnbound, Idle
<1>10. ASSUME OnDelete PROVE Sheds
  <2>1. \A id \in Id : client'[id] \in {client[id], Absent}
    BY <1>10, StopShrinks DEF OnDelete, deleteAllocation, RivalInv, ClientInv
  <2> QED
    BY <1>10, <2>1, QuietSheds DEF OnDelete, NextEvent, deleteAllocation, Recover, Return, Idle
<1>11. ASSUME PopMACGet PROVE Sheds
  BY <1>11, QuietSheds DEF PopMACGet
<1>12. ASSUME PopMACDelete PROVE Sheds
  BY <1>12, QuietSheds DEF PopMACDelete, SetPool, GoTo
<1>13. ASSUME PopMACEmpty PROVE Sheds
  BY <1>13, QuietSheds DEF PopMACEmpty, WithoutMAC, Return
<1>14. ASSUME BindTimeout PROVE Sheds
  BY <1>14, QuietSheds DEF BindTimeout, GoTo
<1>15. ASSUME BindStop PROVE Sheds
  BY <1>15, QuietSheds DEF BindStop, GiveUp, StopClient, BindFails, GoTo, Return
<1>16. ASSUME RemoveUnbound PROVE Sheds
  BY <1>16, QuietSheds DEF RemoveUnbound, RemoveAllocation, Return
<1>17. ASSUME PutMACCheck PROVE Sheds
  BY <1>17, QuietSheds DEF PutMACCheck, PutMACSites, PutMACReturns, GoTo, Return
<1>18. ASSUME PutMACWrite PROVE Sheds
  BY <1>18, QuietSheds DEF PutMACWrite, PutMACSites, PutMACReturns, SetPool, GoTo, Return
<1>19. ASSUME RemoveDevice PROVE Sheds
  BY <1>19, QuietSheds DEF RemoveDevice, Return
<1> QED
  BY <1>1, <1>2, <1>3, <1>4, <1>5, <1>6, <1>7, <1>8, <1>9, <1>10, <1>11, <1>12, <1>13,
     <1>14, <1>15, <1>16, <1>17, <1>18, <1>19

\* The same of what ends a process, fails, or is done by somebody else.
LEMMA QuietEnds ==
  ASSUME NoRivals, RivalInv, BearerInv
  PROVE  /\ Exit => Sheds
         /\ Crash => Sheds
         /\ PopMACFails => Sheds
         /\ DeviceFails => Sheds
         /\ \A id \in Id : RenewFails(id) => Sheds
         /\ \A id \in Id : ReturnIP(id) => Sheds
         /\ \A id \in Id : Expire(id) => Sheds
         /\ \A m \in MAC : AdminCheck(m) => Sheds
         /\ \A m \in MAC : AdminRemove(m) => Sheds
         /\ AdminWrite => Sheds
         /\ (UNCHANGED vars) => Sheds
<1>0. /\ client \in [Id -> RecordClient \cup {Absent}]
      /\ clients \in [IP -> Id \cup {Absent}]
      /\ alloc \in [Id -> Record \cup {Absent}]
      /\ todo \in [Id -> Record \cup {Absent}]
      /\ pc \notin {"ready", "putmac.check", "putmac.write"} => cur \in Id
      /\ phase = "stop" => pc \in {"ready", "stop.put"}
  BY DEF RivalInv, ClientInv, StoreInv, StageInv, TypeInv, RecordsOK, ScalarsOK, ThreadOK
<1> USE <1>0 DEF store, dhcp, thread, process, api
<1>1. ASSUME Exit PROVE Sheds
  BY <1>1, QuietSheds DEF Exit, Halt, Return
<1>2. ASSUME Crash PROVE Sheds
  BY <1>2, QuietSheds DEF Crash, Halt, Return
<1>3. ASSUME PopMACFails PROVE Sheds
  BY <1>3, QuietSheds DEF PopMACFails, SetPool, WithoutMAC, Return
<1>4. ASSUME DeviceFails PROVE Sheds
  BY <1>4, QuietSheds DEF DeviceFails, GoTo, Return
<1>5. ASSUME NEW x \in Id, RenewFails(x) PROVE Sheds
  <2>1. Binding(x) /\ \A id \in Id : client'[id] = client[id] \/ client'[id].cb = Absent
    BY <1>5, QuietSheds DEF RenewFails, RenewPutFails, Running, RivalInv, HardInv, AloneInv
  <2> QED
    BY <1>5, <2>1, QuietSheds DEF RenewFails, RenewPutFails, Binding
<1>6. ASSUME NEW x \in Id, ReturnIP(x) PROVE Sheds
  BY <1>6, QuietSheds DEF ReturnIP, RemoveAllocation
<1>7. ASSUME NEW x \in Id, Expire(x) PROVE Sheds
  BY <1>7, QuietSheds DEF Expire, RemoveAllocation
<1>8. ASSUME NEW x \in MAC, AdminCheck(x) PROVE Sheds
  BY <1>8, QuietSheds DEF AdminCheck
<1>9. ASSUME NEW x \in MAC, AdminRemove(x) PROVE Sheds
  BY <1>9, QuietSheds DEF AdminRemove, SetPool
<1>10. ASSUME AdminWrite PROVE Sheds
  BY <1>10, QuietSheds DEF AdminWrite, SetPool
<1>11. ASSUME UNCHANGED vars PROVE Sheds
  BY <1>11, QuietSheds DEF vars
<1> QED
  BY <1>1, <1>2, <1>3, <1>4, <1>5, <1>6, <1>7, <1>8, <1>9, <1>10, <1>11

LEMMA DeviceReadySheds ==
  ASSUME RivalInv, BearerInv, NEW m \in MAC \cup {HostMAC}, DeviceReady(m) PROVE Sheds
<1>1. /\ client' = [client EXCEPT ![cur] =
                      [al |-> rec, ip |-> NoIP, mac |-> m, cb |-> Absent]]
      /\ client \in [Id -> RecordClient \cup {Absent}]
      /\ phase' = phase /\ pc = "device" /\ pc' = "bind" /\ UNCHANGED <<alloc, todo>>
  BY DEF DeviceReady, StartClient, store, process, RivalInv, ClientInv, TypeInv, RecordsOK
<1>2. \A id \in Id : client'[id] = client[id] \/ client'[id].cb = Absent
  BY <1>1
<1> QED
  BY <1>1, <1>2, QuietSheds

\* A record is written by a bearer, or without an address; a stop walks what is stored.
LEMMA WritingActions ==
  ASSUME NoRivals, RivalInv, BearerInv
  PROVE  /\ RemoveMAC => Sheds
         /\ PutBound => Sheds
         /\ RequestFails => Sheds
         /\ BeginStop => Sheds
         /\ PutStopped => Sheds
         /\ \A id \in Id : StopAllocation(id) => Sheds
         /\ \A id \in Id : WriteRenewal(id) => Sheds
         /\ \A id \in Id : ObtainIP(id) => Sheds
<1>0. /\ client \in [Id -> RecordClient \cup {Absent}]
      /\ alloc \in [Id -> Record \cup {Absent}]
      /\ todo \in [Id -> Record \cup {Absent}]
      /\ pc \notin {"ready", "putmac.check", "putmac.write"} => cur \in Id
      /\ phase = "stop" => pc \in {"ready", "stop.put"}
      /\ pc = "removemac" => client[cur].al = rec
  BY DEF RivalInv, ClientInv, StoreInv, StageInv, TypeInv, RecordsOK, ThreadOK, BearerInv
<1> USE <1>0 DEF Sheds, Bears, Has, Writes, Renewing, Walks, store, dhcp, thread, process, api
<1>1. ASSUME RemoveMAC PROVE Sheds
  BY <1>1 DEF RemoveMAC, SetPool, EncodeAndPut
<1>2. ASSUME PutBound PROVE Sheds
  BY <1>2 DEF PutBound, PutAllocation, Return
<1>3. ASSUME RequestFails PROVE Sheds
  BY <1>3 DEF RequestFails, EncodeAndPut, GoTo, Return
<1>4. ASSUME BeginStop PROVE Sheds
  BY <1>4 DEF BeginStop, Idle
<1>5. ASSUME PutStopped PROVE Sheds
  BY <1>5 DEF PutStopped, PutAllocation, Return
<1>6. ASSUME NEW x \in Id, StopAllocation(x) PROVE Sheds
  <2>1. \A id \in Id : client'[id] \in {client[id], Absent}
    BY <1>6, StopShrinks DEF StopAllocation, RivalInv, ClientInv
  <2>2. /\ cur' = x /\ pc' = "stop.put" /\ phase = "stop" /\ rec'.ip = todo[x].ip
        /\ todo[x] # Absent /\ todo' = [todo EXCEPT ![x] = Absent]
        /\ UNCHANGED <<alloc, phase>>
    BY <1>6 DEF StopAllocation, Record, Allocation
  <2> QED
    BY <2>1, <2>2
<1>7. ASSUME NEW x \in Id, WriteRenewal(x) PROVE Sheds
  <2>1. /\ Binding(x) /\ client[x] # Absent /\ client[x].cb # Absent
        /\ alloc' = [alloc EXCEPT ![x] = client[x].cb]
        /\ client' = [client EXCEPT ![x].cb = Absent]
        /\ UNCHANGED <<thread, process>>
    BY <1>7 DEF WriteRenewal, RenewPut, PutAllocation, Running, RivalInv, HardInv, AloneInv
  <2> QED
    BY <2>1 DEF Binding
<1>8. ASSUME NEW x \in Id, ObtainIP(x) PROVE Sheds
  BY <1>8, NullsAreNotValues DEF ObtainIP, PutAllocation, NewAllocation
<1> QED
  BY <1>1, <1>2, <1>3, <1>4, <1>5, <1>6, <1>7, <1>8

\* Who binds, and has a hardware address in hand, is not the bearer of another's address:
\* the DHCP server gives away what a record names only to the record's own interface.
LEMMA LeasedIsFree ==
  ASSUME RivalInv, ManageInterfaces, NEW ip \in IP, pc \in Waiting, Leasable(cur, ip)
  PROVE  \A id \in Id \ {cur} : ~Bears(id, ip)
<1>1. /\ cur \in Id /\ client[cur].mac = hand /\ hand \in MAC
  BY DEF RivalInv, ClientInv, StoreInv, HandlerInv, TypeInv, ScalarsOK, ThreadOK, Waiting
<1>2. Uses(cur, hand)
  BY <1>1 DEF Uses, Takes, Waiting
<1>3. \A id \in Id \ {cur} : alloc[id] # Absent => alloc[id].mac # hand
  BY <1>1, <1>2 DEF RivalInv, HardInv, InvolvedInv, Involved, Uses
<1>4. phase # "stop"
  BY DEF RivalInv, StoreInv, StageInv, Waiting
<1>5. \A id \in Id \ {cur} : ~Renewing(id, ip)
  BY DEF RivalInv, HardInv, AloneInv, Binding, Renewing
<1> QED
  BY <1>1, <1>3, <1>4, <1>5 DEF Bears, Has, Writes, Leasable, Waiting

LEMMA BoundBears ==
  ASSUME RivalInv, BearerInv, ManageInterfaces, NEW ip \in IP, Bound(ip)
  PROVE  BearerInv'
<1>0. cur \in Id /\ pc = "bind" /\ client \in [Id -> RecordClient \cup {Absent}]
  BY DEF Bound, RivalInv, ClientInv, TypeInv, RecordsOK, ThreadOK
<1>1. CASE AlreadyManaged(ip)
  <2>1. Sheds
    BY <1>0, <1>1, QuietSheds
    DEF Bound, GiveUp, StopClient, BindFails, GoTo, Return, store, process
  <2> QED
    BY <2>1, ShedsKeeps
<1>2. CASE ~AlreadyManaged(ip)
  <2>1. /\ cur' = cur /\ pc' \in {"removemac", "put"} /\ rec'.ip = ip
        /\ client' = [client EXCEPT ![cur] =
                        [al |-> rec', ip |-> ip, mac |-> hand, cb |-> Absent]]
        /\ UNCHANGED <<alloc, phase, todo>>
    BY <1>0, <1>2 DEF Bound, AlreadyManaged, Become, WithLease, store, process
  <2>2. \A id \in Id \ {cur} : ~Bears(id, ip)
    BY <1>0, LeasedIsFree DEF Bound, Waiting
  <2>3. \A id \in Id, p \in IP : Bears(id, p)' => Bears(id, p) \/ (id = cur /\ p = ip)
    BY <1>0, <2>1 DEF Bears, Has, Writes, Renewing, Walks
  <2> QED
    BY <1>0, <2>1, <2>2, <2>3 DEF BearerInv
<1> QED
  BY <1>1, <1>2

LEMMA RenewBears ==
  ASSUME NoRivals, RivalInv, BearerInv, ManageInterfaces, NEW x \in Id, NEW ip \in IP, Renew(x, ip)
  PROVE  BearerInv'
<1>1. /\ cur = x /\ pc \in {"bind", "bindstop"} /\ Leasable(cur, ip)
      /\ UNCHANGED <<alloc, pc, cur, rec, phase, todo>>
  BY DEF Renew, NoRivals, Binding, OnRenew, store, thread, process
<1>2. /\ \A id \in Id \ {x} : client'[id] = client[id]
      /\ client'[x].cb.ip = ip
  <2>1. client \in [Id -> RecordClient \cup {Absent}] /\ client[x] # Absent
    BY DEF Renew, OnRenew, Running, RivalInv, ClientInv, TypeInv, RecordsOK
  <2>2. client[x].al \in Record
    BY <2>1 DEF RecordClient
  <2> QED
    BY <2>1, <2>2 DEF Renew, OnRenew, Record, Allocation
<1>3. \A id \in Id \ {cur} : ~Bears(id, ip)
  BY <1>1, LeasedIsFree DEF Waiting
<1>4. \A id \in Id, p \in IP : Bears(id, p)' => Bears(id, p) \/ (id = cur /\ p = ip)
  BY <1>1, <1>2 DEF Bears, Has, Writes, Renewing, Walks
<1> QED
  BY <1>1, <1>3, <1>4 DEF BearerInv

LEMMA BearerInvIsInductive ==
  ASSUME NoRivals, ManageInterfaces, RivalInv, BearerInv, [Next]_vars PROVE BearerInv'
<1>0. Sheds => BearerInv'
  BY ShedsKeeps
<1>1. CASE Startup
  BY <1>1, <1>0, QuietSteps, QuietEnds DEF Startup
<1>2. CASE Handler
  BY <1>2, <1>0, QuietSteps, QuietEnds, WritingActions, DeviceReadySheds, BoundBears DEF Handler
<1>3. CASE Shutdown
  BY <1>3, <1>0, QuietSteps, QuietEnds, WritingActions DEF Shutdown
<1>4. CASE Clients
  BY <1>4, <1>0, WritingActions, RenewBears DEF Clients
<1>5. CASE Failures
  BY <1>5, <1>0, QuietSteps, QuietEnds, WritingActions DEF Failures
<1>6. CASE Environment
  BY <1>6, <1>0, QuietSteps, QuietEnds, WritingActions DEF Environment
<1>7. CASE UNCHANGED vars
  BY <1>7, <1>0, QuietSteps, QuietEnds
<1> QED
  BY <1>1, <1>2, <1>3, <1>4, <1>5, <1>6, <1>7 DEF Next

\* With managed interfaces no two stored allocations have one address, across any number
\* of stops, crashes, failing requests and late leases: the DHCP server, which outlives the
\* controller, leases an address to one interface at a time, an interface serves one
\* allocation at a time, and what a stop or a late lease writes is not older than the lease
\* (dhcp.go:42-71; controller.go:51-60, 85-98).
THEOREM AddressesStayExclusive ==
  NoRivals /\ ManageInterfaces => (Spec => []IPIsExclusive)
<1> SUFFICES ASSUME NoRivals, ManageInterfaces PROVE Spec => []IPIsExclusive
  OBVIOUS
<1>1. Init => HardInv /\ BearerInv
  BY HardInvStarts
  DEF Init, StoreInit, DHCPInit, BearerInv, Bears, Has, Writes, Renewing
<1>2. (ClientInv /\ StoreInv) /\ (HardInv /\ BearerInv) /\ [Next]_vars => (HardInv /\ BearerInv)'
  BY HardInvIsInductive, BearerInvIsInductive DEF RivalInv
<1>3. (ClientInv /\ StoreInv) /\ (HardInv /\ BearerInv) => IPIsExclusive
  BY DEF BearerInv, Bears, Has, IPIsExclusive, ClientInv, TypeInv, RecordsOK, Record, Allocation
<1> QED
  BY <1>1, <1>2, <1>3, StoreInvHolds, PTL DEF Spec

-----------------------------------------------------------------------------
(* Every environment, with managed interfaces: where the configured hardware *)
(* addresses are while the watch is on.                                      *)

\* Between two handlers the hand is empty; what is about to be stored names the address in
\* hand.
HandInv ==
  /\ phase = "watch" => watching
  /\ pc \in {"ready", "popmac.get"} => hand = NoMAC
  /\ pc \in {"removemac", "put"} => client[cur].mac = hand

LEMMA HandInvIsInductive ==
  ASSUME ManageInterfaces, ClientInv, StoreInv, HandInv, [Next]_vars PROVE HandInv'
<1>0. /\ pc \notin {"ready", "putmac.check", "putmac.write"} => cur \in Id
      /\ client \in [Id -> RecordClient \cup {Absent}]
  BY DEF ClientInv, TypeInv, RecordsOK, ThreadOK
<1> USE <1>0 DEF HandInv, store, dhcp, thread, process, api, Idle, GoTo, Return
<1>1. CASE Startup
  BY <1>1
  DEF Startup, Boot, Converge, StartWatch, RegisterMAC, ConvergeOn, ConvergeUnbound,
      ConvergeStopped, ConvergeDelete, ConvergeBound, BeginUnbound, BeginStopped,
      deleteAllocation, Recover
<1>2. CASE Handler
  <2>1. CASE OnCreate \/ OnDelete
    BY <2>1 DEF OnCreate, OnDelete, NextEvent, BeginUnbound, deleteAllocation, Recover
  <2>2. CASE PopMACGet \/ PopMACDelete \/ PopMACEmpty
    BY <2>2 DEF PopMACGet, PopMACDelete, PopMACEmpty, SetPool, WithoutMAC
  <2>3. ASSUME NEW m \in MAC \cup {HostMAC}, DeviceReady(m) PROVE HandInv'
    BY <2>3 DEF DeviceReady
  <2>4. ASSUME NEW ip \in IP, Bound(ip) PROVE HandInv'
    BY <2>4 DEF Bound, GiveUp, BindFails, Become
  <2>5. CASE BindTimeout \/ BindStop \/ PutBound \/ RemoveUnbound
    BY <2>5
    DEF BindTimeout, BindStop, GiveUp, BindFails, PutBound, PutAllocation, RemoveUnbound,
        RemoveAllocation
  <2>6. CASE RemoveMAC
    BY <2>6 DEF RemoveMAC, SetPool, EncodeAndPut
  <2>7. CASE PutMACCheck \/ PutMACWrite \/ RemoveDevice
    BY <2>7
    DEF PutMACCheck, PutMACWrite, PutMACSites, PutMACReturns, SetPool, RemoveDevice
  <2> QED
    BY <1>2, <2>1, <2>2, <2>3, <2>4, <2>5, <2>6, <2>7 DEF Handler
<1>3. CASE Shutdown
  BY <1>3 DEF Shutdown, BeginStop, PutStopped, PutAllocation, Exit, Halt, StopAllocation
<1>4. CASE Clients
  <2>1. ASSUME NEW id \in Id, WriteRenewal(id) PROVE HandInv'
    <3>1. client[id] \in RecordClient /\ client' = [client EXCEPT ![id].cb = Absent]
      BY <2>1 DEF WriteRenewal, RenewPut, Running
    <3>2. \A x \in Id : client[x] # Absent => client'[x].mac = client[x].mac
      BY <3>1 DEF RecordClient
    <3>3. pc \in {"removemac", "put"} => client[cur] # Absent
      BY DEF StoreInv, HandlerInv
    <3> QED
      BY <2>1, <3>2, <3>3 DEF WriteRenewal, RenewPut, PutAllocation
  <2>2. ASSUME NEW id \in Id, NEW ip \in IP, Renew(id, ip) PROVE HandInv'
    BY <2>2 DEF Renew, OnRenew
  <2> QED
    BY <1>4, <2>1, <2>2 DEF Clients
<1>5. CASE Failures
  <2>1. CASE Crash
    BY <2>1 DEF Crash, Halt
  <2>2. CASE PopMACFails
    BY <2>2 DEF PopMACFails, SetPool, WithoutMAC
  <2>3. CASE DeviceFails
    BY <2>3 DEF DeviceFails
  <2>4. CASE RequestFails
    BY <2>4 DEF RequestFails, EncodeAndPut
  <2>5. ASSUME NEW id \in Id, RenewFails(id) PROVE HandInv'
    BY <2>5 DEF RenewFails, RenewPutFails, RecordClient
  <2> QED
    BY <1>5, <2>1, <2>2, <2>3, <2>4, <2>5 DEF Failures
<1>6. CASE Environment
  BY <1>6
  DEF Environment, ObtainIP, ReturnIP, Expire, PutAllocation, RemoveAllocation, AdminCheck,
      AdminWrite, AdminRemove, SetPool
<1>7. CASE UNCHANGED vars
  BY <1>7 DEF vars
<1> QED
  BY <1>1, <1>2, <1>3, <1>4, <1>5, <1>6, <1>7 DEF Next

-----------------------------------------------------------------------------
(* What the requests to the store do to those who hold an address.           *)

LEMMA PutKeepsHolders ==
  ASSUME ClientInv, StoreInv, NEW x \in Id, NEW a \in Record, PutAllocation(x, a), Complete(a),
         a.mac = NoMAC \/ Claim(x, a.mac), a.state = "Unbound" => Unset(x)
  PROVE  /\ \A id \in Id, m \in MAC : HoldsMAC(id, m) => HoldsMAC(id, m)'
         /\ \A i \in 1..Len(events) : i \in 1..Len(events') /\ events'[i] = events[i]
         /\ pool' = pool
<1>1. /\ alloc' = [alloc EXCEPT ![x] = a] /\ alloc \in [Id -> Record \cup {Absent}]
      /\ a # Absent /\ a.mac \in MAC \cup {HostMAC, NoMAC} /\ NoMAC \notin MAC
      /\ events \in Seq(RecordEvent)
  BY NullsAreNotRecords, NullsAreNotValues
  DEF PutAllocation, ClientInv, TypeInv, RecordsOK, Record, Allocation
<1>2. ASSUME NEW m \in MAC, HoldsMAC(x, m) PROVE a.mac = m
  <2>1. Claim(x, m) /\ ~Unset(x)
    BY <1>1, <1>2 DEF HoldsMAC, Claim, Unset, StoreInv, CompleteInv, Complete
  <2>2. a.mac # NoMAC
    BY <2>1 DEF Complete
  <2> QED
    BY <1>1, <2>1, <2>2 DEF StoreInv, ClaimInv
<1>3. \A id \in Id, m \in MAC : HoldsMAC(id, m) => HoldsMAC(id, m)'
  BY <1>1, <1>2 DEF HoldsMAC
<1>4. \A i \in 1..Len(events) : i \in 1..Len(events') /\ events'[i] = events[i]
  <2> DEFINE e == [kind |-> "create", id |-> x, val |-> a]
  <2>1. e \in RecordEvent /\ events' \in {events, Append(events, e)}
    BY DEF RecordEvent, PutAllocation, Notified
  <2> QED
    BY <1>1, <2>1
<1> QED
  BY <1>3, <1>4 DEF PutAllocation

\* Who holds an address and is removed is named by an event.
LEMMA RemoveTells ==
  ASSUME ClientInv, watching, NEW x \in Id, RemoveAllocation(x), NEW m \in MAC
  PROVE  /\ \A id \in Id : HoldsMAC(id, m) =>
              \/ HoldsMAC(id, m)'
              \/ \E i \in 1..Len(events') :
                   events'[i].kind = "delete" /\ events'[i].val.mac = m
         /\ \A i \in 1..Len(events) : i \in 1..Len(events') /\ events'[i] = events[i]
         /\ pool' = pool
<1> DEFINE e == [kind |-> "delete", id |-> x, val |-> alloc[x]]
<1>1. /\ alloc' = [alloc EXCEPT ![x] = Absent] /\ alloc \in [Id -> Record \cup {Absent}]
      /\ events \in Seq(RecordEvent) /\ pool' = pool
  BY DEF RemoveAllocation, ClientInv, TypeInv, RecordsOK
<1>2. CASE alloc[x] = Absent
  BY <1>1, <1>2 DEF RemoveAllocation, HoldsMAC
<1>3. CASE alloc[x] # Absent
  <2>1. e \in RecordEvent /\ events' = Append(events, e)
    BY <1>1, <1>3 DEF RecordEvent, RemoveAllocation, Notified
  <2>2. /\ Len(events) + 1 \in 1..Len(events') /\ events'[Len(events) + 1] = e
        /\ \A i \in 1..Len(events) : i \in 1..Len(events') /\ events'[i] = events[i]
    BY <1>1, <2>1
  <2>3. e.kind = "delete" /\ e.val = alloc[x]
    OBVIOUS
  <2> HIDE DEF e
  <2>4. HoldsMAC(x, m) =>
          \E i \in 1..Len(events') : events'[i].kind = "delete" /\ events'[i].val.mac = m
    BY <2>2, <2>3 DEF HoldsMAC
  <2>5. \A id \in Id \ {x} : HoldsMAC(id, m) => HoldsMAC(id, m)'
    BY <1>1 DEF HoldsMAC
  <2> QED
    BY <1>1, <2>2, <2>4, <2>5
<1> QED
  BY <1>2, <1>3

-----------------------------------------------------------------------------
(* No step loses another address than the one in hand.                       *)

\* m is not lost, or in the way that is known.
Spared(m) == Recoverable(m)' \/ (hand = m /\ (pc = "remove" \/ faults' # faults))

WatchInv == ClientInv /\ StoreInv /\ HandInv /\ ClientInv'

\* The same records and events, and the rest is about the pool and the hand.
Settles(m) ==
  /\ UNCHANGED <<alloc, events>>
  /\ m \in pool \/ (m = hand /\ pc # "rmdevice") => Spared(m)

LEMMA SettlesSpares ==
  ASSUME NEW m \in MAC, Settles(m), Recoverable(m) PROVE Spared(m)
BY DEF Settles, Recoverable, Spared, HoldsMAC

LEMMA GrowthSpares ==
  ASSUME WatchInv, NEW m \in MAC, Recoverable(m),
         \A id \in Id : HoldsMAC(id, m) =>
           \/ HoldsMAC(id, m)'
           \/ \E i \in 1..Len(events') :
                events'[i].kind = "delete" /\ events'[i].val.mac = m,
         \A i \in 1..Len(events) : i \in 1..Len(events') /\ events'[i] = events[i],
         pool' = pool, m = hand /\ pc # "rmdevice" => Spared(m)
  PROVE  Spared(m)
<1>1. DOMAIN events = 1..Len(events) /\ DOMAIN events' = 1..Len(events')
  BY DEF WatchInv, ClientInv, TypeInv, RecordsOK
<1> QED
  BY <1>1 DEF Recoverable, Spared

LEMMA NextEventSpares ==
  ASSUME WatchInv, pc = "ready", events # << >>, events' = Tail(events),
         UNCHANGED <<alloc, pool>>, NEW m \in MAC, Recoverable(m),
         Head(events).kind = "delete" =>
           Head(events).val.mac # m \/ (hand' = m /\ pc' # "rmdevice")
  PROVE  Spared(m)
<1>1. /\ Len(events') = Len(events) - 1 /\ Len(events) \in Nat
      /\ events[1] = Head(events)
      /\ \A i \in 1..Len(events') : events'[i] = events[i + 1]
      /\ DOMAIN events = 1..Len(events) /\ DOMAIN events' = 1..Len(events')
      /\ NoMAC \notin MAC
  BY NullsAreNotValues DEF WatchInv, ClientInv, TypeInv, RecordsOK
<1>2. ASSUME NEW i \in 1..Len(events), events[i].kind = "delete", events[i].val.mac = m
      PROVE  Recoverable(m)'
  <2>1. CASE i = 1
    BY <1>1, <1>2, <2>1 DEF Recoverable
  <2>2. CASE i # 1
    <3>1. PICK j : j = i - 1
      OBVIOUS
    <3>2. j \in 1..Len(events') /\ events'[j] = events[i]
      BY <1>1, <2>2, <3>1
    <3> QED
      BY <1>1, <1>2, <3>2 DEF Recoverable
  <2> QED
    BY <2>1, <2>2
<1>3. m # hand
  BY <1>1 DEF WatchInv, HandInv
<1> QED
  BY <1>1, <1>2, <1>3 DEF Recoverable, Spared, HoldsMAC

LEMMA SettlingActions ==
  ASSUME ManageInterfaces, WatchInv, NEW m \in MAC \ AdminMAC
  PROVE  /\ StartWatch => Settles(m)
         /\ PopMACGet => Settles(m)
         /\ PopMACDelete => Settles(m)
         /\ PopMACEmpty => Settles(m)
         /\ \A x \in MAC \cup {HostMAC} : DeviceReady(x) => Settles(m)
         /\ phase = "watch" => \A ip \in IP : Bound(ip) => Settles(m)
         /\ BindTimeout => Settles(m)
         /\ phase = "watch" /\ BindStop => Settles(m)
         /\ RemoveMAC => Settles(m)
         /\ PutMACCheck => Settles(m)
         /\ PutMACWrite => Settles(m)
         /\ RemoveDevice => Settles(m)
         /\ PopMACFails => Settles(m)
         /\ phase = "watch" /\ DeviceFails => Settles(m)
         /\ RequestFails => Settles(m)
         /\ \A x \in Id : RenewFails(x) => Settles(m)
         /\ \A x \in Id, ip \in IP : Renew(x, ip) => Settles(m)
         /\ \A x \in MAC : AdminCheck(x) \/ AdminRemove(x) => Settles(m)
         /\ AdminWrite => Settles(m)
<1>0. /\ m # NoMAC /\ m \in MAC /\ m \notin AdminMAC
      /\ pc \in {"ready", "popmac.get"} => hand = NoMAC
      /\ pc \notin {"ready", "putmac.check", "putmac.write"} => cur \in Id
      /\ phase = "watch" /\ pc \in {"device", "bind", "bindstop"} => rec.state = "Unbound"
      /\ pc = "device" => Complete(rec)
      /\ faults \in Nat
  BY NullsAreNotValues, ConfigurationAssumption
  DEF WatchInv, HandInv, ClientInv, TypeInv, ScalarsOK, ThreadOK, StoreInv, StageInv,
      HandlerInv, Starting, Waiting
<1> USE <1>0 DEF Settles, Spared, Recoverable, HoldsMAC, store, dhcp, thread, process, api,
                 Idle, GoTo, Return
<1>1. ASSUME StartWatch PROVE Settles(m)
  BY <1>1 DEF StartWatch
<1>2. ASSUME PopMACGet PROVE Settles(m)
  BY <1>2 DEF PopMACGet
<1>3. ASSUME PopMACDelete PROVE Settles(m)
  BY <1>3 DEF PopMACDelete, SetPool
<1>4. ASSUME PopMACEmpty PROVE Settles(m)
  BY <1>4 DEF PopMACEmpty, WithoutMAC
<1>5. ASSUME NEW x \in MAC \cup {HostMAC}, DeviceReady(x) PROVE Settles(m)
  BY <1>5 DEF DeviceReady
<1>6. ASSUME phase = "watch", NEW ip \in IP, Bound(ip) PROVE Settles(m)
  BY <1>6 DEF Bound, GiveUp, BindFails
<1>7. ASSUME BindTimeout PROVE Settles(m)
  BY <1>7 DEF BindTimeout
<1>8. ASSUME phase = "watch", BindStop PROVE Settles(m)
  BY <1>8 DEF BindStop, GiveUp, BindFails
<1>9. ASSUME RemoveMAC PROVE Settles(m)
  BY <1>9 DEF RemoveMAC, SetPool, EncodeAndPut
<1>10. ASSUME PutMACCheck PROVE Settles(m)
  BY <1>10 DEF PutMACCheck, PutMACSites, PutMACReturns, MACInUse
<1>11. ASSUME PutMACWrite PROVE Settles(m)
  BY <1>11 DEF PutMACWrite, PutMACSites, PutMACReturns, SetPool
<1>12. ASSUME RemoveDevice PROVE Settles(m)
  BY <1>12 DEF RemoveDevice
<1>13. ASSUME PopMACFails PROVE Settles(m)
  BY <1>13 DEF PopMACFails, Fault, SetPool
<1>14. ASSUME phase = "watch", DeviceFails PROVE Settles(m)
  BY <1>14 DEF DeviceFails, Complete
<1>15. ASSUME RequestFails PROVE Settles(m)
  BY <1>15 DEF RequestFails, Fault
<1>16. ASSUME NEW x \in Id, RenewFails(x) PROVE Settles(m)
  BY <1>16 DEF RenewFails
<1>17. ASSUME NEW x \in Id, NEW ip \in IP, Renew(x, ip) PROVE Settles(m)
  BY <1>17 DEF Renew
<1>18. ASSUME NEW x \in MAC, AdminCheck(x) \/ AdminRemove(x) PROVE Settles(m)
  BY <1>18 DEF AdminCheck, AdminRemove, SetPool
<1>19. ASSUME AdminWrite PROVE Settles(m)
  BY <1>19 DEF AdminWrite, SetPool
<1> QED
  BY <1>1, <1>2, <1>3, <1>4, <1>5, <1>6, <1>7, <1>8, <1>9, <1>10, <1>11, <1>12, <1>13,
     <1>14, <1>15, <1>16, <1>17, <1>18, <1>19

LEMMA WatchSpares ==
  ASSUME ManageInterfaces, WatchInv, [Next]_vars, phase' = "watch",
         NEW m \in MAC \ AdminMAC, Recoverable(m)
  PROVE  Spared(m)
<1>0. m \in MAC /\ Settles(m) => Spared(m)
  BY SettlesSpares
<1>1. CASE StartWatch
  BY <1>0, <1>1, SettlingActions
<1>2. CASE phase # "watch" /\ ~StartWatch
  <2> USE DEF process
  <2>1. ~Startup /\ ~Shutdown
    BY <1>2
    DEF Startup, Boot, Converge, RegisterMAC, ConvergeOn, ConvergeUnbound, ConvergeStopped,
        ConvergeDelete, ConvergeBound, Shutdown, BeginStop, PutStopped, Exit, Halt,
        StopAllocation
  <2>2. ~Handler /\ ~Clients /\ ~Environment
    BY <1>2
    DEF Handler, OnCreate, OnDelete, NextEvent, PopMACGet, PopMACDelete, PopMACEmpty,
        DeviceReady, Bound, BindTimeout, BindStop, RemoveMAC, PutBound, RemoveUnbound,
        PutMACCheck, PutMACWrite, RemoveDevice,
        Clients, WriteRenewal, Renew,
        Environment, ObtainIP, ReturnIP, Expire, AdminCheck, AdminWrite, AdminRemove
  <2>3. ~Failures /\ ~(UNCHANGED vars)
    BY <1>2
    DEF Failures, Crash, Halt, PopMACFails, DeviceFails, RequestFails, RenewFails, vars
  <2> QED
    BY <2>1, <2>2, <2>3 DEF Next
<1>3. CASE phase = "watch"
  <2>0. /\ watching /\ ClientInv /\ StoreInv /\ HandInv
        /\ pc \notin {"ready", "putmac.check", "putmac.write"} => cur \in Id /\ rec \in Record
    BY <1>3 DEF WatchInv, HandInv, ClientInv, TypeInv, ThreadOK
  <2>1. ASSUME NEW x \in Id, RemoveAllocation(x), m = hand /\ pc # "rmdevice" => Spared(m)
        PROVE  Spared(m)
    BY <2>0, <2>1, GrowthSpares, RemoveTells
  <2>2. ASSUME NEW x \in Id, NEW a \in Record, PutAllocation(x, a), Complete(a),
               a.mac = NoMAC \/ Claim(x, a.mac), a.state = "Unbound" => Unset(x),
               m = hand /\ pc # "rmdevice" => Spared(m)
        PROVE  Spared(m)
    BY <2>0, <2>2, GrowthSpares, PutKeepsHolders
  <2>3. UNCHANGED <<pc, hand>> => (m = hand /\ pc # "rmdevice" => Spared(m))
    BY DEF Spared, Recoverable
  <2>4. CASE Startup
    BY <1>1, <1>3, <2>4
    DEF Startup, Boot, Converge, StartWatch, RegisterMAC, ConvergeOn, ConvergeUnbound,
        ConvergeStopped, ConvergeDelete, ConvergeBound
  <2>5. CASE Handler
    <3>1. ASSUME OnCreate PROVE Spared(m)
      <4>1. /\ pc = "ready" /\ events # << >> /\ events' = Tail(events)
            /\ UNCHANGED <<alloc, pool>> /\ Head(events).kind # "delete"
        BY <3>1 DEF OnCreate, NextEvent, Idle
      <4> QED
        BY <4>1, NextEventSpares
    <3>2. ASSUME OnDelete PROVE Spared(m)
      <4>1. /\ pc = "ready" /\ events # << >> /\ events' = Tail(events)
            /\ UNCHANGED <<alloc, pool>>
            /\ Head(events).val.mac # m \/ (hand' = m /\ pc' # "rmdevice")
        BY <3>2, NullsAreNotValues DEF OnDelete, NextEvent, Idle, deleteAllocation, Recover
      <4> QED
        BY <4>1, NextEventSpares
    <3>3. ASSUME PutBound PROVE Spared(m)
      <4>1. pc = "put" /\ PutAllocation(cur, rec) /\ cur \in Id /\ rec \in Record
        BY <2>0, <3>3 DEF PutBound
      <4>2. Complete(rec) /\ rec.state = "Bound" /\ Claim(cur, rec.mac) /\ rec.mac = hand
        BY <2>0, <4>1 DEF StoreInv, HandlerInv, HandInv, Claim, Complete
      <4>3. alloc'[cur] = rec /\ rec # Absent
        BY <2>0, <4>1, NullsAreNotRecords
        DEF PutAllocation, ClientInv, TypeInv, RecordsOK
      <4>4. m = hand => Spared(m)
        BY <4>1, <4>2, <4>3 DEF Spared, Recoverable, HoldsMAC
      <4> QED
        BY <2>2, <4>1, <4>2, <4>4
    <3>4. ASSUME RemoveUnbound PROVE Spared(m)
      <4>1. pc = "remove" /\ RemoveAllocation(cur) /\ cur \in Id
        BY <2>0, <3>4 DEF RemoveUnbound
      <4>2. m = hand => Spared(m)
        BY <4>1 DEF Spared
      <4> QED
        BY <2>1, <4>1, <4>2
    <3> QED
      BY <1>0, <1>3, <2>5, <3>1, <3>2, <3>3, <3>4, SettlingActions DEF Handler
  <2>6. CASE Shutdown
    <3>1. ~BeginStop /\ ~Exit /\ \A id \in Id : ~StopAllocation(id)
      BY <1>3 DEF BeginStop, Exit, StopAllocation
    <3>2. ~PutStopped
      BY <1>3, <2>0 DEF PutStopped, StoreInv, StageInv
    <3> QED
      BY <2>6, <3>1, <3>2 DEF Shutdown
  <2>7. CASE Clients
    <3>1. ASSUME NEW id \in Id, WriteRenewal(id) PROVE Spared(m)
      <4>1. RenewPut(id) /\ PutAllocation(id, client[id].cb) /\ UNCHANGED <<pc, hand>>
        BY <3>1 DEF WriteRenewal, RenewPut, thread
      <4>2. PICK a \in Record : a = client[id].cb
        BY <2>0, <4>1, CallbackRecord
      <4>3. /\ Complete(a) /\ (a.mac = NoMAC \/ Claim(id, a.mac))
            /\ a.state = "Unbound" => Unset(id)
        BY <2>0, <4>1, <4>2, CallbackRecord
      <4> QED
        BY <2>2, <2>3, <4>1, <4>2, <4>3
    <3> QED
      BY <1>0, <2>7, <3>1, SettlingActions DEF Clients
  <2>8. CASE Failures
    <3>1. ~Crash
      BY DEF Crash, Halt
    <3> QED
      BY <1>0, <1>3, <2>8, <3>1, SettlingActions DEF Failures
  <2>9. CASE Environment
    <3>1. ASSUME NEW id \in Id, ObtainIP(id) PROVE Spared(m)
      <4>1. /\ PutAllocation(id, NewAllocation) /\ alloc[id] = Absent
            /\ UNCHANGED <<pc, hand>>
        BY <2>0, <3>1 DEF ObtainIP, thread, ClientInv, FreshInv
      <4>2. PICK a \in Record : a = NewAllocation
        BY NullsAreNotValues DEF NewAllocation, Record, Allocation, AllocationState
      <4>3. Complete(a) /\ a.mac = NoMAC /\ Unset(id)
        BY <4>1, <4>2 DEF Complete, NewAllocation, Unset
      <4> QED
        BY <2>2, <2>3, <4>1, <4>2, <4>3
    <3>2. ASSUME NEW id \in Id, ReturnIP(id) \/ Expire(id) PROVE Spared(m)
      BY <2>1, <2>3, <3>2 DEF ReturnIP, Expire, thread
    <3> QED
      BY <1>0, <2>9, <3>1, <3>2, SettlingActions DEF Environment
  <2>10. CASE UNCHANGED vars
    BY <1>0, <2>10, <2>3 DEF vars, store, thread, Settles, Spared, Recoverable
  <2> QED
    BY <2>4, <2>5, <2>6, <2>7, <2>8, <2>9, <2>10 DEF Next
<1> QED
  BY <1>1, <1>2, <1>3

\* With managed interfaces, in every environment: with renewals, late leases, early requests,
\* crashes, restarts and failing requests.  While the watch is on, a configured address that
\* nobody removes by hand is lost from the controller's hand only, when an allocation is
\* removed after its bind failed or when the request that moves the address on fails
\* (controller.go:102-106, 141-149, 232-236).
THEOREM AddressesAreLostInHandOnly ==
  ManageInterfaces => (Spec => MACIsLostOnlyInHand)
<1> DEFINE Known == \A m \in ConfigMAC \ AdminMAC :
                      phase' = "watch" /\ Recoverable(m) /\ ~Recoverable(m)' =>
                        hand = m /\ (pc = "remove" \/ faults' # faults)
<1> SUFFICES ASSUME ManageInterfaces PROVE Spec => [][Known]_vars
  BY DEF MACIsLostOnlyInHand
<1>1. Init => HandInv
  BY DEF Init, HandInv
<1>2. (ClientInv /\ StoreInv) /\ HandInv /\ [Next]_vars => HandInv'
  BY HandInvIsInductive
<1>3. (ClientInv /\ StoreInv) /\ HandInv /\ (ClientInv /\ StoreInv)' /\ [Next]_vars => Known
  BY WatchSpares, ConfigurationAssumption DEF WatchInv, Spared
<1> QED
  BY <1>1, <1>2, <1>3, StoreInvHolds, PTL DEF Spec
=============================================================================
