------------------------ MODULE ControllerStore_proofs ------------------------
(***************************************************************************)
(* What the controller stores: records are complete, an allocation keeps   *)
(* its interface and never becomes unbound again, and so the store follows *)
(* the abstract life of an allocation, for every value of the constants.   *)
(***************************************************************************)
EXTENDS Controller_proofs

-----------------------------------------------------------------------------
(* The invariant.  A record is written long after it was read: by the thread *)
(* after a bind or a stop, by a callback after a renewal.  So it has to be   *)
(* said of all that may be written some day (snapshot, queue, clients,       *)
(* record in hand) that it is complete, names the interface that the stored  *)
(* record names, and does not say unbound where something else is stored.    *)

Complete(a) ==
  /\ a.state \in {"Unbound", "Bound", "Stopped"}
  /\ a.state = "Unbound" <=> a.mac = NoMAC
  /\ a.state # "Unbound" => a.ip # NoIP

Waiting == {"bind", "bindstop"}

\* Nothing is stored as bound for id; nothing is stored as unbound.
Unset(id) == alloc[id] = Absent \/ alloc[id].state = "Unbound"
Settled(id) == alloc[id] = Absent \/ alloc[id].state # "Unbound"

\* All that is stored or may be.
CompleteInv ==
  /\ \A id \in Id :
       /\ alloc[id] # Absent => Complete(alloc[id])
       /\ todo[id] # Absent => Complete(todo[id])
       /\ client[id] # Absent =>
            /\ Complete(client[id].al)
            /\ client[id].al.state # "Unbound" => client[id].al.mac = client[id].mac
            /\ client[id].cb # Absent =>
                 client[id].cb = client[id].al /\ client[id].cb.ip # NoIP
  /\ \A i \in 1..Len(events) : events[i].kind = "create" => Complete(events[i].val)

\* The record in hand, and how it agrees with the client that was started for it.
HandlerInv ==
  /\ pc \in Starting \cup Waiting \cup {"put", "stop.put"} => Complete(rec)
  /\ pc \in {"popmac.get", "popmac.delete"} => rec.state = "Unbound"
  /\ pc = "device" /\ ManageInterfaces /\ rec.state = "Stopped" => hand = rec.mac
  /\ pc \in Starting \cup Waiting => rec.state \in {"Unbound", "Stopped"}
  /\ pc \in Waiting => client[cur].al.state = rec.state /\ client[cur].mac = hand
  /\ pc \in {"removemac", "put"} =>
       client[cur] # Absent /\ client[cur].al.state = "Bound"
  /\ pc = "put" => rec.state = "Bound" /\ rec.mac = client[cur].mac
  /\ pc = "stop.put" => rec.state = "Stopped"

\* Snapshots are walked in converge and in Stop only; during the watch nothing stopped
\* is bound.
StageInv ==
  /\ phase \in {"down", "register", "watch"} => todo = NoRecords
  /\ phase = "watch" /\ pc \in Starting \cup Waiting => rec.state = "Unbound"
  /\ phase = "stop" => pc \in {"ready", "stop.put"}
  /\ pc = "stop.put" => phase = "stop"
  /\ phase = "stop" => \A id \in Id : todo[id] # Absent => todo[id].state = "Bound"

\* Who will write that id is unbound, or bind it as such, and who will write that it is not.
UnsetInv ==
  /\ \A id \in Id :
       /\ client[id] # Absent /\ client[id].al.state = "Unbound" => Unset(id)
       /\ client[id] # Absent /\ client[id].al.state = "Stopped" => Settled(id)
       /\ todo[id] # Absent /\ todo[id].state = "Unbound" => Unset(id)
       /\ todo[id] # Absent /\ todo[id].state # "Unbound" => Settled(id)
       /\ \A i \in 1..Len(events) : CreateAt(i, id) => Unset(id)
  /\ pc \in Starting /\ rec.state = "Unbound" => Unset(cur)
  /\ pc \in {"device", "stop.put"} /\ rec.state = "Stopped" => Settled(cur)

\* What may be stored for id, or is, names the hardware address m.
Claim(id, m) ==
  /\ m # NoMAC
  /\ \/ alloc[id] # Absent /\ alloc[id].mac = m
     \/ todo[id] # Absent /\ todo[id].mac = m
     \/ client[id] # Absent /\ client[id].mac = m
     \/ pc \in {"device", "stop.put"} /\ cur = id /\ rec.mac = m

\* All that may be stored for id, or is, is on one interface.
ClaimInv ==
  \A id \in Id, m, n \in MAC \cup {HostMAC} :
    Claim(id, m) /\ Claim(id, n) => m = n

\* Without managed interfaces that is the parent interface.
HostInv ==
  ~ManageInterfaces => \A id \in Id, m \in MAC : ~Claim(id, m)

StoreInv ==
  /\ CompleteInv /\ HandlerInv /\ StageInv /\ UnsetInv /\ ClaimInv /\ HostInv

-----------------------------------------------------------------------------
(* Most steps store nothing and start nothing.                               *)

\* The client goes on; at most its callback has ended.
SameClient(id) ==
  /\ client[id] # Absent
  /\ client'[id].al = client[id].al /\ client'[id].mac = client[id].mac
  /\ client'[id].cb \in {client[id].cb, Absent}

\* There is nothing new that may be stored.
Shrinks ==
  /\ \A id \in Id :
       /\ alloc'[id] \in {alloc[id], Absent}
       /\ todo'[id] \in {todo[id], Absent}
       /\ client'[id] = Absent \/ SameClient(id)
  /\ \A i \in 1..Len(events') : events'[i].kind = "create" =>
       \E j \in 1..Len(events) : events'[i] = events[j]

\* The thread does not take up anything new.
Calms ==
  \/ pc' \notin Starting \cup Waiting \cup {"removemac", "put", "stop.put"}
  \/ /\ pc' = pc /\ cur' = cur /\ rec' = rec /\ hand' = hand
     /\ pc \in Waiting \cup {"removemac", "put"} => client'[cur] # Absent
  \/ /\ pc \in {"popmac.get", "popmac.delete"} /\ pc' \in {"popmac.delete", "device"}
     /\ cur' = cur /\ rec' = rec
  \/ /\ pc = "bind" /\ pc' = "bindstop"
     /\ cur' = cur /\ rec' = rec /\ hand' = hand /\ client' = client
  \/ /\ pc = "removemac" /\ pc' = "put"
     /\ cur' = cur /\ rec' = client[cur].al /\ client' = client

LEMMA CalmKeepsHandler ==
  ASSUME ClientInv, StoreInv, Calms, \A id \in Id : client'[id] = Absent \/ SameClient(id)
  PROVE  HandlerInv'
<1> USE DEF StoreInv
<1>0. pc \notin {"ready", "putmac.check", "putmac.write"} => cur \in Id
  BY DEF ClientInv, TypeInv, ThreadOK
<1>1. CASE pc' \notin Starting \cup Waiting \cup {"removemac", "put", "stop.put"}
  BY <1>1 DEF HandlerInv, Starting, Waiting
<1>2. CASE /\ pc' = pc /\ cur' = cur /\ rec' = rec /\ hand' = hand
           /\ pc \in Waiting \cup {"removemac", "put"} => client'[cur] # Absent
  <2>1. pc \in Waiting \cup {"removemac", "put"} =>
          /\ client'[cur] # Absent
          /\ client'[cur].al = client[cur].al /\ client'[cur].mac = client[cur].mac
    BY <1>2, <1>0 DEF SameClient, Waiting
  <2> QED
    BY <1>2, <2>1 DEF HandlerInv, Complete, Starting, Waiting
<1>3. CASE /\ pc \in {"popmac.get", "popmac.delete"}
           /\ pc' \in {"popmac.delete", "device"} /\ cur' = cur /\ rec' = rec
  BY <1>3 DEF HandlerInv, Complete, Starting, Waiting
<1>4. CASE /\ pc = "bind" /\ pc' = "bindstop"
           /\ cur' = cur /\ rec' = rec /\ hand' = hand /\ client' = client
  BY <1>4 DEF HandlerInv, Complete, Starting, Waiting
<1>5. CASE /\ pc = "removemac" /\ pc' = "put"
           /\ cur' = cur /\ rec' = client[cur].al /\ client' = client
  BY <1>5, <1>0 DEF HandlerInv, CompleteInv, Complete, Starting, Waiting
<1> QED
  BY <1>1, <1>2, <1>3, <1>4, <1>5 DEF Calms

LEMMA ShrinkingKeepsStore ==
  ClientInv /\ ClientInv' /\ StoreInv /\ Shrinks /\ Calms /\ StageInv' => StoreInv'
<1> SUFFICES ASSUME ClientInv, ClientInv', StoreInv, Shrinks, Calms, StageInv'
             PROVE  StoreInv'
  OBVIOUS
<1> USE DEF StoreInv, Shrinks
<1>0. pc \notin {"ready", "putmac.check", "putmac.write"} => cur \in Id
  BY DEF ClientInv, TypeInv, ThreadOK
<1>1. CompleteInv'
  BY DEF CompleteInv, SameClient
<1>2. HandlerInv'
  BY CalmKeepsHandler
<1>3. UnsetInv'
  <2>1. \A id \in Id : (Unset(id) => Unset(id)') /\ (Settled(id) => Settled(id)')
    BY DEF Unset, Settled
  <2>2. \A id \in Id :
          /\ client'[id] # Absent /\ client'[id].al.state = "Unbound" => Unset(id)'
          /\ client'[id] # Absent /\ client'[id].al.state = "Stopped" => Settled(id)'
          /\ todo'[id] # Absent /\ todo'[id].state = "Unbound" => Unset(id)'
          /\ todo'[id] # Absent /\ todo'[id].state # "Unbound" => Settled(id)'
    BY <2>1 DEF UnsetInv, SameClient
  <2>3. ASSUME NEW id \in Id, NEW i \in 1..Len(events'), CreateAt(i, id)'
        PROVE  Unset(id)'
    <3>1. PICK j \in 1..Len(events) : events'[i] = events[j]
      BY <2>3 DEF CreateAt
    <3> QED
      BY <2>1, <2>3, <3>1 DEF UnsetInv, CreateAt
  <2>4. pc' \in Starting => pc \in Starting /\ cur' = cur /\ rec' = rec
    BY DEF Calms, Starting, Waiting
  <2>5. pc' \in {"device", "stop.put"} /\ rec'.state = "Stopped" =>
          pc = pc' /\ cur' = cur /\ rec' = rec
    BY DEF Calms, HandlerInv, Starting, Waiting
  <2>6. pc' \in Starting /\ rec'.state = "Unbound" => Unset(cur)'
    BY <1>0, <2>4 DEF UnsetInv, Starting, Unset
  <2>7. pc' \in {"device", "stop.put"} /\ rec'.state = "Stopped" => Settled(cur)'
    BY <1>0, <2>5 DEF UnsetInv, Settled
  <2> QED
    BY <2>2, <2>3, <2>6, <2>7 DEF UnsetInv
<1>4. \A id \in Id, m \in MAC \cup {HostMAC} : Claim(id, m)' => Claim(id, m)
  BY DEF Claim, Calms, SameClient, HandlerInv, Complete, Starting, Waiting
<1>5. ClaimInv' /\ HostInv'
  BY <1>4 DEF ClaimInv, HostInv
<1> QED
  BY <1>1, <1>2, <1>3, <1>5

\* The same for a Put: what it says of id agrees with all that is still to be done for id.
LEMMA PutKeepsStore ==
  ASSUME ClientInv, ClientInv', StoreInv, Calms, StageInv',
         \A x \in Id : client'[x] = Absent \/ SameClient(x),
         todo' = todo,
         NEW id \in Id, NEW a \in Record, PutAllocation(id, a), Complete(a),
         a.mac = NoMAC \/ Claim(id, a.mac),
         client[id] # Absent /\ client[id].al.state = "Unbound" => a.state = "Unbound",
         client[id] # Absent /\ client[id].al.state = "Stopped" => a.state # "Unbound",
         todo[id] # Absent => a.state # "Unbound" /\ todo[id].state # "Unbound",
         \A i \in 1..Len(events) : CreateAt(i, id) => a.state = "Unbound",
         pc' \in Starting => cur' # id,
         pc' = "stop.put" /\ cur' = id => a.state # "Unbound"
  PROVE  StoreInv'
<1> USE DEF StoreInv
<1>1. /\ alloc'[id] = a /\ \A x \in Id \ {id} : alloc'[x] = alloc[x]
      /\ a # Absent
  BY NullsAreNotRecords DEF PutAllocation, ClientInv, TypeInv, RecordsOK
<1>2. \A i \in 1..Len(events') :
        \/ i \in 1..Len(events) /\ events'[i] = events[i]
        \/ events'[i].id = id /\ events'[i].val = a
  BY PutAppends DEF ClientInv
<1>3. CompleteInv'
  <2>1. \A x \in Id : alloc'[x] # Absent => Complete(alloc'[x])
    BY <1>1 DEF CompleteInv
  <2>2. \A x \in Id : client'[x] # Absent =>
            /\ Complete(client'[x].al)
            /\ client'[x].al.state # "Unbound" => client'[x].al.mac = client'[x].mac
            /\ client'[x].cb # Absent =>
                 client'[x].cb = client'[x].al /\ client'[x].cb.ip # NoIP
    BY DEF CompleteInv, SameClient
  <2>3. \A i \in 1..Len(events') : events'[i].kind = "create" => Complete(events'[i].val)
    BY <1>2 DEF CompleteInv
  <2> QED
    BY <2>1, <2>2, <2>3 DEF CompleteInv
<1>4. HandlerInv'
  BY CalmKeepsHandler
<1>5. UnsetInv'
  <2>1. \A x \in Id \ {id} : (Unset(x) => Unset(x)') /\ (Settled(x) => Settled(x)')
    BY <1>1 DEF Unset, Settled
  <2>2. (a.state = "Unbound" => Unset(id)') /\ (a.state # "Unbound" => Settled(id)')
    BY <1>1 DEF Unset, Settled
  <2>3. ASSUME NEW x \in Id
        PROVE  /\ client'[x] # Absent /\ client'[x].al.state = "Unbound" => Unset(x)'
               /\ client'[x] # Absent /\ client'[x].al.state = "Stopped" => Settled(x)'
               /\ todo'[x] # Absent /\ todo'[x].state = "Unbound" => Unset(x)'
               /\ todo'[x] # Absent /\ todo'[x].state # "Unbound" => Settled(x)'
    <3>1. CASE x = id
      BY <2>2, <3>1 DEF SameClient
    <3>2. CASE x # id
      BY <2>1, <3>2 DEF UnsetInv, SameClient
    <3> QED
      BY <3>1, <3>2
  <2>4. ASSUME NEW x \in Id, NEW i \in 1..Len(events'), CreateAt(i, x)'
        PROVE  Unset(x)'
    <3>1. CASE i \in 1..Len(events) /\ events'[i] = events[i]
      BY <2>1, <2>2, <2>4, <3>1 DEF UnsetInv, CreateAt
    <3>2. CASE events'[i].id = id /\ events'[i].val = a
      BY <2>2, <2>4, <3>2 DEF CreateAt
    <3> QED
      BY <1>2, <3>1, <3>2
  <2>5. pc' \in Starting => pc \in Starting /\ cur' = cur /\ rec' = rec /\ cur \in Id
    BY DEF Calms, Starting, Waiting, ClientInv, TypeInv, ThreadOK
  <2>6. pc' \in {"device", "stop.put"} /\ rec'.state = "Stopped" =>
          pc = pc' /\ cur' = cur /\ rec' = rec /\ cur \in Id
    BY DEF Calms, HandlerInv, Starting, Waiting, ClientInv, TypeInv, ThreadOK
  <2>7. pc' \in Starting /\ rec'.state = "Unbound" => Unset(cur)'
    BY <1>1, <2>5 DEF UnsetInv, Starting, Unset
  <2>8. pc' \in {"device", "stop.put"} /\ rec'.state = "Stopped" => Settled(cur)'
    BY <1>1, <2>6 DEF UnsetInv, Settled, Starting
  <2> QED
    BY <2>3, <2>4, <2>7, <2>8 DEF UnsetInv
<1>6. \A x \in Id, m \in MAC \cup {HostMAC} : Claim(x, m)' => Claim(x, m)
  BY <1>1 DEF Claim, Calms, SameClient, HandlerInv, Complete, Starting, Waiting
<1>7. ClaimInv' /\ HostInv'
  BY <1>6 DEF ClaimInv, HostInv
<1> QED
  BY <1>3, <1>4, <1>5, <1>7

-----------------------------------------------------------------------------

(* The actions that are quiet in that sense.                                 *)

Quiet == Shrinks /\ Calms /\ StageInv'

LEMMA SameQueueShrinks ==
  events' = events => \A i \in 1..Len(events') : events'[i].kind = "create" =>
                        \E j \in 1..Len(events) : events'[i] = events[j]
OBVIOUS

LEMMA RemoveShrinks ==
  ASSUME NEW id \in Id, TypeInv, RemoveAllocation(id)
  PROVE  /\ \A x \in Id : alloc'[x] \in {alloc[x], Absent}
         /\ \A i \in 1..Len(events') : events'[i].kind = "create" =>
              \E j \in 1..Len(events) : events'[i] = events[j]
<1> DEFINE e == [kind |-> "delete", id |-> id, val |-> alloc[id]]
<1>1. events \in Seq(RecordEvent) /\ \A x \in Id : alloc'[x] \in {alloc[x], Absent}
  BY DEF TypeInv, RecordsOK, RemoveAllocation
<1>2. CASE events' = events
  BY <1>1, <1>2
<1>3. CASE events' = Append(events, e) /\ alloc[id] # Absent
  <2>1. e \in RecordEvent
    BY <1>3 DEF TypeInv, RecordsOK, RecordEvent
  <2>2. \A i \in 1..Len(events') :
          (i \in 1..Len(events) /\ events'[i] = events[i]) \/ events'[i] = e
    BY <1>1, <1>3, <2>1
  <2> QED
    BY <1>1, <2>2
<1> QED
  BY <1>1, <1>2, <1>3 DEF RemoveAllocation, Notified

\* A stop, of whichever client, and the end of one.
LEMMA StopShrinks ==
  ASSUME NEW ip, TypeInv, Stop(ip)
  PROVE  \A id \in Id : client'[id] \in {client[id], Absent}
BY DEF Stop, StopClient, TypeInv, RecordsOK, ScalarsOK

\* Where the thread needs its client, it has one.
LEMMA NeededIsThere ==
  ASSUME ClientInv, StoreInv
  PROVE  pc \in Waiting \cup {"removemac", "put"} => client[cur] # Absent /\ cur \in Id
BY DEF ClientInv, TypeInv, ThreadOK, StoreInv, HandlerInv, Waiting

LEMMA QuietActions ==
  ASSUME ClientInv, ClientInv', StoreInv
  PROVE  /\ Boot => Quiet
         /\ \A m \in MAC : RegisterMAC(m) => Quiet
         /\ StartWatch => Quiet
         /\ \A id \in Id : ConvergeDelete(id) => Quiet
         /\ \A id \in Id : ConvergeBound(id) => Quiet
         /\ OnDelete => Quiet
         /\ PopMACGet => Quiet
         /\ PopMACDelete => Quiet
         /\ PopMACEmpty => Quiet
         /\ \A ip \in IP : Bound(ip) /\ AlreadyManaged(ip) => Quiet
         /\ BindTimeout => Quiet
         /\ BindStop => Quiet
         /\ RemoveMAC => Quiet
         /\ RemoveUnbound => Quiet
         /\ PutMACCheck => Quiet
         /\ PutMACWrite => Quiet
         /\ RemoveDevice => Quiet
         /\ Exit => Quiet
         /\ Crash => Quiet
         /\ PopMACFails => Quiet
         /\ DeviceFails => Quiet
         /\ RequestFails => Quiet
         /\ \A id \in Id : RenewFails(id) => Quiet
         /\ \A id \in Id : ReturnIP(id) => Quiet
         /\ \A id \in Id : Expire(id) => Quiet
         /\ \A m \in MAC : AdminCheck(m) => Quiet
         /\ \A m \in MAC : AdminRemove(m) => Quiet
         /\ AdminWrite => Quiet
<1> USE SameQueueShrinks DEF Quiet, Shrinks, SameClient, Calms, StageInv, store, dhcp,
                             thread, process, api, Starting, Waiting
<1>0. /\ TypeInv
      /\ pc \in Waiting \cup {"removemac", "put"} => client[cur] # Absent /\ cur \in Id
      /\ StageInv
      /\ phase \in {"down", "register"} => pc \in {"ready", "putmac.check", "putmac.write"}
  BY NeededIsThere DEF ClientInv, PhaseInv, StoreInv
<1> USE <1>0
<1>1. ASSUME Boot PROVE Quiet
  BY <1>1 DEF Boot
<1>2. ASSUME NEW m \in MAC, RegisterMAC(m) PROVE Quiet
  BY <1>2 DEF RegisterMAC, Idle
<1>3. ASSUME StartWatch PROVE Quiet
  BY <1>3 DEF StartWatch, Idle
<1>4. ASSUME NEW id \in Id, ConvergeDelete(id) PROVE Quiet
  BY <1>4, StopShrinks DEF ConvergeDelete, ConvergeOn, deleteAllocation, Recover, Return, Idle, TypeInv, RecordsOK
<1>5. ASSUME NEW id \in Id, ConvergeBound(id) PROVE Quiet
  BY <1>5 DEF ConvergeBound, ConvergeOn, Idle, TypeInv, RecordsOK
<1>6. ASSUME OnDelete PROVE Quiet
  BY <1>6, StopShrinks DEF OnDelete, NextEvent, deleteAllocation, Recover, Return, Idle, TypeInv, RecordsOK
<1>7. ASSUME PopMACGet PROVE Quiet
  BY <1>7 DEF PopMACGet
<1>8. ASSUME PopMACDelete PROVE Quiet
  BY <1>8 DEF PopMACDelete, SetPool, GoTo
<1>9. ASSUME PopMACEmpty PROVE Quiet
  BY <1>9 DEF PopMACEmpty, WithoutMAC, Return
<1>10. ASSUME NEW ip \in IP, Bound(ip), AlreadyManaged(ip) PROVE Quiet
  BY <1>10 DEF Bound, GiveUp, StopClient, BindFails, GoTo, Return, TypeInv, RecordsOK
<1>11. ASSUME BindTimeout PROVE Quiet
  BY <1>11 DEF BindTimeout, GoTo
<1>12. ASSUME BindStop PROVE Quiet
  BY <1>12 DEF BindStop, GiveUp, StopClient, BindFails, GoTo, Return
<1>13. ASSUME RemoveMAC PROVE Quiet
  BY <1>13 DEF RemoveMAC, SetPool, EncodeAndPut
<1>14. ASSUME RemoveUnbound PROVE Quiet
  BY <1>14, RemoveShrinks DEF RemoveUnbound, Return, TypeInv, ThreadOK
<1>15. ASSUME PutMACCheck PROVE Quiet
  BY <1>15 DEF PutMACCheck, PutMACSites, MACInUse, PutMACReturns, GoTo, Return
<1>16. ASSUME PutMACWrite PROVE Quiet
  BY <1>16 DEF PutMACWrite, PutMACSites, PutMACReturns, SetPool, Return, GoTo
<1>17. ASSUME RemoveDevice PROVE Quiet
  BY <1>17 DEF RemoveDevice, Return
<1>18. ASSUME Exit PROVE Quiet
  BY <1>18 DEF Exit, Halt, Return, NoRecords
<1>19. ASSUME Crash PROVE Quiet
  BY <1>19 DEF Crash, Halt, Return, NoRecords
<1>20. ASSUME PopMACFails PROVE Quiet
  BY <1>20 DEF PopMACFails, Fault, SetPool, WithoutMAC, Return
<1>21. ASSUME DeviceFails PROVE Quiet
  BY <1>21 DEF DeviceFails, Fault, GoTo, Return
<1>22. ASSUME RequestFails PROVE Quiet
  BY <1>22 DEF RequestFails, EncodeAndPut, GoTo, Return
<1>23. ASSUME NEW id \in Id, RenewFails(id) PROVE Quiet
  <2>1. \A x \in Id : client'[x] = Absent \/ SameClient(x)
    BY <1>23 DEF RenewFails, RenewPutFails, Running, TypeInv, RecordsOK, RecordClient
  <2>2. client[cur] # Absent /\ cur \in Id => client'[cur] # Absent
    BY <1>23, NullsAreNotRecords
    DEF RenewFails, RenewPutFails, Running, TypeInv, RecordsOK, RecordClient
  <2> QED
    BY <1>23, <2>1, <2>2 DEF RenewFails, RenewPutFails, Fault
<1>24. ASSUME NEW id \in Id, ReturnIP(id) PROVE Quiet
  BY <1>24, RemoveShrinks DEF ReturnIP
<1>25. ASSUME NEW id \in Id, Expire(id) PROVE Quiet
  BY <1>25, RemoveShrinks DEF Expire
<1>26. ASSUME NEW m \in MAC, AdminCheck(m) PROVE Quiet
  BY <1>26 DEF AdminCheck, MACInUse
<1>27. ASSUME NEW m \in MAC, AdminRemove(m) PROVE Quiet
  BY <1>27 DEF AdminRemove, SetPool
<1>28. ASSUME AdminWrite PROVE Quiet
  BY <1>28 DEF AdminWrite, SetPool
<1> QED
  BY <1>1, <1>2, <1>3, <1>4, <1>5, <1>6, <1>7, <1>8, <1>9, <1>10, <1>11, <1>12, <1>13,
     <1>14, <1>15, <1>16, <1>17, <1>18, <1>19, <1>20, <1>21, <1>22, <1>23, <1>24, <1>25,
     <1>26, <1>27, <1>28

-----------------------------------------------------------------------------
(* The four places where a record is stored.                                 *)

LEMMA PutBoundKeepsStore ==
  ASSUME ClientInv, ClientInv', StoreInv, PutBound PROVE StoreInv'
<1> USE DEF StoreInv
<1>1. /\ pc = "put" /\ pc' = "ready" /\ PutAllocation(cur, rec)
      /\ UNCHANGED <<client, todo, phase>>
  BY DEF PutBound, Return, dhcp, process
<1>2. cur \in Id /\ rec \in Record
  BY <1>1 DEF ClientInv, TypeInv, ThreadOK
<1>3. /\ Complete(rec) /\ rec.state = "Bound" /\ rec.mac = client[cur].mac
      /\ client[cur] # Absent /\ client[cur].al.state = "Bound"
  BY <1>1 DEF HandlerInv
<1>4. Claim(cur, rec.mac)
  BY <1>3 DEF Claim, Complete
<1>5. todo[cur] = Absent
  BY <1>1, <1>2, <1>3 DEF StageInv, NoRecords, ClientInv, TodoInv, TypeInv, ScalarsOK
<1>6. \A i \in 1..Len(events) : ~CreateAt(i, cur)
  BY <1>1, <1>2, <1>3 DEF ClientInv, RequestInv, Binding
<1>7. Calms
  BY <1>1 DEF Calms, Starting, Waiting
<1>8. StageInv'
  BY <1>1 DEF StageInv, Starting, Waiting
<1>9. \A id \in Id : client'[id] = Absent \/ SameClient(id)
  BY <1>1 DEF SameClient
<1> QED
  BY <1>1, <1>2, <1>3, <1>4, <1>5, <1>6, <1>7, <1>8, <1>9, PutKeepsStore DEF Starting

LEMMA PutStoppedKeepsStore ==
  ASSUME ClientInv, ClientInv', StoreInv, PutStopped PROVE StoreInv'
<1> USE DEF StoreInv
<1>1. /\ pc = "stop.put" /\ pc' = "ready" /\ PutAllocation(cur, rec)
      /\ UNCHANGED <<client, todo, phase>>
  BY DEF PutStopped, Return, dhcp, process
<1>2. cur \in Id /\ rec \in Record
  BY <1>1 DEF ClientInv, TypeInv, ThreadOK
<1>3. Complete(rec) /\ rec.state = "Stopped" /\ phase = "stop"
  BY <1>1 DEF HandlerInv, StageInv
<1>4. Claim(cur, rec.mac)
  BY <1>1, <1>3 DEF Claim, Complete
<1>5. client[cur] # Absent => client[cur].al.state # "Unbound"
  BY <1>1, <1>2 DEF ClientInv, RenewInv, Binding
<1>6. todo[cur] # Absent => todo[cur].state # "Unbound"
  BY <1>2, <1>3 DEF StageInv
<1>7. \A i \in 1..Len(events) : ~CreateAt(i, cur)
  BY <1>3 DEF ClientInv, PhaseInv
<1>8. Calms
  BY <1>1 DEF Calms, Starting, Waiting
<1>9. StageInv'
  BY <1>1, <1>3 DEF StageInv, Starting, Waiting
<1>10. \A id \in Id : client'[id] = Absent \/ SameClient(id)
  BY <1>1 DEF SameClient
<1> QED
  BY <1>1, <1>2, <1>3, <1>4, <1>5, <1>6, <1>7, <1>8, <1>9, <1>10, PutKeepsStore DEF Starting

\* What a callback writes: its client's allocation.
LEMMA CallbackRecord ==
  ASSUME ClientInv, StoreInv, NEW id \in Id, RenewPut(id)
  PROVE  /\ client[id].cb \in Record /\ client[id].cb = client[id].al
         /\ client[id] # Absent
         /\ Complete(client[id].cb) /\ client[id].cb.ip # NoIP
         /\ client[id].cb.mac = NoMAC \/ Claim(id, client[id].cb.mac)
         /\ client[id].cb.state = "Unbound" => Unset(id) /\ Binding(id)
         /\ client[id].cb.state = "Stopped" => Settled(id)
<1>1. /\ client[id] # Absent /\ client[id].cb # Absent
      /\ client[id] \in RecordClient
  BY DEF RenewPut, Running, ClientInv, TypeInv, RecordsOK
<1>2. client[id].cb \in Record
  BY <1>1 DEF RecordClient
<1>3. /\ client[id].cb = client[id].al /\ client[id].cb.ip # NoIP
      /\ Complete(client[id].al)
      /\ client[id].al.state # "Unbound" => client[id].al.mac = client[id].mac
  BY <1>1 DEF StoreInv, CompleteInv
<1>4. client[id].al.mac = NoMAC \/ Claim(id, client[id].al.mac)
  BY <1>1, <1>3 DEF Complete, Claim
<1>5. /\ client[id].al.state = "Unbound" => Unset(id) /\ Binding(id)
      /\ client[id].al.state = "Stopped" => Settled(id)
  BY <1>1 DEF StoreInv, UnsetInv, ClientInv, RenewInv
<1> QED
  BY <1>1, <1>2, <1>3, <1>4, <1>5

LEMMA WriteRenewalKeepsStore ==
  ASSUME ClientInv, ClientInv', StoreInv, NEW id \in Id, WriteRenewal(id) PROVE StoreInv'
<1> USE DEF StoreInv
<1> DEFINE a == client[id].cb
<1>1. /\ RenewPut(id) /\ PutAllocation(id, a)
      /\ client' = [client EXCEPT ![id].cb = Absent]
      /\ UNCHANGED <<pc, cur, rec, hand, todo, phase>>
  BY DEF WriteRenewal, RenewPut, thread, process
<1>2. /\ a \in Record /\ a = client[id].al /\ client[id] # Absent
      /\ Complete(a) /\ (a.mac = NoMAC \/ Claim(id, a.mac))
      /\ a.state = "Unbound" => Unset(id) /\ Binding(id)
      /\ a.state = "Stopped" => Settled(id)
  BY <1>1, CallbackRecord
<1>3. \A x \in Id : client'[x] = Absent \/ SameClient(x)
  BY <1>1, <1>2 DEF SameClient, ClientInv, TypeInv, RecordsOK, RecordClient
<1>4. client[cur] # Absent /\ cur \in Id => client'[cur] # Absent
  BY <1>1, <1>2, NullsAreNotRecords DEF ClientInv, TypeInv, RecordsOK, RecordClient
<1>5. Calms
  BY <1>1, <1>4, NeededIsThere DEF Calms
<1>6. StageInv'
  BY <1>1 DEF StageInv
<1>7. todo[id] # Absent => a.state # "Unbound" /\ todo[id].state # "Unbound"
  <2>1. CASE phase = "converge"
    BY <1>2, <2>1 DEF ClientInv, TodoInv
  <2>2. CASE phase = "stop"
    BY <1>2, <2>2 DEF StageInv, Binding
  <2>3. CASE phase \in {"down", "register", "watch"}
    BY <2>3 DEF StageInv, NoRecords
  <2> QED
    BY <2>1, <2>2, <2>3 DEF ClientInv, TypeInv, ScalarsOK
<1>8. ASSUME NEW i \in 1..Len(events), CreateAt(i, id) PROVE a.state = "Unbound"
  <2>1. Binding(id) /\ phase = "watch"
    BY <1>2, <1>8 DEF ClientInv, RequestInv, PhaseInv, CreateAt
  <2>2. rec.state = "Unbound" /\ client[cur].al.state = rec.state
    BY <2>1 DEF Binding, StageInv, HandlerInv, Waiting
  <2> QED
    BY <1>2, <2>1, <2>2 DEF Binding
<1>9. pc \in Starting => cur # id
  BY <1>2 DEF ClientInv, ThreadInv
<1>10. pc = "stop.put" => a.state # "Unbound"
  BY <1>2 DEF Binding
<1> HIDE DEF a
<1> QED
  BY <1>1, <1>2, <1>3, <1>5, <1>6, <1>7, <1>8, <1>9, <1>10, PutKeepsStore

LEMMA ObtainIPKeepsStore ==
  ASSUME ClientInv, ClientInv', StoreInv, NEW id \in Id, ObtainIP(id) PROVE StoreInv'
<1> USE DEF StoreInv
<1>1. /\ id \notin issued /\ PutAllocation(id, NewAllocation)
      /\ UNCHANGED <<client, pc, cur, rec, hand, phase, todo>>
  BY DEF ObtainIP, dhcp, thread, process
<1>2. NewAllocation \in Record /\ Complete(NewAllocation)
      /\ NewAllocation.state = "Unbound" /\ NewAllocation.mac = NoMAC
  BY NullsAreNotValues DEF NewAllocation, Record, Allocation, AllocationState, Complete
<1>3. client[id] = Absent /\ todo[id] = Absent /\ cur # id
  BY <1>1 DEF ClientInv, FreshInv
<1>4. Calms
  BY <1>1, NeededIsThere DEF Calms
<1>5. StageInv'
  BY <1>1 DEF StageInv
<1>6. \A x \in Id : client'[x] = Absent \/ SameClient(x)
  BY <1>1 DEF SameClient
<1> QED
  BY <1>1, <1>2, <1>3, <1>4, <1>5, <1>6, PutKeepsStore

-----------------------------------------------------------------------------
(* Snapshots: converge and Stop read the allocations once.                   *)

LEMMA ConvergeKeepsStore ==
  ASSUME ClientInv, ClientInv', StoreInv, Converge PROVE StoreInv'
<1> USE DEF StoreInv
<1>1. /\ pc = "ready" /\ pc' = "ready" /\ phase' = "converge" /\ todo' = alloc
      /\ UNCHANGED <<alloc, events, client>>
  BY DEF Converge, Idle, store, dhcp, thread
<1>2. CompleteInv' /\ HandlerInv' /\ StageInv'
  BY <1>1 DEF CompleteInv, HandlerInv, StageInv, Starting, Waiting
<1>3. UnsetInv'
  BY <1>1 DEF UnsetInv, Unset, Settled, CreateAt, Starting
<1>4. \A id \in Id, m \in MAC \cup {HostMAC} : Claim(id, m)' => Claim(id, m)
  BY <1>1 DEF Claim
<1> QED
  BY <1>2, <1>3, <1>4 DEF ClaimInv, HostInv

LEMMA BeginStopKeepsStore ==
  ASSUME ClientInv, ClientInv', StoreInv, BeginStop PROVE StoreInv'
<1> USE DEF StoreInv
<1>1. /\ pc = "ready" /\ pc' = "ready" /\ phase' = "stop" /\ events' = << >>
      /\ \A id \in Id : todo'[id] = Absent
                        \/ (todo'[id] = alloc[id] /\ alloc[id].state = "Bound")
      /\ UNCHANGED <<alloc, client>>
  BY DEF BeginStop, Idle, dhcp, thread
<1>2. CompleteInv' /\ HandlerInv' /\ StageInv'
  BY <1>1 DEF CompleteInv, HandlerInv, StageInv, Starting, Waiting
<1>3. UnsetInv'
  BY <1>1 DEF UnsetInv, Unset, Settled, CreateAt, Starting
<1>4. \A id \in Id, m \in MAC \cup {HostMAC} : Claim(id, m)' => Claim(id, m)
  BY <1>1 DEF Claim
<1> QED
  BY <1>2, <1>3, <1>4 DEF ClaimInv, HostInv

LEMMA StopAllocationKeepsStore ==
  ASSUME ClientInv, ClientInv', StoreInv, NEW id \in Id, StopAllocation(id) PROVE StoreInv'
<1> USE DEF StoreInv
<1>1. /\ pc = "ready" /\ pc' = "stop.put" /\ cur' = id /\ phase = "stop" /\ phase' = "stop"
      /\ todo[id] # Absent /\ Stop(todo[id].ip)
      /\ rec' = [todo[id] EXCEPT !.state = "Stopped"]
      /\ todo' = [todo EXCEPT ![id] = Absent]
      /\ UNCHANGED <<alloc, events>>
  BY DEF StopAllocation, Idle, store
<1>2. /\ todo[id] \in Record /\ Complete(todo[id]) /\ todo[id].state = "Bound"
      /\ \A x \in Id : todo'[x] \in {todo[x], Absent}
  BY <1>1 DEF CompleteInv, StageInv, ClientInv, TypeInv, RecordsOK
<1>3. rec'.state = "Stopped" /\ rec'.mac = todo[id].mac /\ Complete(rec')
  BY <1>1, <1>2 DEF Complete, Record, Allocation
<1>4. \A x \in Id : client'[x] = Absent \/ SameClient(x)
  BY <1>1, StopShrinks DEF SameClient, ClientInv
<1>5. CompleteInv'
  BY <1>1, <1>2, <1>4 DEF CompleteInv, SameClient
<1>6. HandlerInv' /\ StageInv'
  <2>1. HandlerInv'
    BY <1>1, <1>3 DEF HandlerInv, Starting, Waiting, Complete
  <2>2. StageInv'
    BY <1>1, <1>2 DEF StageInv, Starting, Waiting
  <2> QED
    BY <2>1, <2>2
<1>7. UnsetInv'
  BY <1>1, <1>2, <1>4 DEF UnsetInv, Unset, Settled, CreateAt, Starting, SameClient
<1>8. \A x \in Id, m \in MAC \cup {HostMAC} : Claim(x, m)' => Claim(x, m)
  BY <1>1, <1>2, <1>3, <1>4 DEF Claim, SameClient
<1> QED
  BY <1>5, <1>6, <1>7, <1>8 DEF ClaimInv, HostInv

-----------------------------------------------------------------------------
(* The thread takes up an allocation that is unbound or stopped.             *)

LEMMA BeginKeepsStore ==
  ASSUME ClientInv, StoreInv, NEW id \in Id, NEW a \in Record, Complete(a),
         a.state \in {"Unbound", "Stopped"},
         pc = "ready", cur' = id, rec' = a,
         a.state = "Unbound" => pc' \in {"popmac.get", "device"} /\ Unset(id),
         a.state = "Stopped" =>
           pc' = "device" /\ (ManageInterfaces => hand' = a.mac) /\ Settled(id)
           /\ Claim(id, a.mac) /\ phase # "watch",
         phase \in {"converge", "watch"}, phase' = phase,
         alloc' = alloc, client' = client,
         \A x \in Id : todo'[x] \in {todo[x], Absent}, phase = "watch" => todo' = todo,
         \A i \in 1..Len(events') : \E j \in 1..Len(events) : events'[i] = events[j]
  PROVE  StoreInv'
<1> USE DEF StoreInv
<1>1. CompleteInv'
  BY DEF CompleteInv
<1>2. HandlerInv'
  BY DEF HandlerInv, Starting, Waiting
<1>3. StageInv'
  BY DEF StageInv, Starting, Waiting
<1>4. UnsetInv'
  <2>1. \A x \in Id : (Unset(x) => Unset(x)') /\ (Settled(x) => Settled(x)')
    BY DEF Unset, Settled
  <2>2. ASSUME NEW x \in Id, NEW i \in 1..Len(events'), CreateAt(i, x)'
        PROVE  Unset(x)'
    <3>1. PICK j \in 1..Len(events) : events'[i] = events[j]
      OBVIOUS
    <3> QED
      BY <2>1, <2>2, <3>1 DEF UnsetInv, CreateAt
  <2> QED
    BY <2>1, <2>2 DEF UnsetInv, Unset, Settled, Starting
<1>5. \A x \in Id, m \in MAC \cup {HostMAC} : Claim(x, m)' => Claim(x, m)
  BY DEF Claim, Complete
<1> QED
  BY <1>1, <1>2, <1>3, <1>4, <1>5 DEF ClaimInv, HostInv

LEMMA ConvergeUnboundKeepsStore ==
  ASSUME ClientInv, ClientInv', StoreInv, NEW id \in Id, ConvergeUnbound(id)
  PROVE  StoreInv'
<1>1. /\ pc = "ready" /\ pc' \in {"popmac.get", "device"} /\ cur' = id /\ rec' = todo[id]
      /\ phase = "converge" /\ phase' = phase
      /\ todo[id] # Absent /\ todo[id].state = "Unbound"
      /\ todo' = [todo EXCEPT ![id] = Absent]
      /\ UNCHANGED <<alloc, events, client>>
  BY DEF ConvergeUnbound, ConvergeOn, BeginUnbound, Idle, store, dhcp
<1>2. /\ todo[id] \in Record /\ \A x \in Id : todo'[x] \in {todo[x], Absent}
  BY <1>1 DEF ClientInv, TypeInv, RecordsOK
<1>3. Complete(todo[id]) /\ Unset(id)
  BY <1>1 DEF StoreInv, CompleteInv, UnsetInv
<1> QED
  BY <1>1, <1>2, <1>3, BeginKeepsStore

LEMMA ConvergeStoppedKeepsStore ==
  ASSUME ClientInv, ClientInv', StoreInv, NEW id \in Id, ConvergeStopped(id)
  PROVE  StoreInv'
<1>1. /\ pc = "ready" /\ pc' = "device" /\ cur' = id /\ rec' = todo[id]
      /\ ManageInterfaces => hand' = todo[id].mac
      /\ phase = "converge" /\ phase' = phase
      /\ todo[id] # Absent /\ todo[id].state = "Stopped"
      /\ todo' = [todo EXCEPT ![id] = Absent]
      /\ UNCHANGED <<alloc, events, client>>
  BY DEF ConvergeStopped, ConvergeOn, BeginStopped, Idle, store, dhcp
<1>2. /\ todo[id] \in Record /\ \A x \in Id : todo'[x] \in {todo[x], Absent}
  BY <1>1 DEF ClientInv, TypeInv, RecordsOK
<1>3. Complete(todo[id]) /\ Settled(id)
  BY <1>1 DEF StoreInv, CompleteInv, UnsetInv
<1>4. Claim(id, todo[id].mac)
  BY <1>1, <1>3 DEF Claim, Complete
<1> QED
  BY <1>1, <1>2, <1>3, <1>4, BeginKeepsStore

LEMMA OnCreateKeepsStore ==
  ASSUME ClientInv, ClientInv', StoreInv, OnCreate PROVE StoreInv'
<1>1. /\ pc = "ready" /\ phase = "watch" /\ phase' = phase
      /\ events # << >> /\ events' = Tail(events) /\ Head(events).kind = "create"
      /\ UNCHANGED <<alloc, client, todo>>
  BY DEF OnCreate, NextEvent, Idle, dhcp, process
<1>2. /\ events \in Seq(RecordEvent)
      /\ Head(events).id \in Id /\ Head(events).val \in Record
  BY <1>1, FirstEvent DEF ClientInv, TypeInv, RecordsOK
<1>3. /\ Head(events) = events[1] /\ 1 \in 1..Len(events)
      /\ \A i \in 1..Len(events') : \E j \in 1..Len(events) : events'[i] = events[j]
  <2>1. Len(events) \in Nat \ {0} /\ Len(events') = Len(events) - 1
        /\ \A i \in 1..Len(events') : events'[i] = events[i + 1]
    BY <1>1, <1>2
  <2> QED
    BY <1>1, <1>2, <2>1
<1>4. Complete(Head(events).val)
  BY <1>1, <1>3 DEF StoreInv, CompleteInv
<1>5. CASE Head(events).val.state = "Unbound"
  <2>1. pc' \in {"popmac.get", "device"} /\ cur' = Head(events).id
        /\ rec' = Head(events).val
    BY <1>5 DEF OnCreate, BeginUnbound
  <2>2. Unset(Head(events).id)
    BY <1>1, <1>2, <1>3, <1>5 DEF StoreInv, UnsetInv, CreateAt
  <2> QED
    BY <1>1, <1>2, <1>3, <1>4, <1>5, <2>1, <2>2, BeginKeepsStore
<1>6. CASE Head(events).val.state # "Unbound"
  <2>1. pc' = "ready" /\ UNCHANGED thread
    BY <1>1, <1>6 DEF OnCreate, thread
  <2>2. Shrinks
    BY <1>1, <1>3 DEF Shrinks, SameClient
  <2>3. Calms /\ StageInv'
    BY <1>1, <2>1 DEF Calms, StageInv, StoreInv, Starting, Waiting
  <2> QED
    BY <2>2, <2>3, ShrinkingKeepsStore
<1> QED
  BY <1>5, <1>6

-----------------------------------------------------------------------------
(* The client of the allocation in hand is started, gets its lease, renews it. *)

LEMMA DeviceReadyKeepsStore ==
  ASSUME ClientInv, ClientInv', StoreInv, NEW m \in MAC \cup {HostMAC}, DeviceReady(m)
  PROVE  StoreInv'
<1> USE DEF StoreInv
<1> DEFINE c == [al |-> rec, ip |-> NoIP, mac |-> m, cb |-> Absent]
<1>1. /\ pc = "device" /\ pc' = "bind" /\ hand' = m /\ cur' = cur /\ rec' = rec
      /\ phase' = phase /\ todo' = todo /\ alloc' = alloc /\ events' = events
      /\ client' = [client EXCEPT ![cur] = c]
  BY DEF DeviceReady, StartClient, store, process
<1>2. /\ cur \in Id /\ rec \in Record /\ hand \in MAC \cup {NoMAC}
      /\ client \in [Id -> RecordClient \cup {Absent}] /\ client[cur] = Absent
  BY <1>1 DEF ClientInv, TypeInv, ThreadOK, RecordsOK, ThreadInv, Starting
<1>3. /\ client'[cur] = c /\ c.al = rec /\ c.mac = m /\ c.cb = Absent /\ c.ip = NoIP
      /\ \A x \in Id \ {cur} : client'[x] = client[x]
  BY <1>1, <1>2
<1> HIDE DEF c
<1>4. Complete(rec) /\ rec.state \in {"Unbound", "Stopped"}
  BY <1>1 DEF HandlerInv, Starting
<1>5. rec.state = "Stopped" => rec.mac = m /\ Claim(cur, m)
  <2>1. rec.state = "Stopped" => Claim(cur, rec.mac)
    BY <1>1, <1>4 DEF Claim, Complete
  <2>2. CASE ManageInterfaces
    BY <1>1, <1>4, <2>1, <2>2 DEF DeviceReady, HandlerInv, Complete
  <2>3. CASE ~ManageInterfaces
    <3>1. m = HostMAC
      BY <2>3 DEF DeviceReady
    <3>2. rec.state = "Stopped" => rec.mac \in MAC \cup {HostMAC}
      BY <1>2, <1>4 DEF Complete, Record, Allocation
    <3>3. rec.state = "Stopped" => rec.mac \notin MAC
      BY <1>2, <2>1, <2>3 DEF HostInv
    <3> QED
      BY <2>1, <3>1, <3>2, <3>3
  <2> QED
    BY <2>2, <2>3
<1>6. rec.state = "Unbound" => Unset(cur) /\ todo[cur] = Absent
  <2>1. rec.state = "Unbound" => Unset(cur)
    BY <1>1 DEF UnsetInv, Starting
  <2>2. phase = "converge" => todo[cur] = Absent
    BY <1>1, <1>2 DEF ClientInv, TodoInv, Starting
  <2>3. phase \in {"down", "register", "watch"} => todo[cur] = Absent
    BY <1>2 DEF StageInv, NoRecords
  <2>4. phase # "stop"
    BY <1>1 DEF StageInv
  <2> QED
    BY <2>1, <2>2, <2>3, <2>4 DEF ClientInv, TypeInv, ScalarsOK
<1>7. CompleteInv'
  <2>1. \A x \in Id : client'[x] # Absent =>
            /\ Complete(client'[x].al)
            /\ client'[x].al.state # "Unbound" => client'[x].al.mac = client'[x].mac
            /\ client'[x].cb # Absent =>
                 client'[x].cb = client'[x].al /\ client'[x].cb.ip # NoIP
    BY <1>3, <1>4, <1>5 DEF CompleteInv
  <2> QED
    BY <1>1, <2>1 DEF CompleteInv
<1>8. HandlerInv' /\ StageInv'
  <2>1. HandlerInv'
    BY <1>1, <1>3, <1>4 DEF HandlerInv, Starting, Waiting
  <2>2. StageInv'
    BY <1>1 DEF StageInv, Starting, Waiting
  <2> QED
    BY <2>1, <2>2
<1>9. UnsetInv'
  <2>1. \A x \in Id : (Unset(x)' <=> Unset(x)) /\ (Settled(x)' <=> Settled(x))
    BY <1>1 DEF Unset, Settled
  <2>2. rec.state = "Stopped" => Settled(cur)
    BY <1>1 DEF UnsetInv
  <2>3. ASSUME NEW x \in Id, client'[x] # Absent
        PROVE  /\ client'[x].al.state = "Unbound" => Unset(x)
               /\ client'[x].al.state = "Stopped" => Settled(x)
    <3>1. CASE x = cur
      BY <1>3, <1>6, <2>2, <3>1
    <3>2. CASE x # cur
      BY <1>3, <2>3, <3>2 DEF UnsetInv
    <3> QED
      BY <3>1, <3>2
  <2> QED
    BY <1>1, <2>1, <2>3 DEF UnsetInv, CreateAt, Starting
<1>10. ASSUME NEW x \in Id, NEW n \in MAC \cup {HostMAC}, Claim(x, n)'
       PROVE  Claim(x, n) \/ (x = cur /\ n = m)
  BY <1>1, <1>3, <1>10 DEF Claim
<1>11. ASSUME NEW n \in MAC \cup {HostMAC}, Claim(cur, n) PROVE n = m
  <2>1. CASE rec.state = "Stopped"
    BY <1>2, <1>5, <1>11, <2>1 DEF ClaimInv
  <2>2. CASE rec.state = "Unbound"
    BY <1>1, <1>2, <1>4, <1>6, <1>11, <2>2 DEF Claim, CompleteInv, Complete, Unset
  <2> QED
    BY <1>4, <2>1, <2>2
<1>12. ClaimInv'
  BY <1>10, <1>11 DEF ClaimInv
<1>13. HostInv'
  <2>1. ~ManageInterfaces => m \notin MAC
    BY NullsAreNotValues DEF DeviceReady
  <2> QED
    BY <1>10, <2>1 DEF HostInv
<1> QED
  BY <1>7, <1>8, <1>9, <1>12, <1>13

LEMMA BoundKeepsStore ==
  ASSUME ClientInv, ClientInv', StoreInv, NEW ip \in IP, Bound(ip), ~AlreadyManaged(ip)
  PROVE  StoreInv'
<1> USE DEF StoreInv
<1> DEFINE a == WithLease(ip)
           c == [al |-> a, ip |-> a.ip, mac |-> hand, cb |-> Absent]
<1>1. /\ pc = "bind" /\ pc' \in {"removemac", "put"} /\ rec' = a
      /\ UNCHANGED <<cur, hand, alloc, events, phase, todo>>
      /\ client' = [client EXCEPT ![cur] = c]
  BY DEF Bound, Become, store, process
<1>2. /\ cur \in Id /\ hand \in MAC \cup {HostMAC} /\ hand # NoMAC
      /\ client \in [Id -> RecordClient \cup {Absent}] /\ client[cur] # Absent
  BY <1>1, NullsAreNotValues DEF ClientInv, TypeInv, ThreadOK, RecordsOK, ScalarsOK
<1>3. /\ client'[cur] = c /\ c.al = a /\ c.mac = hand /\ c.cb = Absent
      /\ \A x \in Id \ {cur} : client'[x] = client[x]
  BY <1>1, <1>2
<1>4. a.state = "Bound" /\ a.mac = hand /\ Complete(a)
  BY <1>2, NullsAreNotValues DEF WithLease, Complete
<1>0. c # Absent
  <2>1. a \in Record
    BY <1>1, <1>2, RecordFields DEF WithLease, ClientInv, TypeInv, ThreadOK
  <2>2. c \in RecordClient
    BY <1>2, <2>1 DEF RecordClient, WithLease
  <2> QED
    BY <2>2, NullsAreNotRecords
<1> HIDE DEF a, c
<1>5. CompleteInv'
  <2>1. \A x \in Id : client'[x] # Absent =>
            /\ Complete(client'[x].al)
            /\ client'[x].al.state # "Unbound" => client'[x].al.mac = client'[x].mac
            /\ client'[x].cb # Absent =>
                 client'[x].cb = client'[x].al /\ client'[x].cb.ip # NoIP
    BY <1>3, <1>4 DEF CompleteInv
  <2> QED
    BY <1>1, <2>1 DEF CompleteInv
<1>6. HandlerInv'
  BY <1>0, <1>1, <1>3, <1>4 DEF HandlerInv, Starting, Waiting
<1>7. StageInv'
  BY <1>1 DEF StageInv, Starting, Waiting
<1>8. UnsetInv'
  <2>1. \A x \in Id : (Unset(x)' <=> Unset(x)) /\ (Settled(x)' <=> Settled(x))
    BY <1>1 DEF Unset, Settled
  <2>2. \A x \in Id : client'[x] # Absent =>
               /\ client'[x].al.state = "Unbound" => Unset(x)
               /\ client'[x].al.state = "Stopped" => Settled(x)
    BY <1>3, <1>4 DEF UnsetInv
  <2> QED
    BY <1>1, <2>1, <2>2 DEF UnsetInv, CreateAt, Starting
<1>9. client[cur].mac = hand
  BY <1>1 DEF HandlerInv, Waiting
<1>10. \A x \in Id, n \in MAC \cup {HostMAC} : Claim(x, n)' => Claim(x, n)
  BY <1>1, <1>2, <1>3, <1>9 DEF Claim
<1> QED
  BY <1>5, <1>6, <1>7, <1>8, <1>10 DEF ClaimInv, HostInv

LEMMA RenewKeepsStore ==
  ASSUME ClientInv, ClientInv', StoreInv, NEW id \in Id, NEW ip \in IP, Renew(id, ip)
  PROVE  StoreInv'
<1> USE DEF StoreInv
<1> DEFINE a == [client[id].al EXCEPT !.ip = ip]
           c == [al |-> a, ip |-> ip, mac |-> client[id].mac, cb |-> a]
<1>1. /\ client[id] # Absent /\ client' = [client EXCEPT ![id] = c]
      /\ UNCHANGED <<pc, cur, rec, hand, alloc, events, phase, todo>>
  BY DEF Renew, OnRenew, Running, store, thread, process
<1>2. client[id] \in RecordClient /\ client[id].al \in Record
      /\ client \in [Id -> RecordClient \cup {Absent}]
  BY <1>1 DEF ClientInv, TypeInv, RecordsOK, RecordClient
<1>3. /\ a.state = client[id].al.state /\ a.mac = client[id].al.mac /\ a.ip = ip
      /\ ip # NoIP
  BY <1>2, NullsAreNotValues DEF Record, Allocation
<1>4. /\ client'[id] = c /\ c.al = a /\ c.mac = client[id].mac /\ c.cb = a
      /\ \A x \in Id \ {id} : client'[x] = client[x]
  BY <1>1, <1>2
<1>5. c # Absent
  <2>1. a \in Record
    BY <1>2, RecordFields
  <2>2. c \in RecordClient
    BY <1>2, <2>1 DEF RecordClient
  <2> QED
    BY <2>2, NullsAreNotRecords
<1> HIDE DEF a, c
<1>6. CompleteInv'
  <2>1. Complete(a)
    BY <1>1, <1>3 DEF CompleteInv, Complete
  <2>2. \A x \in Id : client'[x] # Absent =>
            /\ Complete(client'[x].al)
            /\ client'[x].al.state # "Unbound" => client'[x].al.mac = client'[x].mac
            /\ client'[x].cb # Absent =>
                 client'[x].cb = client'[x].al /\ client'[x].cb.ip # NoIP
    BY <1>1, <1>3, <1>4, <2>1 DEF CompleteInv
  <2> QED
    BY <1>1, <2>2 DEF CompleteInv
<1>7. HandlerInv'
  <2>1. \A x \in Id : client[x] # Absent =>
          /\ client'[x] # Absent /\ client'[x].mac = client[x].mac
          /\ client'[x].al.state = client[x].al.state
    BY <1>3, <1>4, <1>5
  <2> QED
    BY <1>1, <2>1, NeededIsThere DEF HandlerInv, Complete, Starting, Waiting
<1>8. StageInv'
  BY <1>1 DEF StageInv
<1>9. UnsetInv'
  <2>1. \A x \in Id : (Unset(x)' <=> Unset(x)) /\ (Settled(x)' <=> Settled(x))
    BY <1>1 DEF Unset, Settled
  <2>2. \A x \in Id : client'[x] # Absent =>
               /\ client'[x].al.state = "Unbound" => Unset(x)
               /\ client'[x].al.state = "Stopped" => Settled(x)
    BY <1>1, <1>3, <1>4 DEF UnsetInv
  <2> QED
    BY <1>1, <2>1, <2>2 DEF UnsetInv, CreateAt, Unset, Settled
<1>10. \A x \in Id, n \in MAC \cup {HostMAC} : Claim(x, n)' => Claim(x, n)
  BY <1>1, <1>4 DEF Claim
<1> QED
  BY <1>6, <1>7, <1>8, <1>9, <1>10 DEF ClaimInv, HostInv

-----------------------------------------------------------------------------
(* The invariant is inductive. *)

LEMMA StoreInvStarts == Init => StoreInv
<1> SUFFICES ASSUME Init PROVE StoreInv
  OBVIOUS
<1>1. /\ \A id \in Id : alloc[id] = Absent /\ client[id] = Absent /\ todo[id] = Absent
      /\ todo = NoRecords /\ 1..Len(events) = {} /\ pc = "ready" /\ phase = "down"
  BY DEF Init, StoreInit, DHCPInit, NoRecords
<1>2. CompleteInv /\ HandlerInv /\ StageInv
  BY <1>1 DEF CompleteInv, HandlerInv, StageInv, Starting, Waiting
<1>3. UnsetInv
  BY <1>1 DEF UnsetInv, Starting, Unset
<1>4. ClaimInv /\ HostInv
  BY <1>1 DEF ClaimInv, HostInv, Claim
<1> QED
  BY <1>2, <1>3, <1>4 DEF StoreInv

LEMMA StoreInvIsInductive == ClientInv /\ StoreInv /\ [Next]_vars => StoreInv'
<1> SUFFICES ASSUME ClientInv, StoreInv, [Next]_vars PROVE StoreInv'
  OBVIOUS
<1>1. ClientInv'
  BY ClientInvIsInductive
<1>2. Quiet => StoreInv'
  BY <1>1, ShrinkingKeepsStore DEF Quiet
<1>3. CASE Startup
  BY <1>1, <1>2, <1>3, QuietActions, ConvergeKeepsStore, ConvergeUnboundKeepsStore,
     ConvergeStoppedKeepsStore
  DEF Startup
<1>4. CASE Handler
  BY <1>1, <1>2, <1>4, QuietActions, OnCreateKeepsStore, DeviceReadyKeepsStore,
     BoundKeepsStore, PutBoundKeepsStore
  DEF Handler
<1>5. CASE Shutdown
  BY <1>1, <1>2, <1>5, QuietActions, BeginStopKeepsStore, StopAllocationKeepsStore,
     PutStoppedKeepsStore
  DEF Shutdown
<1>6. CASE Clients
  BY <1>1, <1>6, RenewKeepsStore, WriteRenewalKeepsStore DEF Clients
<1>7. CASE Failures
  BY <1>1, <1>2, <1>7, QuietActions DEF Failures
<1>8. CASE Environment
  BY <1>1, <1>2, <1>8, QuietActions, ObtainIPKeepsStore DEF Environment
<1>9. CASE UNCHANGED vars
  <2>1. Shrinks
    BY <1>9, SameQueueShrinks DEF Shrinks, SameClient, vars, store, dhcp, process
  <2>2. Calms
    BY <1>9, NeededIsThere DEF Calms, vars, dhcp, thread
  <2>3. StageInv'
    BY <1>9 DEF StageInv, StoreInv, vars, thread, process
  <2> QED
    BY <1>2, <2>1, <2>2, <2>3 DEF Quiet
<1> QED
  BY <1>3, <1>4, <1>5, <1>6, <1>7, <1>8, <1>9 DEF Next

LEMMA StoreInvHolds == Spec => [](ClientInv /\ StoreInv)
<1>1. Init => ClientInv /\ StoreInv
  BY ClientInvStarts, StoreInvStarts
<1>2. (ClientInv /\ StoreInv) /\ [Next]_vars => (ClientInv /\ StoreInv)'
  BY ClientInvIsInductive, StoreInvIsInductive
<1> QED
  BY <1>1, <1>2, PTL DEF Spec

-----------------------------------------------------------------------------

\* What the API server, the UI and the load balancer read is complete at any moment: a
\* bound or stopped allocation has a lease and an interface, an unbound one has no
\* interface.  The record is encoded long before it is written, and a callback writes it
\* although the thread does at the same time (controller.go:93-98, 149-151, 219).
THEOREM StoredRecordsAreComplete == Spec => []StoredIsComplete
<1>1. StoreInv => StoredIsComplete
  BY DEF StoreInv, CompleteInv, Complete, StoredIsComplete
<1> QED
  BY <1>1, StoreInvHolds, PTL

-----------------------------------------------------------------------------
(* The refinement: most steps leave the records alone, some remove one, four *)
(* kinds of step store one.                                                  *)

Removes(id) == RemoveAllocation(id) /\ issued' = issued

LEMMA StepsOfTheStore ==
  ASSUME ClientInv, [Next]_vars
  PROVE  \/ UNCHANGED <<alloc, issued>>
         \/ \E id \in Id : Removes(id)
         \/ PutBound \/ PutStopped
         \/ \E id \in Id : WriteRenewal(id) \/ ObtainIP(id)
<1> USE DEF store, api, Fault, SetPool, Halt
<1>1. CASE Startup
  BY <1>1 DEF Startup, Boot, Converge, StartWatch, RegisterMAC, ConvergeOn,
     ConvergeUnbound, ConvergeStopped, ConvergeDelete, ConvergeBound
<1>2. CASE Handler
  <2>1. RemoveUnbound => Removes(cur) /\ cur \in Id
    BY DEF RemoveUnbound, Removes, ClientInv, TypeInv, ThreadOK
  <2>2. OnCreate \/ OnDelete => UNCHANGED <<alloc, issued>>
    BY DEF OnCreate, OnDelete, NextEvent
  <2>3. PopMACGet \/ PopMACDelete \/ PopMACEmpty \/ BindTimeout \/ BindStop \/ RemoveMAC
          => UNCHANGED <<alloc, issued>>
    BY DEF PopMACGet, PopMACDelete, PopMACEmpty, BindTimeout, BindStop, RemoveMAC
  <2>4. /\ \A m \in MAC \cup {HostMAC} : DeviceReady(m) => UNCHANGED <<alloc, issued>>
        /\ \A ip \in IP : Bound(ip) => UNCHANGED <<alloc, issued>>
    BY DEF DeviceReady, Bound
  <2>5. PutMACCheck \/ PutMACWrite \/ RemoveDevice => UNCHANGED <<alloc, issued>>
    BY DEF PutMACCheck, PutMACWrite, RemoveDevice
  <2> QED
    BY <1>2, <2>1, <2>2, <2>3, <2>4, <2>5 DEF Handler
<1>3. CASE Shutdown
  BY <1>3 DEF Shutdown, BeginStop, Exit, StopAllocation
<1>4. CASE Clients
  BY <1>4 DEF Clients, Renew
<1>5. CASE Failures
  BY <1>5 DEF Failures, Crash, PopMACFails, DeviceFails, RequestFails, RenewFails
<1>6. CASE Environment
  BY <1>6 DEF Environment, ReturnIP, Expire, AdminCheck, AdminRemove, AdminWrite, Removes
<1>7. CASE UNCHANGED vars
  BY <1>7 DEF vars
<1> QED
  BY <1>1, <1>2, <1>3, <1>4, <1>5, <1>6, <1>7 DEF Next

\* A hardware address that is claimed for id is the one of its record.
LEMMA ClaimedIsKept ==
  ASSUME ClientInv, StoreInv, NEW id \in Id, NEW m \in MAC \cup {HostMAC}, Claim(id, m)
  PROVE  Store!Keeps(id, m)
<1>1. CASE alloc[id] # Absent /\ alloc[id].mac # NoMAC
  <2>1. alloc[id].mac \in MAC \cup {HostMAC}
    BY <1>1 DEF ClientInv, TypeInv, RecordsOK, Record, Allocation
  <2>2. Claim(id, alloc[id].mac)
    BY <1>1 DEF Claim
  <2> QED
    BY <2>1, <2>2 DEF StoreInv, ClaimInv, Store!Keeps
<1> QED
  BY <1>1 DEF Store!Keeps, Store!Gone

\* A record as it is written.
LEMMA RecordIsItsFields ==
  ASSUME NEW a \in Record
  PROVE  a = [state |-> a.state, ip |-> a.ip, mac |-> a.mac]
BY DEF Record, Allocation

LEMMA PutIsAStep ==
  ASSUME ClientInv, StoreInv, NEW id \in issued, NEW a \in Record,
         PutAllocation(id, a), Complete(a), a.ip # NoIP,
         a.mac = NoMAC \/ Claim(id, a.mac),
         a.state = "Unbound" => Unset(id), a.state = "Stopped" => Settled(id),
         issued' = issued
  PROVE  Store!Next
<1>1. id \in Id
  BY DEF ClientInv, TypeInv, ScalarsOK
<1>2. a.ip \in IP /\ a.mac \in MAC \cup {HostMAC, NoMAC}
  BY DEF Record, Allocation
<1>3. Store!Write(id, a.state, a.ip, a.mac)
  BY RecordIsItsFields DEF PutAllocation, Store!Write
<1>4. CASE a.state = "Unbound"
  <2>1. Store!Offer(id, a.ip)
    BY <1>3, <1>4 DEF Store!Offer, Store!Gone, Store!Is, Unset, Complete
  <2> QED
    BY <1>1, <1>2, <2>1 DEF Store!Next
<1>5. CASE a.state # "Unbound"
  <2>1. a.mac \in MAC \cup {HostMAC} /\ Store!Keeps(id, a.mac)
    BY <1>1, <1>2, <1>5, ClaimedIsKept DEF Complete
  <2>2. CASE a.state = "Bound"
    <3>1. Store!Bind(id, a.ip, a.mac)
      BY <1>3, <2>1, <2>2 DEF Store!Bind
    <3> QED
      BY <1>1, <1>2, <2>1, <3>1 DEF Store!Next
  <2>3. CASE a.state = "Stopped"
    <3>1. Store!Suspend(id, a.ip, a.mac)
      BY <1>3, <2>1, <2>3 DEF Store!Suspend, Store!Is, Store!Gone, Settled
    <3> QED
      BY <1>1, <1>2, <2>1, <3>1 DEF Store!Next
  <2> QED
    BY <1>5, <2>2, <2>3 DEF Complete
<1> QED
  BY <1>4, <1>5

LEMMA StepIsAStep == ClientInv /\ StoreInv /\ [Next]_vars => [Store!Next]_(Store!vars)
<1> SUFFICES ASSUME ClientInv, StoreInv, [Next]_vars PROVE [Store!Next]_(Store!vars)
  OBVIOUS
<1>1. CASE UNCHANGED <<alloc, issued>>
  BY <1>1 DEF Store!vars
<1>2. ASSUME NEW id \in Id, Removes(id) PROVE [Store!Next]_(Store!vars)
  <2>1. CASE alloc[id] = Absent
    BY <1>2, <2>1 DEF Removes, RemoveAllocation, Store!vars, ClientInv, TypeInv, RecordsOK
  <2>2. CASE alloc[id] # Absent
    <3>1. id \in issued
      BY <2>2 DEF ClientInv, FreshInv
    <3> QED
      BY <1>2, <2>2, <3>1
      DEF Removes, RemoveAllocation, Store!Next, Store!Release, Store!Gone
  <2> QED
    BY <2>1, <2>2
<1>3. ASSUME PutBound PROVE Store!Next
  <2>1. /\ pc = "put" /\ PutAllocation(cur, rec) /\ issued' = issued
        /\ cur \in issued /\ rec \in Record
    BY <1>3, HandledIsIssued DEF PutBound, api, ClientInv, TypeInv, ThreadOK
  <2>2. /\ Complete(rec) /\ rec.state = "Bound" /\ rec.mac = client[cur].mac
        /\ client[cur] # Absent
    BY <2>1 DEF StoreInv, HandlerInv
  <2>3. Claim(cur, rec.mac) /\ rec.ip # NoIP
    BY <2>2 DEF Claim, Complete
  <2> QED
    BY <2>1, <2>2, <2>3, PutIsAStep
<1>4. ASSUME PutStopped PROVE Store!Next
  <2>1. /\ pc = "stop.put" /\ PutAllocation(cur, rec) /\ issued' = issued
        /\ cur \in issued /\ rec \in Record
    BY <1>4, HandledIsIssued DEF PutStopped, api, ClientInv, TypeInv, ThreadOK
  <2>2. Complete(rec) /\ rec.state = "Stopped" /\ Settled(cur)
    BY <2>1 DEF StoreInv, HandlerInv, UnsetInv
  <2>3. Claim(cur, rec.mac) /\ rec.ip # NoIP
    BY <2>1, <2>2 DEF Claim, Complete
  <2> QED
    BY <2>1, <2>2, <2>3, PutIsAStep
<1>5. ASSUME NEW id \in Id, WriteRenewal(id) PROVE Store!Next
  <2>1. RenewPut(id) /\ PutAllocation(id, client[id].cb) /\ issued' = issued
    BY <1>5 DEF WriteRenewal, RenewPut, api
  <2>2. client[id] # Absent /\ id \in issued
    BY <2>1 DEF RenewPut, Running, ClientInv, FreshInv
  <2> QED
    BY <2>1, <2>2, CallbackRecord, PutIsAStep
<1>6. ASSUME NEW id \in Id, ObtainIP(id) PROVE Store!Next
  BY <1>6 DEF ObtainIP, PutAllocation, NewAllocation, Store!Next, Store!Request,
     Store!Write
<1> QED
  BY <1>1, <1>2, <1>3, <1>4, <1>5, <1>6, StepsOfTheStore

\* What the store says of the allocations follows the abstract life of one, whatever
\* crashes, is late or fails, and however renewal callbacks, handlers, removals and
\* shutdowns interleave (model.go:22-34, controller.go:38-157).
THEOREM ControllerImplementsAllocations == Spec => ImplementsAllocations
<1>1. Init => Store!Init
  BY DEF Init, StoreInit, Store!Init
<1>2. ClientInv /\ StoreInv /\ [Next]_vars => [Store!Next]_(Store!vars)
  BY StepIsAStep
<1> QED
  BY <1>1, <1>2, StoreInvHolds, PTL DEF Spec, ImplementsAllocations, Store!Spec

\* A stored allocation that is bound or stopped is never overwritten by the unbound record
\* it began with, which a late callback may still hold (dhcp.go:42-51,
\* controller.go:93-98).
THEOREM BoundIsNotUnbound == Spec => NeverUnbinds
<1> DEFINE Keep == \A id \in Id :
                     alloc[id] # Absent /\ alloc[id].state # "Unbound" /\ alloc'[id] # Absent
                       => alloc'[id].state # "Unbound"
<1>1. ClientInv /\ StoreInv /\ [Next]_vars => Keep
  <2> SUFFICES ASSUME ClientInv, StoreInv, [Next]_vars PROVE Keep
    OBVIOUS
  <2>1. /\ alloc \in [Id -> Record \cup {Absent}]
        /\ \A id \in Id \ issued : alloc[id] = Absent
    BY DEF ClientInv, TypeInv, RecordsOK, FreshInv
  <2>2. CASE Store!Next
    <3>1. PICK id \in Id :
            \/ Store!Request(id)
            \/ /\ id \in issued
               /\ \/ Store!Release(id)
                  \/ \E ip \in IP : Store!Offer(id, ip)
                  \/ \E ip \in IP, mac \in MAC \cup {HostMAC} :
                       Store!Bind(id, ip, mac) \/ Store!Suspend(id, ip, mac)
      BY <2>2 DEF Store!Next
    <3>2. CASE Store!Request(id)
      BY <2>1, <3>2 DEF Store!Request, Store!Write
    <3>3. CASE Store!Release(id)
      BY <2>1, <3>3 DEF Store!Release
    <3>4. ASSUME NEW ip \in IP, Store!Offer(id, ip) PROVE Keep
      BY <2>1, <3>4 DEF Store!Offer, Store!Write, Store!Gone, Store!Is
    <3>5. ASSUME NEW ip \in IP, NEW mac \in MAC \cup {HostMAC},
                 Store!Bind(id, ip, mac) \/ Store!Suspend(id, ip, mac)
          PROVE  Keep
      BY <2>1, <3>5 DEF Store!Bind, Store!Suspend, Store!Write
    <3> QED
      BY <3>1, <3>2, <3>3, <3>4, <3>5
  <2>3. CASE UNCHANGED Store!vars
    BY <2>3 DEF Store!vars
  <2> QED
    BY <2>2, <2>3, StepIsAStep
<1> QED
  BY <1>1, StoreInvHolds, PTL DEF Spec, NeverUnbinds
=============================================================================
