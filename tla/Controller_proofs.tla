------------------------- MODULE Controller_proofs -------------------------
(***************************************************************************)
(* Theorems about Controller for every value of its constants: types, and  *)
(* that no DHCP client is lost, doubled or confused.                       *)
(***************************************************************************)
EXTENDS Controller, TLAPS

-----------------------------------------------------------------------------
(* Type correctness.  TypeOK alone is not inductive: that the pool only ever *)
(* receives elements of MAC depends on where the thread is when it writes.   *)

\* With managed interfaces no record names the parent interface.
Record == {a \in Allocation : ManageInterfaces => a.mac # HostMAC}

RecordEvent == [kind: {"create", "delete"}, id: Id, val: Record]

RecordClient == [al:  Record,
                 ip:  IP \cup {NoIP},
                 mac: MAC \cup {HostMAC},
                 cb:  Record \cup {Absent}]

RecordsOK ==
  /\ alloc \in [Id -> Record \cup {Absent}]
  /\ todo \in [Id -> Record \cup {Absent}]
  /\ events \in Seq(RecordEvent)
  /\ rec \in Record \cup {Absent}
  /\ client \in [Id -> RecordClient \cup {Absent}]

ScalarsOK ==
  /\ pool \in SUBSET MAC /\ watching \in BOOLEAN
  /\ clients \in [IP -> Id \cup {Absent}]
  /\ devices \in SUBSET (Id \X MAC)
  /\ phase \in {"down", "register", "converge", "watch", "stop"}
  /\ pc \in PC
  /\ cur \in Id \cup {Absent}
  /\ hand \in MAC \cup {HostMAC, NoMAC}
  /\ unreg \in SUBSET MAC
  /\ boots \in 0..MaxBoots /\ faults \in 0..MaxFaults
  /\ issued \in SUBSET Id
  /\ adminMac \in MAC \cup {NoMAC}

ThreadOK ==
  /\ pc \notin {"ready", "putmac.check", "putmac.write"} => cur \in Id /\ rec \in Record
  /\ pc \in {"popmac.delete", "putmac.check", "putmac.write", "recover.check",
             "recover.write"} => hand \in MAC
  /\ pc = "device" => hand \in MAC \cup {NoMAC}
  /\ pc \in {"bind", "bindstop", "removemac"} =>
       /\ client[cur] # Absent
       /\ hand # NoMAC
       /\ ManageInterfaces => hand # HostMAC

TypeInv == RecordsOK /\ ScalarsOK /\ ThreadOK

-----------------------------------------------------------------------------
(* What the requests to the store do to the records. *)

LEMMA PutRecord ==
  ASSUME NEW id \in Id, NEW a \in Record, RecordsOK, PutAllocation(id, a)
  PROVE  /\ alloc' \in [Id -> Record \cup {Absent}]
         /\ events' \in Seq(RecordEvent)
         /\ pool' = pool /\ watching' = watching
<1> DEFINE e == [kind |-> "create", id |-> id, val |-> a]
<1>1. e \in RecordEvent
  BY DEF RecordEvent
<1>2. Append(events, e) \in Seq(RecordEvent)
  BY <1>1 DEF RecordsOK
<1> QED
  BY <1>2 DEF PutAllocation, Notified, RecordsOK

LEMMA RemoveRecord ==
  ASSUME NEW id \in Id, RecordsOK, RemoveAllocation(id)
  PROVE  /\ alloc' \in [Id -> Record \cup {Absent}]
         /\ events' \in Seq(RecordEvent)
         /\ pool' = pool /\ watching' = watching
<1> DEFINE e == [kind |-> "delete", id |-> id, val |-> alloc[id]]
<1>1. alloc[id] # Absent => e \in RecordEvent
  BY DEF RecordEvent, RecordsOK
<1>2. alloc[id] # Absent => Append(events, e) \in Seq(RecordEvent)
  BY <1>1 DEF RecordsOK
<1> QED
  BY <1>2 DEF RemoveAllocation, Notified, RecordsOK

LEMMA FirstEvent ==
  ASSUME RecordsOK, events # << >>
  PROVE  /\ Head(events) \in RecordEvent
         /\ Tail(events) \in Seq(RecordEvent)
         /\ Head(events).id \in Id
         /\ Head(events).val \in Record
<1>1. Head(events) \in RecordEvent /\ Tail(events) \in Seq(RecordEvent)
  BY DEF RecordsOK
<1> QED
  BY <1>1 DEF RecordEvent

LEMMA NullsAreNotRecords ==
  /\ Absent \notin Id /\ Absent \notin Record /\ Absent \notin RecordClient
BY NullsAreNotValues, AbsentIsNotAClient DEF Record, RecordClient, Client

\* A client of id is started or changes.
LEMMA ClientChanges ==
  ASSUME NEW id \in Id, NEW c \in RecordClient, RecordsOK,
         client' = [client EXCEPT ![id] = c]
  PROVE  /\ client' \in [Id -> RecordClient \cup {Absent}]
         /\ client'[id] = c /\ c # Absent
         /\ \A other \in Id \ {id} : client'[other] = client[other]
BY NullsAreNotRecords DEF RecordsOK

\* The fields of a record, and the records that the code builds from one.
LEMMA RecordFields ==
  /\ \A a \in Record :
       /\ a.state \in AllocationState /\ a.ip \in IP \cup {NoIP}
       /\ a.mac \in MAC \cup {HostMAC, NoMAC}
       /\ ManageInterfaces => a.mac # HostMAC
       /\ \A ip \in IP : [a EXCEPT !.ip = ip] \in Record
       /\ [a EXCEPT !.state = "Stopped"] \in Record
  /\ \A ip \in IP, m \in MAC \cup {HostMAC} :
       (ManageInterfaces => m # HostMAC)
         => [state |-> "Bound", ip |-> ip, mac |-> m] \in Record
  /\ NewAllocation \in Record
BY NullsAreNotValues DEF Record, Allocation, AllocationState, NewAllocation

\* DHCPController.Stop.
LEMMA StopKeepsTypes ==
  ASSUME NEW ip \in IP \cup {NoIP}, RecordsOK, Stop(ip),
         clients \in [IP -> Id \cup {Absent}]
  PROVE  /\ client' \in [Id -> RecordClient \cup {Absent}]
         /\ clients' \in [IP -> Id \cup {Absent}]
BY DEF Stop, StopClient, RecordsOK

\* The end of the process.
LEMMA HaltKeepsTypes == TypeInv /\ Halt => TypeInv'
<1> SUFFICES ASSUME TypeInv, Halt PROVE TypeInv'
  OBVIOUS
<1>1. RecordsOK'
  BY DEF Halt, Return, NoRecords, TypeInv, RecordsOK
<1>2. ThreadOK' /\ pc' \in PC
  BY DEF Halt, Return, ThreadOK, PC
<1>3. watching' \in BOOLEAN /\ clients' \in [IP -> Id \cup {Absent}]
  BY DEF Halt
<1> HIDE DEF PC
<1>4. ScalarsOK'
  BY <1>2, <1>3 DEF Halt, Return, TypeInv, ScalarsOK, api
<1> QED
  BY <1>1, <1>2, <1>4 DEF TypeInv

-----------------------------------------------------------------------------

LEMMA StartupKeepsTypes == TypeInv /\ Startup => TypeInv'
<1> SUFFICES ASSUME TypeInv, Startup PROVE TypeInv'
  OBVIOUS
<1> USE NullsAreNotValues, NullsAreNotRecords, ConfigurationAssumption
      DEF TypeInv, RecordsOK, ScalarsOK, ThreadOK, PC, store, dhcp, thread, process, api
<1>1. ASSUME Boot PROVE TypeInv'
  BY <1>1 DEF Boot
<1>2. ASSUME Converge PROVE TypeInv'
  BY <1>2 DEF Converge, Idle
<1>3. ASSUME StartWatch PROVE TypeInv'
  BY <1>3 DEF StartWatch, Idle, NoRecords
<1>4. ASSUME NEW m \in MAC, RegisterMAC(m) PROVE TypeInv'
  BY <1>4, NoMAC \notin MAC DEF RegisterMAC, Idle
<1>5. ASSUME NEW id \in Id, ConvergeUnbound(id) PROVE TypeInv'
  BY <1>5 DEF ConvergeUnbound, ConvergeOn, BeginUnbound, Idle
<1>6. ASSUME NEW id \in Id, ConvergeStopped(id) PROVE TypeInv'
  <2>1. todo[id] \in Record /\ hand' \in MAC \cup {NoMAC}
    BY <1>6, RecordFields DEF ConvergeStopped, ConvergeOn, BeginStopped
  <2> QED
    BY <1>6, <2>1 DEF ConvergeStopped, ConvergeOn, BeginStopped, Idle
<1>7. ASSUME NEW id \in Id, ConvergeDelete(id) PROVE TypeInv'
  <2>1. todo[id] \in Record
    BY <1>7 DEF ConvergeDelete, ConvergeOn
  <2>2. RecordsOK' /\ clients' \in [IP -> Id \cup {Absent}]
    BY <1>7, <2>1, RecordFields, StopKeepsTypes
    DEF ConvergeDelete, ConvergeOn, deleteAllocation, Recover, Return
  <2>3. ThreadOK' /\ hand' \in MAC \cup {HostMAC, NoMAC}
    BY <1>7, <2>1, RecordFields
    DEF ConvergeDelete, ConvergeOn, deleteAllocation, Recover, Return
  <2> QED
    BY <1>7, <2>2, <2>3
    DEF ConvergeDelete, ConvergeOn, deleteAllocation, Recover, Return
<1>8. ASSUME NEW id \in Id, ConvergeBound(id) PROVE TypeInv'
  BY <1>8 DEF ConvergeBound, ConvergeOn, Idle
<1> QED
  BY <1>1, <1>2, <1>3, <1>4, <1>5, <1>6, <1>7, <1>8 DEF Startup

-----------------------------------------------------------------------------

LEMMA HandlerKeepsTypes == TypeInv /\ Handler => TypeInv'
<1> SUFFICES ASSUME TypeInv, Handler PROVE TypeInv'
  OBVIOUS
<1> USE NullsAreNotValues, NullsAreNotRecords, ConfigurationAssumption
      DEF TypeInv, RecordsOK, ScalarsOK, ThreadOK, PC, store, dhcp, thread, process, api
<1>1. ASSUME OnCreate PROVE TypeInv'
  BY <1>1, FirstEvent DEF OnCreate, NextEvent, BeginUnbound, Idle
<1>2. ASSUME OnDelete PROVE TypeInv'
  <2> DEFINE a == Head(events).val
  <2>1. Head(events).id \in Id /\ a \in Record /\ events' \in Seq(RecordEvent)
    BY <1>2, FirstEvent DEF OnDelete, NextEvent
  <2>2. RecordsOK' /\ clients' \in [IP -> Id \cup {Absent}]
    BY <1>2, <2>1, RecordFields, StopKeepsTypes
    DEF OnDelete, NextEvent, deleteAllocation, Recover, Return
  <2>3. ThreadOK' /\ hand' \in MAC \cup {HostMAC, NoMAC}
    BY <1>2, <2>1, RecordFields
    DEF OnDelete, NextEvent, deleteAllocation, Recover, Return
  <2> QED
    BY <1>2, <2>1, <2>2, <2>3 DEF OnDelete, NextEvent, deleteAllocation, Recover, Return
<1>3. ASSUME PopMACGet PROVE TypeInv'
  BY <1>3 DEF PopMACGet
<1>4. ASSUME PopMACDelete PROVE TypeInv'
  BY <1>4 DEF PopMACDelete, SetPool, GoTo
<1>5. ASSUME PopMACEmpty PROVE TypeInv'
  BY <1>5 DEF PopMACEmpty, WithoutMAC, Return
<1>6. ASSUME NEW m \in MAC \cup {HostMAC}, DeviceReady(m) PROVE TypeInv'
  <2>1. cur \in Id /\ rec \in Record
    BY <1>6 DEF DeviceReady
  <2>2. ManageInterfaces => m # HostMAC
    BY <1>6 DEF DeviceReady, Random
  <2> DEFINE c == [al |-> rec, ip |-> NoIP, mac |-> m, cb |-> Absent]
  <2>3. c \in RecordClient
    BY <2>1 DEF RecordClient
  <2>4. client' \in [Id -> RecordClient \cup {Absent}] /\ client'[cur] # Absent
    BY <1>6, <2>1, <2>3, ClientChanges DEF DeviceReady, StartClient
  <2>5. devices' \in SUBSET (Id \X MAC)
    BY <1>6, <2>1, <2>2 DEF DeviceReady, Random
  <2> QED
    BY <1>6, <2>1, <2>2, <2>4, <2>5 DEF DeviceReady
<1>7. ASSUME NEW ip \in IP, Bound(ip) PROVE TypeInv'
  <2>1. cur \in Id /\ rec \in Record /\ hand \in MAC \cup {HostMAC}
    BY <1>7 DEF Bound, AlreadyManaged, GiveUp, Register, Become, WithLease
  <2>2. CASE clients[ip] # Absent
    <3>1. client' \in [Id -> RecordClient \cup {Absent}]
      BY <1>7, <2>1, <2>2
      DEF Bound, AlreadyManaged, GiveUp, Register, Become, WithLease, StopClient
    <3> QED
      BY <1>7, <2>1, <2>2, <3>1
      DEF Bound, AlreadyManaged, GiveUp, Register, Become, WithLease, BindFails, GoTo,
          Return
  <2>3. CASE clients[ip] = Absent
    <3> DEFINE a == [state |-> "Bound", ip |-> ip, mac |-> hand]
               c == [al |-> a, ip |-> ip, mac |-> hand, cb |-> Absent]
    <3>1. a \in Record
      BY <1>7, <2>1, RecordFields
      DEF Bound, AlreadyManaged, GiveUp, Register, Become, WithLease
    <3>2. c \in RecordClient
      BY <2>1, <3>1 DEF RecordClient
    <3>3. client' \in [Id -> RecordClient \cup {Absent}] /\ client'[cur] # Absent
      BY <1>7, <2>1, <2>3, <3>2, ClientChanges
      DEF Bound, AlreadyManaged, GiveUp, Register, Become, WithLease
    <3> HIDE DEF a, c
    <3>4. rec' = a /\ pc' \in {"removemac", "put"} /\ UNCHANGED <<cur, hand>>
          /\ clients' = [clients EXCEPT ![ip] = cur]
      BY <1>7, <2>3 DEF Bound, AlreadyManaged, GiveUp, Register, Become, WithLease, a
    <3>5. RecordsOK'
      BY <1>7, <3>1, <3>3, <3>4
      DEF Bound, AlreadyManaged, GiveUp, Register, Become, WithLease
    <3>6. ThreadOK'
      BY <1>7, <2>1, <3>1, <3>3, <3>4
      DEF Bound, AlreadyManaged, GiveUp, Register, Become, WithLease
    <3>7. ScalarsOK'
      BY <1>7, <2>1, <3>4 DEF Bound, AlreadyManaged, GiveUp, Register, Become, WithLease
    <3> QED
      BY <3>5, <3>6, <3>7
  <2> QED
    BY <2>2, <2>3
<1>8. ASSUME BindTimeout PROVE TypeInv'
  BY <1>8 DEF BindTimeout, GoTo
<1>9. ASSUME BindStop PROVE TypeInv'
  BY <1>9 DEF BindStop, GiveUp, StopClient, BindFails, GoTo, Return
<1>10. ASSUME RemoveMAC PROVE TypeInv'
  <2>1. client[cur] \in RecordClient
    BY <1>10 DEF RemoveMAC
  <2>2. rec' \in Record
    BY <1>10, <2>1 DEF RemoveMAC, EncodeAndPut, RecordClient
  <2> QED
    BY <1>10, <2>2 DEF RemoveMAC, SetPool, EncodeAndPut
<1>11. ASSUME PutBound PROVE TypeInv'
  BY <1>11, PutRecord DEF PutBound, Return
<1>12. ASSUME RemoveUnbound PROVE TypeInv'
  BY <1>12, RemoveRecord DEF RemoveUnbound, Return
<1>13. ASSUME PutMACCheck PROVE TypeInv'
  BY <1>13 DEF PutMACCheck, PutMACSites, MACInUse, PutMACReturns, GoTo, Return
<1>14. ASSUME PutMACWrite PROVE TypeInv'
  BY <1>14 DEF PutMACWrite, PutMACSites, PutMACReturns, SetPool, Return, GoTo
<1>15. ASSUME RemoveDevice PROVE TypeInv'
  BY <1>15 DEF RemoveDevice, Return
<1> QED
  BY <1>1, <1>2, <1>3, <1>4, <1>5, <1>6, <1>7, <1>8, <1>9, <1>10, <1>11, <1>12, <1>13,
     <1>14, <1>15
  DEF Handler

-----------------------------------------------------------------------------

LEMMA ShutdownKeepsTypes == TypeInv /\ Shutdown => TypeInv'
<1> SUFFICES ASSUME TypeInv, Shutdown PROVE TypeInv'
  OBVIOUS
<1> USE NullsAreNotValues, NullsAreNotRecords, ConfigurationAssumption
      DEF TypeInv, RecordsOK, ScalarsOK, ThreadOK, PC, store, dhcp, thread, process, api
<1>1. ASSUME BeginStop PROVE TypeInv'
  <2>1. events' = << >> /\ watching' = FALSE
    BY <1>1 DEF BeginStop
  <2>2. todo' \in [Id -> Record \cup {Absent}]
    BY <1>1 DEF BeginStop
  <2>3. UNCHANGED <<alloc, pool, clients, client, devices, pc, cur, rec, hand, unreg,
                    boots, faults, issued, adminMac>> /\ phase' = "stop"
    BY <1>1 DEF BeginStop, Idle
  <2>4. events' \in Seq(RecordEvent)
    BY <2>1
  <2>5. watching' \in BOOLEAN
    BY <2>1
  <2> QED
    BY <2>2, <2>3, <2>4, <2>5
<1>2. ASSUME PutStopped PROVE TypeInv'
  BY <1>2, PutRecord DEF PutStopped, Return
<1>3. ASSUME Exit PROVE TypeInv'
  <2>1. Halt
    BY <1>3 DEF Exit
  <2> QED
    BY <2>1, HaltKeepsTypes
<1>4. ASSUME NEW id \in Id, StopAllocation(id) PROVE TypeInv'
  <2>1. todo[id] \in Record /\ [todo[id] EXCEPT !.state = "Stopped"] \in Record
    BY <1>4, RecordFields DEF StopAllocation
  <2>2. /\ client' \in [Id -> RecordClient \cup {Absent}]
        /\ clients' \in [IP -> Id \cup {Absent}]
    BY <1>4, <2>1, RecordFields, StopKeepsTypes DEF StopAllocation
  <2>3. faults' \in 0..MaxFaults /\ devices' \in SUBSET (Id \X MAC)
    BY <1>4 DEF StopAllocation, Fault
  <2> QED
    BY <1>4, <2>1, <2>2, <2>3 DEF StopAllocation, Idle
<1> QED
  BY <1>1, <1>2, <1>3, <1>4 DEF Shutdown

-----------------------------------------------------------------------------

LEMMA ClientsKeepsTypes == TypeInv /\ Clients => TypeInv'
<1> SUFFICES ASSUME TypeInv, Clients PROVE TypeInv'
  OBVIOUS
<1> USE NullsAreNotValues, NullsAreNotRecords, ConfigurationAssumption
      DEF TypeInv, RecordsOK, ScalarsOK, ThreadOK, PC, store, dhcp, thread, process, api
<1>1. ASSUME NEW id \in Id, WriteRenewal(id) PROVE TypeInv'
  <2> DEFINE c == [client[id] EXCEPT !.cb = Absent]
  <2>1. client[id] \in RecordClient /\ client[id].cb \in Record
    BY <1>1 DEF WriteRenewal, RenewPut, Running, RecordClient
  <2>2. /\ alloc' \in [Id -> Record \cup {Absent}]
        /\ events' \in Seq(RecordEvent)
        /\ pool' = pool /\ watching' = watching
    BY <1>1, <2>1, PutRecord DEF WriteRenewal, RenewPut
  <2>3. c \in RecordClient
    BY <2>1 DEF RecordClient
  <2>4. client' = [client EXCEPT ![id] = c]
    BY <1>1, <2>1 DEF WriteRenewal, RenewPut, RecordClient
  <2> HIDE DEF c
  <2>5. /\ client' \in [Id -> RecordClient \cup {Absent}]
        /\ \A x \in Id : client[x] # Absent => client'[x] # Absent
    BY <2>3, <2>4, ClientChanges
  <2>6. UNCHANGED <<clients, devices, pc, cur, rec, hand, phase, todo, unreg, boots,
                    faults, issued, adminMac>>
    BY <1>1 DEF WriteRenewal, RenewPut
  <2> QED
    BY <2>2, <2>5, <2>6
<1>2. ASSUME NEW id \in Id, NEW ip \in IP, Renew(id,ip) PROVE TypeInv'
  <2> DEFINE a == [client[id].al EXCEPT !.ip = ip]
             c == [al |-> a, ip |-> ip, mac |-> client[id].mac, cb |-> a]
  <2>1. client[id] \in RecordClient
    BY <1>2 DEF Renew, OnRenew, Running
  <2>2. a \in Record
    BY <2>1, RecordFields DEF RecordClient
  <2>3. c \in RecordClient
    BY <2>1, <2>2 DEF RecordClient
  <2>4. client' = [client EXCEPT ![id] = c]
    BY <1>2 DEF Renew, OnRenew
  <2> HIDE DEF a, c
  <2>5. /\ client' \in [Id -> RecordClient \cup {Absent}]
        /\ \A x \in Id : client[x] # Absent => client'[x] # Absent
    BY <2>3, <2>4, ClientChanges
  <2>6. UNCHANGED <<alloc, pool, watching, events, clients, devices, pc, cur, rec, hand,
                    phase, todo, unreg, boots, faults, issued, adminMac>>
    BY <1>2 DEF Renew, OnRenew
  <2> QED
    BY <2>5, <2>6
<1> QED
  BY <1>1, <1>2 DEF Clients

-----------------------------------------------------------------------------

LEMMA FailuresKeepsTypes == TypeInv /\ Failures => TypeInv'
<1> SUFFICES ASSUME TypeInv, Failures PROVE TypeInv'
  OBVIOUS
<1> USE NullsAreNotValues, NullsAreNotRecords, ConfigurationAssumption
      DEF TypeInv, RecordsOK, ScalarsOK, ThreadOK, PC, store, dhcp, thread, process, api
<1>1. ASSUME Crash PROVE TypeInv'
  <2>1. Halt
    BY <1>1 DEF Crash
  <2> QED
    BY <2>1, HaltKeepsTypes
<1>2. ASSUME PopMACFails PROVE TypeInv'
  BY <1>2 DEF PopMACFails, Fault, SetPool, WithoutMAC, Return
<1>3. ASSUME DeviceFails PROVE TypeInv'
  <2>1. faults' = faults \/ Fault
    BY <1>3 DEF DeviceFails
  <2>2. faults' \in 0..MaxFaults
    BY <2>1 DEF Fault
  <2> QED
    BY <1>3, <2>2 DEF DeviceFails, GoTo, Return
<1>4. ASSUME RequestFails PROVE TypeInv'
  <2>1. faults' \in 0..MaxFaults
    BY <1>4 DEF RequestFails, Fault
  <2>2. pc = "removemac" => client[cur] \in RecordClient /\ client[cur].al \in Record
    BY DEF RecordClient
  <2> QED
    BY <1>4, <2>1, <2>2 DEF RequestFails, EncodeAndPut, GoTo, Return
<1>5. ASSUME NEW id \in Id, RenewFails(id) PROVE TypeInv'
  <2> DEFINE c == [client[id] EXCEPT !.cb = Absent]
  <2>1. client[id] \in RecordClient
    BY <1>5 DEF RenewFails, RenewPutFails, Running
  <2>2. c \in RecordClient
    BY <2>1 DEF RecordClient
  <2>3. client' = [client EXCEPT ![id] = c]
    BY <1>5, <2>1 DEF RenewFails, RenewPutFails, RecordClient
  <2> HIDE DEF c
  <2>4. /\ client' \in [Id -> RecordClient \cup {Absent}]
        /\ \A x \in Id : client[x] # Absent => client'[x] # Absent
    BY <2>2, <2>3, ClientChanges
  <2>5. UNCHANGED <<alloc, pool, watching, events, clients, devices, pc, cur, rec, hand,
                    phase, todo, unreg, boots, issued, adminMac>>
        /\ faults' \in 0..MaxFaults
    BY <1>5 DEF RenewFails, RenewPutFails, Fault
  <2> QED
    BY <2>4, <2>5
<1> QED
  BY <1>1, <1>2, <1>3, <1>4, <1>5 DEF Failures

-----------------------------------------------------------------------------

LEMMA EnvironmentKeepsTypes == TypeInv /\ Environment => TypeInv'
<1> SUFFICES ASSUME TypeInv, Environment PROVE TypeInv'
  OBVIOUS
<1> USE NullsAreNotValues, NullsAreNotRecords, ConfigurationAssumption
      DEF TypeInv, RecordsOK, ScalarsOK, ThreadOK, PC, store, dhcp, thread, process, api
<1>1. ASSUME NEW id \in Id, ObtainIP(id) PROVE TypeInv'
  BY <1>1, PutRecord, RecordFields DEF ObtainIP
<1>2. ASSUME NEW id \in Id, ReturnIP(id) PROVE TypeInv'
  BY <1>2, RemoveRecord DEF ReturnIP, Requests, Room
<1>3. ASSUME NEW id \in Id, Expire(id) PROVE TypeInv'
  BY <1>3, RemoveRecord DEF Expire, Room
<1>4. ASSUME NEW m \in MAC, AdminCheck(m) PROVE TypeInv'
  BY <1>4 DEF AdminCheck, MACInUse
<1>5. ASSUME NEW m \in MAC, AdminRemove(m) PROVE TypeInv'
  BY <1>5 DEF AdminRemove, SetPool
<1>6. ASSUME AdminWrite PROVE TypeInv'
  BY <1>6 DEF AdminWrite, SetPool
<1> QED
  BY <1>1, <1>2, <1>3, <1>4, <1>5, <1>6 DEF Environment

-----------------------------------------------------------------------------

LEMMA TypeInvStarts == Init => TypeInv
<1> SUFFICES ASSUME Init PROVE TypeInv
  OBVIOUS
<1>1. RecordsOK
  BY DEF Init, StoreInit, DHCPInit, NoRecords, RecordsOK
<1>2. ScalarsOK
  <2>1. watching \in BOOLEAN
    BY DEF Init, StoreInit
  <2>2. boots \in 0..MaxBoots /\ faults \in 0..MaxFaults
    BY ConfigurationAssumption DEF Init
  <2> QED
    BY <2>1, <2>2 DEF Init, StoreInit, DHCPInit, ScalarsOK, PC
<1>3. ThreadOK
  BY DEF Init, ThreadOK
<1> QED
  BY <1>1, <1>2, <1>3 DEF TypeInv

LEMMA TypeInvIsInductive == TypeInv /\ [Next]_vars => TypeInv'
<1>1. TypeInv /\ UNCHANGED vars => TypeInv'
  BY DEF TypeInv, RecordsOK, ScalarsOK, ThreadOK, vars, store, dhcp, thread, process,
     api
<1> QED
  BY <1>1, StartupKeepsTypes, HandlerKeepsTypes, ShutdownKeepsTypes, ClientsKeepsTypes,
     FailuresKeepsTypes, EnvironmentKeepsTypes DEF Next

LEMMA TypeInvImpliesTypeOK == TypeInv => TypeOK
<1> SUFFICES ASSUME TypeInv PROVE TypeOK
  OBVIOUS
<1>1. Record \subseteq Allocation
  BY DEF Record
<1>2. RecordEvent \subseteq Event /\ RecordClient \subseteq Client
  BY <1>1 DEF RecordEvent, Event, RecordClient, Client
<1>3. events \in Seq(Event)
  BY <1>2 DEF TypeInv, RecordsOK
<1>4. StoreTypeOK
  BY <1>1, <1>3 DEF TypeInv, RecordsOK, ScalarsOK, StoreTypeOK
<1>5. DHCPTypeOK
  BY <1>2 DEF TypeInv, RecordsOK, ScalarsOK, DHCPTypeOK
<1> QED
  BY <1>1, <1>4, <1>5 DEF TypeInv, RecordsOK, ScalarsOK, TypeOK

\* Every variable keeps its type, whatever the environment does: the pool holds
\* hardware addresses only, and what is read back from the store is a record.
THEOREM TypeCorrect == Spec => []TypeOK
<1>1. Spec => []TypeInv
  BY TypeInvStarts, TypeInvIsInductive, PTL DEF Spec
<1> QED
  BY <1>1, TypeInvImpliesTypeOK, PTL

-----------------------------------------------------------------------------
(* The invariant.  That an allocation never gets a second client is a matter *)
(* of counting what can start one: a request in the queue, an allocation of  *)
(* the snapshot that converge walks, a handler that has not started its      *)
(* client yet, and a callback that will store the allocation as unbound.     *)
(* There is never more than one of them, and none once a client is bound.    *)

\* The thread will start a client for cur; it stores what it has in rec.
Starting == {"popmac.get", "popmac.delete", "device"}
Storing == {"removemac", "put", "stop.put"}

\* The i-th event is one that OnCreate does not ignore.
CreateAt(i, id) ==
  /\ i \in 1..Len(events)
  /\ events[i].kind = "create" /\ events[i].id = id /\ events[i].val.state = "Unbound"

PhaseInv ==
  /\ phase \in {"down", "register"} => \A id \in Id : client[id] = Absent
  /\ phase \in {"down", "register"} => pc \in {"ready", "putmac.check", "putmac.write"}
  /\ phase # "watch" => events = << >> /\ ~watching

ThreadInv ==
  /\ pc \in Starting => client[cur] = Absent
  /\ pc \in Storing => rec.state # "Unbound"

RenewInv ==
  \A id \in Id : client[id] # Absent =>
    /\ client[id].al.state = "Unbound" => Binding(id)
    /\ client[id].cb # Absent /\ client[id].cb.state = "Unbound" =>
         /\ Binding(id) /\ client[id].ip # NoIP
         /\ \A i \in 1..Len(events) : ~CreateAt(i, id)

RequestInv ==
  \A id \in Id, i \in 1..Len(events) : CreateAt(i, id) =>
    /\ client[id] # Absent => Binding(id) /\ client[id].ip # NoIP
    /\ pc \in Starting => cur # id
    /\ \A j \in 1..Len(events) : CreateAt(j, id) => i = j

TodoInv ==
  phase = "converge" => \A id \in Id : todo[id] # Absent =>
    /\ client[id] = Absent
    /\ pc \in Starting => cur # id

FreshInv ==
  \A id \in Id \ issued :
    /\ alloc[id] = Absent /\ client[id] = Absent /\ todo[id] = Absent /\ cur # id
    /\ \A i \in 1..Len(events) : events[i].id # id

ClientInv ==
  /\ TypeInv
  /\ PhaseInv /\ ThreadInv /\ RenewInv /\ RequestInv /\ TodoInv /\ FreshInv
  /\ NoLostClient /\ MapIsExact

-----------------------------------------------------------------------------
(* Most steps start no client, stop none and ask for none. *)

\* What the queue may gain besides a request: a delete, or a create to be ignored.
QueueGrowsQuietly ==
  /\ ~watching => events' = events
  /\ \A i \in 1..Len(events') :
       \/ i \in 1..Len(events) /\ events'[i] = events[i]
       \/ /\ events'[i].id \in issued
          /\ ~(events'[i].kind = "create" /\ events'[i].val.state = "Unbound")

ThreadMovesOn ==
  /\ cur' \in {cur, Absent}
  /\ pc' \in {"bind", "bindstop"} <=> pc \in {"bind", "bindstop"}
  /\ pc' \in {"bind", "bindstop"} => cur' = cur
  /\ pc' \in Starting => pc \in Starting /\ cur' = cur
  /\ pc' \in Storing => rec'.state # "Unbound"
  /\ phase \in {"down", "register"} => pc' \in {"ready", "putmac.check", "putmac.write"}

Harmless ==
  /\ UNCHANGED <<client, clients, phase, watching, issued>>
  /\ \A id \in Id : todo'[id] \in {todo[id], Absent}
  /\ \A id \in Id \ issued : alloc'[id] = alloc[id]
  /\ QueueGrowsQuietly
  /\ ThreadMovesOn

LEMMA HarmlessKeepsClients == ClientInv /\ Harmless /\ TypeInv' => ClientInv'
<1> SUFFICES ASSUME ClientInv, Harmless, TypeInv' PROVE ClientInv'
  OBVIOUS
<1> USE DEF ClientInv, Harmless
<1>1. \A id \in Id : Binding(id)' <=> Binding(id)
  BY DEF Binding, ThreadMovesOn
<1>2. \A id \in Id, i \in 1..Len(events') :
        CreateAt(i, id)' => i \in 1..Len(events) /\ CreateAt(i, id)
  BY DEF QueueGrowsQuietly, CreateAt
<1>3. PhaseInv'
  BY DEF PhaseInv, QueueGrowsQuietly, ThreadMovesOn
<1>4. ThreadInv'
  BY DEF ThreadInv, ThreadMovesOn
<1>5. RenewInv'
  BY <1>1, <1>2 DEF RenewInv
<1>6. RequestInv'
  BY <1>1, <1>2 DEF RequestInv, ThreadMovesOn
<1>7. TodoInv'
  BY NullsAreNotRecords DEF TodoInv, ThreadMovesOn
<1>8. FreshInv'
  <2>1. \A id \in Id \ issued :
          alloc'[id] = Absent /\ client'[id] = Absent /\ todo'[id] = Absent
    BY DEF FreshInv
  <2>2. \A id \in Id \ issued : cur' # id
    BY NullsAreNotRecords DEF FreshInv, ThreadMovesOn
  <2>3. \A id \in Id \ issued, i \in 1..Len(events') : events'[i].id # id
    BY DEF FreshInv, QueueGrowsQuietly
  <2> QED
    BY <2>1, <2>2, <2>3 DEF FreshInv
<1>9. NoLostClient'
  BY <1>1 DEF NoLostClient, Running, Registered
<1>10. MapIsExact'
  <2>1. \A ip \in IP : clients[ip] # Absent => clients[ip] \in Id
    BY DEF TypeInv, ScalarsOK
  <2> QED
    BY <1>1, <2>1 DEF MapIsExact, Running
<1> QED
  BY <1>3, <1>4, <1>5, <1>6, <1>7, <1>8, <1>9, <1>10

\* Storing or removing an allocation queues no request, unless it is unbound.
LEMMA PutIsQuiet ==
  ASSUME NEW id \in issued, NEW a \in Record, a.state # "Unbound",
         TypeInv, PutAllocation(id, a)
  PROVE  QueueGrowsQuietly /\ watching' = watching
         /\ \A x \in Id \ issued : alloc'[x] = alloc[x]
<1> DEFINE e == [kind |-> "create", id |-> id, val |-> a]
<1>1. id \in Id /\ events \in Seq(RecordEvent) /\ e \in RecordEvent
  BY DEF TypeInv, ScalarsOK, RecordsOK, RecordEvent
<1>2. CASE events' = events
  BY <1>1, <1>2 DEF QueueGrowsQuietly, PutAllocation, TypeInv, RecordsOK
<1>3. CASE events' = Append(events, e) /\ watching
  <2>1. \A i \in 1..Len(events') :
          \/ i \in 1..Len(events) /\ events'[i] = events[i]
          \/ events'[i] = e
    BY <1>1, <1>3
  <2> QED
    BY <1>1, <1>3, <2>1 DEF QueueGrowsQuietly, PutAllocation, TypeInv, RecordsOK
<1> QED
  BY <1>2, <1>3 DEF PutAllocation, Notified

LEMMA RemoveIsQuiet ==
  ASSUME NEW id \in issued, TypeInv, RemoveAllocation(id)
  PROVE  QueueGrowsQuietly /\ watching' = watching
         /\ \A x \in Id \ issued : alloc'[x] = alloc[x]
<1> DEFINE e == [kind |-> "delete", id |-> id, val |-> alloc[id]]
<1>1. id \in Id /\ events \in Seq(RecordEvent)
  BY DEF TypeInv, ScalarsOK, RecordsOK
<1>2. CASE events' = events
  BY <1>1, <1>2 DEF QueueGrowsQuietly, RemoveAllocation, TypeInv, RecordsOK
<1>3. CASE events' = Append(events, e) /\ watching /\ alloc[id] # Absent
  <2>1. e \in RecordEvent
    BY <1>1, <1>3 DEF TypeInv, RecordsOK, RecordEvent
  <2>2. \A i \in 1..Len(events') :
          \/ i \in 1..Len(events) /\ events'[i] = events[i]
          \/ events'[i] = e
    BY <1>1, <1>3, <2>1
  <2> QED
    BY <1>1, <1>3, <2>2 DEF QueueGrowsQuietly, RemoveAllocation, TypeInv, RecordsOK
<1> QED
  BY <1>2, <1>3 DEF RemoveAllocation, Notified

LEMMA HandledIsIssued ==
  ClientInv /\ pc \notin {"ready", "putmac.check", "putmac.write"} => cur \in issued
BY DEF ClientInv, TypeInv, ThreadOK, FreshInv

LEMMA SameQueue == events' = events => QueueGrowsQuietly
BY DEF QueueGrowsQuietly

\* The actions that are harmless in that sense.
LEMMA HarmlessActions ==
  ASSUME ClientInv
  PROVE  /\ \A m \in MAC : RegisterMAC(m) => Harmless
         /\ \A id \in Id : ConvergeBound(id) => Harmless
         /\ PopMACGet => Harmless
         /\ PopMACDelete => Harmless
         /\ PopMACEmpty => Harmless
         /\ BindTimeout => Harmless
         /\ RemoveMAC => Harmless
         /\ PutBound => Harmless
         /\ RemoveUnbound => Harmless
         /\ PutMACCheck => Harmless
         /\ PutMACWrite => Harmless
         /\ RemoveDevice => Harmless
         /\ PutStopped => Harmless
         /\ PopMACFails => Harmless
         /\ DeviceFails => Harmless
         /\ RequestFails => Harmless
         /\ \A id \in Id : ReturnIP(id) => Harmless
         /\ \A id \in Id : Expire(id) => Harmless
         /\ \A m \in MAC : AdminCheck(m) => Harmless
         /\ \A m \in MAC : AdminRemove(m) => Harmless
         /\ AdminWrite => Harmless
<1> USE DEF ClientInv, TypeInv, PhaseInv, ThreadInv, Harmless, ThreadMovesOn,
            Starting, Storing, store, dhcp, thread, process, api
<1>1. ASSUME NEW m \in MAC, RegisterMAC(m) PROVE Harmless
  BY <1>1, SameQueue DEF RegisterMAC, Idle
<1>2. ASSUME NEW id \in Id, ConvergeBound(id) PROVE Harmless
  BY <1>2, SameQueue DEF ConvergeBound, ConvergeOn, Idle
<1>3. ASSUME PopMACGet PROVE Harmless
  BY <1>3, SameQueue DEF PopMACGet
<1>4. ASSUME PopMACDelete PROVE Harmless
  BY <1>4, SameQueue DEF PopMACDelete, SetPool, GoTo
<1>5. ASSUME PopMACEmpty PROVE Harmless
  BY <1>5, SameQueue DEF PopMACEmpty, WithoutMAC, Return
<1>6. ASSUME BindTimeout PROVE Harmless
  BY <1>6, SameQueue DEF BindTimeout, GoTo
<1>7. ASSUME RemoveMAC PROVE Harmless
  BY <1>7, SameQueue DEF RemoveMAC, SetPool, EncodeAndPut, ThreadOK, RenewInv, Binding
<1>8. ASSUME PutBound PROVE Harmless
  BY <1>8, PutIsQuiet, HandledIsIssued DEF PutBound, Return, ThreadOK
<1>9. ASSUME RemoveUnbound PROVE Harmless
  BY <1>9, RemoveIsQuiet, HandledIsIssued DEF RemoveUnbound, Return
<1>10. ASSUME PutMACCheck PROVE Harmless
  BY <1>10, SameQueue
  DEF PutMACCheck, PutMACSites, MACInUse, PutMACReturns, GoTo, Return
<1>11. ASSUME PutMACWrite PROVE Harmless
  BY <1>11, SameQueue DEF PutMACWrite, PutMACSites, PutMACReturns, SetPool, Return, GoTo
<1>12. ASSUME RemoveDevice PROVE Harmless
  BY <1>12, SameQueue DEF RemoveDevice, Return
<1>13. ASSUME PutStopped PROVE Harmless
  BY <1>13, PutIsQuiet, HandledIsIssued DEF PutStopped, Return, ThreadOK
<1>14. ASSUME PopMACFails PROVE Harmless
  BY <1>14, SameQueue DEF PopMACFails, Fault, SetPool, WithoutMAC, Return
<1>15. ASSUME DeviceFails PROVE Harmless
  BY <1>15, SameQueue DEF DeviceFails, Fault, GoTo, Return
<1>16. ASSUME RequestFails PROVE Harmless
  BY <1>16, SameQueue
  DEF RequestFails, EncodeAndPut, GoTo, Return, ThreadOK, RenewInv, Binding
<1>17. ASSUME NEW id \in Id, ReturnIP(id) PROVE Harmless
  BY <1>17, RemoveIsQuiet DEF ReturnIP, Requests, Room, FreshInv
<1>18. ASSUME NEW id \in Id, Expire(id) PROVE Harmless
  BY <1>18, RemoveIsQuiet DEF Expire, Room, FreshInv
<1>19. ASSUME NEW m \in MAC, AdminCheck(m) PROVE Harmless
  BY <1>19, SameQueue DEF AdminCheck, MACInUse
<1>20. ASSUME NEW m \in MAC, AdminRemove(m) PROVE Harmless
  BY <1>20, SameQueue DEF AdminRemove, SetPool
<1>21. ASSUME AdminWrite PROVE Harmless
  BY <1>21, SameQueue DEF AdminWrite, SetPool
<1> QED
  BY <1>1, <1>2, <1>3, <1>4, <1>5, <1>6, <1>7, <1>8, <1>9, <1>10, <1>11, <1>12, <1>13,
     <1>14, <1>15, <1>16, <1>17, <1>18, <1>19, <1>20, <1>21

-----------------------------------------------------------------------------
(* Steps that can stop clients: events are taken out of the queue or forgotten, *)
(* and the thread is not left with a client to start.                        *)

Ending ==
  /\ \A id \in Id : client'[id] \in {client[id], Absent}
  /\ \A id \in Id : todo'[id] # Absent => alloc[id] # Absent \/ todo[id] # Absent
  /\ phase' = "converge" => phase = "converge"
                            /\ \A id \in Id : todo'[id] \in {todo[id], Absent}
  /\ issued' = issued
  /\ \A id \in Id \ issued : alloc'[id] = alloc[id]
  /\ \/ events' \in {events, << >>}
     \/ events # << >> /\ events' = Tail(events)
  /\ phase' # "watch" => events' = << >> /\ ~watching'
  /\ phase' = "down" => pc' = "ready" /\ \A id \in Id : client'[id] = Absent
  /\ phase' # "register"
  /\ pc' \notin {"bind", "bindstop"} /\ pc' \notin Starting
  /\ pc \in {"bind", "bindstop"} => client'[cur] = Absent
  /\ pc' \in Storing => rec'.state # "Unbound"
  /\ cur' \in issued \cup {Absent}

LEMMA EndingKeepsClients ==
  ClientInv /\ Ending /\ TypeInv' /\ NoLostClient' /\ MapIsExact' => ClientInv'
<1> SUFFICES ASSUME ClientInv, Ending, TypeInv', NoLostClient', MapIsExact'
             PROVE  ClientInv'
  OBVIOUS
<1> USE DEF ClientInv, Ending
<1>1. \A id \in Id, i \in 1..Len(events') :
        \E j \in 1..Len(events) :
          /\ events'[i] = events[j]
          /\ \A k \in 1..Len(events') :
               i # k => \E l \in 1..Len(events) : events'[k] = events[l] /\ l # j
  <2>1. CASE events' = events
    BY <2>1
  <2>2. CASE events' = << >>
    BY <2>2
  <2>3. CASE events' = Tail(events) /\ events # << >>
    <3>1. events \in Seq(RecordEvent)
      BY DEF TypeInv, RecordsOK
    <3>2. Len(events') = Len(events) - 1 /\ Len(events) \in Nat
          /\ \A i \in 1..Len(events') : events'[i] = events[i + 1]
      BY <2>3, <3>1
    <3> QED
      BY <3>2
  <2> QED
    BY <2>1, <2>2, <2>3
<1>2. PhaseInv'
  BY DEF PhaseInv
<1>3. ThreadInv'
  BY DEF ThreadInv
<1>4. RenewInv'
  BY <1>1 DEF RenewInv, Binding, CreateAt
<1>5. RequestInv'
  <2> SUFFICES ASSUME NEW id \in Id, NEW i \in 1..Len(events'), CreateAt(i, id)'
               PROVE  /\ client'[id] = Absent
                      /\ \A k \in 1..Len(events') : CreateAt(k, id)' => i = k
    BY DEF RequestInv
  <2>1. PICK j \in 1..Len(events) :
          /\ events'[i] = events[j]
          /\ \A k \in 1..Len(events') :
               i # k => \E l \in 1..Len(events) : events'[k] = events[l] /\ l # j
    BY <1>1
  <2>2. CreateAt(j, id)
    BY <2>1 DEF CreateAt
  <2>3. client'[id] = Absent
    BY <2>2 DEF RequestInv, Binding
  <2>4. ASSUME NEW k \in 1..Len(events'), CreateAt(k, id)', i # k PROVE FALSE
    <3>1. PICK l \in 1..Len(events) : events'[k] = events[l] /\ l # j
      BY <2>1, <2>4
    <3>2. CreateAt(l, id)
      BY <2>4, <3>1 DEF CreateAt
    <3> QED
      BY <2>2, <3>1, <3>2 DEF RequestInv
  <2> QED
    BY <2>3, <2>4
<1>6. TodoInv'
  BY DEF TodoInv
<1>7. FreshInv'
  BY <1>1, NullsAreNotRecords DEF FreshInv
<1> QED
  BY <1>2, <1>3, <1>4, <1>5, <1>6, <1>7

\* DHCPController.Stop, called between two binds, takes the client of ip out of the
\* map and stops it, and leaves the others alone.
LEMMA StopKeepsMap ==
  ASSUME ClientInv, NEW ip \in IP \cup {NoIP}, Stop(ip),
         pc \notin {"bind", "bindstop"}, pc' \notin {"bind", "bindstop"}
  PROVE  /\ \A id \in Id : client'[id] \in {client[id], Absent}
         /\ NoLostClient' /\ MapIsExact'
<1> USE DEF ClientInv
<1>1. /\ client \in [Id -> RecordClient \cup {Absent}]
      /\ clients \in [IP -> Id \cup {Absent}]
  BY DEF TypeInv, RecordsOK, ScalarsOK
<1>2. CASE ip \in IP /\ clients[ip] # Absent
  <2>1. clients[ip] \in Id
    BY <1>1, <1>2
  <2>2. /\ client' = [client EXCEPT ![clients[ip]] = Absent]
        /\ clients' = [clients EXCEPT ![ip] = Absent]
    BY <1>2 DEF Stop, StopClient
  <2>3. \A x \in IP : x # ip => clients[x] # clients[ip]
    BY <1>2 DEF MapIsExact
  <2>4. NoLostClient'
    <3> SUFFICES ASSUME NEW id \in Id, client'[id] # Absent
                 PROVE  \E x \in IP : clients'[x] = id
      BY DEF NoLostClient, Running, Registered
    <3>1. id # clients[ip] /\ client[id] # Absent
      BY <1>1, <2>1, <2>2
    <3>2. PICK x \in IP : clients[x] = id
      BY <3>1 DEF NoLostClient, Running, Registered, Binding
    <3> QED
      BY <1>1, <2>2, <3>1, <3>2
  <2>5. MapIsExact'
    <3> SUFFICES ASSUME NEW x \in IP, clients'[x] # Absent
                 PROVE  /\ client'[clients'[x]] # Absent
                        /\ \A y \in IP : clients'[y] = clients'[x] => y = x
      BY DEF MapIsExact, Running, Binding
    <3>1. x # ip /\ clients'[x] = clients[x] /\ clients[x] # clients[ip]
      BY <1>1, <2>2, <2>3
    <3>2. clients[x] \in Id /\ client[clients[x]] # Absent
      BY <1>1, <3>1 DEF MapIsExact, Running
    <3>3. \A y \in IP : clients'[y] = clients'[x] => y # ip /\ clients[y] = clients[x]
      BY <1>1, <2>2, <3>1
    <3> QED
      BY <1>1, <2>1, <2>2, <3>1, <3>2, <3>3 DEF MapIsExact
  <2> QED
    BY <1>1, <2>1, <2>2, <2>4, <2>5
<1>3. CASE ~(ip \in IP /\ clients[ip] # Absent)
  <2>1. UNCHANGED <<clients, client>>
    BY <1>3 DEF Stop
  <2> QED
    BY <2>1, <1>1 DEF NoLostClient, MapIsExact, Running, Registered, Binding
<1> QED
  BY <1>2, <1>3

\* The client that was being bound is given up.
LEMMA GiveUpKeepsMap ==
  ASSUME ClientInv, pc \in {"bind", "bindstop"}, cur \in Id, StopClient(cur),
         clients' = clients, pc' \notin {"bind", "bindstop"}
  PROVE  /\ \A id \in Id : client'[id] \in {client[id], Absent}
         /\ client'[cur] = Absent
         /\ NoLostClient' /\ MapIsExact'
<1> USE DEF ClientInv
<1>1. /\ client \in [Id -> RecordClient \cup {Absent}]
      /\ clients \in [IP -> Id \cup {Absent}]
      /\ client' = [client EXCEPT ![cur] = Absent]
  BY DEF TypeInv, RecordsOK, ScalarsOK, StopClient
<1>2. \A id \in Id : client'[id] # Absent => id # cur /\ client[id] # Absent
  BY <1>1
<1>3. NoLostClient'
  BY <1>2 DEF NoLostClient, Running, Registered, Binding
<1>4. \A x \in IP : clients[x] # Absent => clients[x] \in Id /\ clients[x] # cur
  BY <1>1 DEF MapIsExact, Binding
<1>5. MapIsExact'
  BY <1>1, <1>4 DEF MapIsExact, Running, Binding
<1> QED
  BY <1>1, <1>3, <1>5

\* The process ends.
LEMMA HaltKeepsClients == ClientInv /\ Halt => ClientInv'
<1> SUFFICES ASSUME ClientInv, Halt PROVE ClientInv'
  OBVIOUS
<1>1. TypeInv'
  BY HaltKeepsTypes DEF ClientInv
<1>2. Ending
  <2>1. /\ ~watching' /\ events' = << >>
        /\ \A id \in Id : client'[id] = Absent /\ todo'[id] = Absent
    BY DEF Halt, NoRecords
  <2>2. phase' = "down" /\ pc' = "ready" /\ cur' = Absent /\ UNCHANGED <<alloc, issued>>
    BY DEF Halt, Return, api
  <2>3. pc \in {"bind", "bindstop"} => cur \in Id
    BY DEF ClientInv, TypeInv, ThreadOK
  <2> QED
    BY <2>1, <2>2, <2>3 DEF Ending, Starting, Storing
<1>3. NoLostClient' /\ MapIsExact'
  BY DEF Halt, NoLostClient, MapIsExact, Running
<1> QED
  BY <1>1, <1>2, <1>3, EndingKeepsClients

-----------------------------------------------------------------------------
(* The actions that stop clients. *)

LEMMA ConvergeDeleteKeepsClients ==
  ASSUME ClientInv, TypeInv', NEW id \in Id, ConvergeDelete(id) PROVE ClientInv'
<1>1. /\ phase = "converge" /\ pc = "ready" /\ todo[id] \in Record
      /\ id \in issued
  BY DEF ConvergeDelete, ConvergeOn, Idle, ClientInv, TypeInv, RecordsOK, FreshInv
<1>2. /\ Stop(todo[id].ip) /\ todo[id].ip \in IP \cup {NoIP}
      /\ pc' \in {"ready", "recover.check"} /\ cur' \in {id, Absent}
  BY <1>1, RecordFields DEF ConvergeDelete, deleteAllocation, Recover, Return
<1>3. UNCHANGED <<alloc, events, watching, phase, issued>>
      /\ todo' = [todo EXCEPT ![id] = Absent]
  BY DEF ConvergeDelete, ConvergeOn, store, api
<1>4. Ending /\ NoLostClient' /\ MapIsExact'
  BY <1>1, <1>2, <1>3, StopKeepsMap
  DEF Ending, Starting, Storing, ClientInv, PhaseInv, TypeInv, RecordsOK
<1> QED
  BY <1>4, EndingKeepsClients

LEMMA OnDeleteKeepsClients == ASSUME ClientInv, TypeInv', OnDelete PROVE ClientInv'
<1> DEFINE e == Head(events)
<1>1. /\ phase = "watch" /\ pc = "ready" /\ events # << >> /\ events' = Tail(events)
      /\ UNCHANGED <<alloc, watching, phase, todo, issued>>
  BY DEF OnDelete, NextEvent, Idle, process, api
<1>2. e.id \in Id /\ e.val \in Record /\ e.val.ip \in IP \cup {NoIP}
  BY <1>1, FirstEvent, RecordFields DEF ClientInv, TypeInv
<1>3. e.id \in issued
  <2>1. 1 \in 1..Len(events) /\ e = events[1]
    BY <1>1 DEF ClientInv, TypeInv, RecordsOK
  <2> QED
    BY <1>2, <2>1 DEF ClientInv, FreshInv
<1>4. Stop(e.val.ip) /\ pc' \in {"ready", "recover.check"} /\ cur' \in {e.id, Absent}
  BY DEF OnDelete, deleteAllocation, Recover, Return
<1>5. Ending /\ NoLostClient' /\ MapIsExact'
  BY <1>1, <1>2, <1>3, <1>4, StopKeepsMap
  DEF Ending, Starting, Storing, ClientInv, TypeInv, RecordsOK
<1> QED
  BY <1>5, EndingKeepsClients

LEMMA StopAllocationKeepsClients ==
  ASSUME ClientInv, TypeInv', NEW id \in Id, StopAllocation(id) PROVE ClientInv'
<1>1. /\ phase = "stop" /\ pc = "ready" /\ todo[id] \in Record /\ id \in issued
      /\ todo[id].ip \in IP \cup {NoIP}
  BY RecordFields
  DEF StopAllocation, Idle, ClientInv, TypeInv, RecordsOK, FreshInv
<1>2. /\ Stop(todo[id].ip) /\ pc' = "stop.put" /\ cur' = id
      /\ rec' = [todo[id] EXCEPT !.state = "Stopped"]
      /\ todo' = [todo EXCEPT ![id] = Absent]
      /\ UNCHANGED <<alloc, events, watching, phase, issued>>
  BY DEF StopAllocation, store, api
<1>3. rec'.state = "Stopped"
  BY <1>1, <1>2 DEF Record, Allocation
<1>4. Ending /\ NoLostClient' /\ MapIsExact'
  BY <1>1, <1>2, <1>3, StopKeepsMap
  DEF Ending, Starting, Storing, ClientInv, PhaseInv, TypeInv, RecordsOK
<1> QED
  BY <1>4, EndingKeepsClients

LEMMA BeginStopKeepsClients == ASSUME ClientInv, TypeInv', BeginStop PROVE ClientInv'
<1>1. /\ phase' = "stop" /\ events' = << >> /\ ~watching' /\ pc' = "ready" /\ pc = "ready"
      /\ UNCHANGED <<alloc, clients, client, cur, issued>>
      /\ \A id \in Id : todo'[id] \in {alloc[id], Absent}
  BY DEF BeginStop, Idle, thread, dhcp, api
<1>2. Ending
  BY <1>1 DEF Ending, Starting, Storing, ClientInv, TypeInv, ScalarsOK, FreshInv
<1>3. NoLostClient' /\ MapIsExact'
  BY <1>1 DEF ClientInv, NoLostClient, MapIsExact, Running, Registered, Binding
<1> QED
  BY <1>2, <1>3, EndingKeepsClients

\* BindAllocationToInterface returns an error, after a timeout or since another
\* client has the address.
LEMMA GivingUpKeepsClients ==
  ASSUME ClientInv, TypeInv', pc \in {"bind", "bindstop"}, StopClient(cur), BindFails,
         UNCHANGED <<alloc, events, watching, clients, phase, todo, issued>>
  PROVE  ClientInv'
<1>1. cur \in Id /\ cur \in issued
  BY HandledIsIssued DEF ClientInv, TypeInv, ThreadOK
<1>2. pc' \in {"remove", "ready"} /\ cur' \in {cur, Absent}
  BY DEF BindFails, GoTo, Return
<1>3. Ending /\ NoLostClient' /\ MapIsExact'
  BY <1>1, <1>2, GiveUpKeepsMap DEF Ending, Starting, Storing, ClientInv, PhaseInv
<1> QED
  BY <1>3, EndingKeepsClients

-----------------------------------------------------------------------------
(* The actions of the start. *)

LEMMA BootKeepsClients == ASSUME ClientInv, TypeInv', Boot PROVE ClientInv'
<1> USE DEF Boot, store, dhcp, thread, api, ClientInv
<1>1. PhaseInv' /\ ThreadInv' /\ TodoInv' /\ FreshInv'
  BY DEF PhaseInv, ThreadInv, TodoInv, FreshInv
<1>2. RenewInv' /\ RequestInv'
  BY DEF RenewInv, RequestInv, PhaseInv, Binding, CreateAt
<1>3. NoLostClient' /\ MapIsExact'
  BY DEF NoLostClient, MapIsExact, Running, Registered, Binding
<1> QED
  BY <1>1, <1>2, <1>3

LEMMA ConvergeKeepsClients == ASSUME ClientInv, TypeInv', Converge PROVE ClientInv'
<1> USE DEF Converge, store, dhcp, thread, api, ClientInv, Idle
<1>1. PhaseInv' /\ ThreadInv' /\ TodoInv' /\ FreshInv'
  BY DEF PhaseInv, ThreadInv, TodoInv, FreshInv, Starting
<1>2. RenewInv' /\ RequestInv'
  BY DEF RenewInv, RequestInv, PhaseInv, Binding, CreateAt
<1>3. NoLostClient' /\ MapIsExact'
  BY DEF NoLostClient, MapIsExact, Running, Registered, Binding
<1> QED
  BY <1>1, <1>2, <1>3

LEMMA StartWatchKeepsClients == ASSUME ClientInv, TypeInv', StartWatch PROVE ClientInv'
<1> USE DEF StartWatch, dhcp, thread, api, ClientInv
<1>1. PhaseInv' /\ ThreadInv' /\ TodoInv' /\ FreshInv'
  BY DEF PhaseInv, ThreadInv, TodoInv, FreshInv
<1>2. RenewInv' /\ RequestInv'
  BY DEF RenewInv, RequestInv, PhaseInv, Binding, CreateAt
<1>3. NoLostClient' /\ MapIsExact'
  BY DEF NoLostClient, MapIsExact, Running, Registered, Binding
<1> QED
  BY <1>1, <1>2, <1>3

-----------------------------------------------------------------------------
(* The actions that bring the thread to start a client, and that start it. *)

LEMMA BeginKeepsClients ==
  ASSUME ClientInv, TypeInv', NEW id \in issued, pc = "ready",
         client[id] = Absent, cur' = id, pc' \in Starting,
         \/ /\ phase = "converge" /\ events' = events
            /\ todo' = [todo EXCEPT ![id] = Absent]
         \/ /\ phase = "watch" /\ todo' = todo
            /\ events # << >> /\ events' = Tail(events) /\ CreateAt(1, id),
         UNCHANGED <<alloc, watching, clients, client, phase, issued>>
  PROVE  ClientInv'
<1> USE DEF ClientInv
<1>1. id \in Id /\ events \in Seq(RecordEvent) /\ todo \in [Id -> Record \cup {Absent}]
  BY DEF TypeInv, RecordsOK, ScalarsOK
<1>2. \A x \in Id : ~Binding(x) /\ ~Binding(x)'
  BY DEF Binding, Starting
<1>3. phase = "watch" => /\ Len(events') = Len(events) - 1 /\ Len(events) \in Nat
                         /\ \A i \in 1..Len(events') : events'[i] = events[i + 1]
  BY <1>1
<1>4. phase = "converge" => events = << >> /\ events' = << >>
  BY DEF PhaseInv
<1>5. \A x \in Id, i \in 1..Len(events') :
        CreateAt(i, x)' => /\ phase = "watch" /\ i + 1 \in 1..Len(events)
                           /\ CreateAt(i + 1, x) /\ x # id
  <2> SUFFICES ASSUME NEW x \in Id, NEW i \in 1..Len(events'), CreateAt(i, x)'
               PROVE  /\ phase = "watch" /\ i + 1 \in 1..Len(events)
                      /\ CreateAt(i + 1, x) /\ x # id
    OBVIOUS
  <2>1. phase = "watch"
    BY <1>1, <1>4
  <2>2. i + 1 \in 1..Len(events) /\ 1 \in 1..Len(events) /\ CreateAt(i + 1, x)
    BY <1>1, <1>3, <2>1 DEF CreateAt
  <2>3. CASE x = id
    BY <1>1, <2>1, <2>2, <2>3 DEF RequestInv
  <2> QED
    BY <2>1, <2>2, <2>3
<1>6. PhaseInv'
  BY DEF PhaseInv
<1>7. ThreadInv'
  BY DEF ThreadInv, Starting, Storing
<1>8. RenewInv'
  BY <1>2 DEF RenewInv
<1>9. RequestInv'
  <2> SUFFICES ASSUME NEW x \in Id, NEW i \in 1..Len(events'), CreateAt(i, x)'
               PROVE  /\ client[x] = Absent /\ x # id
                      /\ \A j \in 1..Len(events') : CreateAt(j, x)' => i = j
    BY <1>1 DEF RequestInv
  <2>1. client[x] = Absent /\ x # id
    BY <1>2, <1>5 DEF RequestInv
  <2>2. \A j \in 1..Len(events') : CreateAt(j, x)' => i + 1 = j + 1
    BY <1>5 DEF RequestInv
  <2> QED
    BY <2>1, <2>2
<1>10. TodoInv'
  BY <1>1 DEF TodoInv
<1>11. FreshInv'
  <2>1. \A x \in Id \ issued : x # id /\ todo'[x] = Absent /\ alloc'[x] = Absent
                               /\ client'[x] = Absent
    BY <1>1 DEF FreshInv
  <2>2. \A x \in Id \ issued, i \in 1..Len(events') : events'[i].id # x
    BY <1>1, <1>3, <1>4 DEF FreshInv
  <2> QED
    BY <2>1, <2>2 DEF FreshInv
<1>12. NoLostClient' /\ MapIsExact'
  BY <1>2 DEF NoLostClient, MapIsExact, Running, Registered, Binding, Starting
<1> QED
  BY <1>6, <1>7, <1>8, <1>9, <1>10, <1>11, <1>12

LEMMA ConvergeUnboundKeepsClients ==
  ASSUME ClientInv, TypeInv', NEW id \in Id,
         ConvergeUnbound(id) \/ ConvergeStopped(id)
  PROVE  ClientInv'
<1>1. /\ phase = "converge" /\ pc = "ready" /\ todo[id] # Absent
      /\ todo' = [todo EXCEPT ![id] = Absent]
      /\ UNCHANGED <<alloc, events, watching, clients, client, phase, issued>>
      /\ cur' = id /\ pc' \in Starting
  BY DEF ConvergeUnbound, ConvergeStopped, ConvergeOn, BeginUnbound, BeginStopped, Idle,
         Starting, store, dhcp, api
<1>2. id \in issued /\ client[id] = Absent
  BY <1>1 DEF ClientInv, FreshInv, TodoInv
<1> QED
  BY <1>1, <1>2, BeginKeepsClients

LEMMA OnCreateKeepsClients == ASSUME ClientInv, TypeInv', OnCreate PROVE ClientInv'
<1> DEFINE e == Head(events)
<1>1. /\ phase = "watch" /\ pc = "ready" /\ events # << >> /\ events' = Tail(events)
      /\ UNCHANGED <<alloc, watching, clients, client, phase, todo, issued>>
      /\ e.kind = "create"
  BY DEF OnCreate, NextEvent, Idle, process, api, dhcp
<1>2. 1 \in 1..Len(events) /\ e = events[1] /\ e.id \in Id
  BY <1>1, FirstEvent DEF ClientInv, TypeInv, RecordsOK
<1>3. CASE e.val.state = "Unbound"
  <2>1. CreateAt(1, e.id)
    BY <1>1, <1>2, <1>3 DEF CreateAt
  <2>2. e.id \in issued /\ client[e.id] = Absent
    BY <1>1, <1>2, <2>1 DEF ClientInv, FreshInv, RequestInv, Binding
  <2>3. cur' = e.id /\ pc' \in Starting
    BY <1>3 DEF OnCreate, BeginUnbound, Starting
  <2> QED
    BY <1>1, <2>1, <2>2, <2>3, BeginKeepsClients
<1>4. CASE e.val.state # "Unbound"
  <2>1. UNCHANGED <<pc, cur, rec, hand>>
    BY <1>4 DEF OnCreate, thread
  <2>2. Ending
    BY <1>1, <2>1
    DEF Ending, Starting, Storing, ClientInv, TypeInv, ScalarsOK, FreshInv
  <2>3. NoLostClient' /\ MapIsExact'
    BY <1>1, <2>1 DEF ClientInv, NoLostClient, MapIsExact, Running, Registered, Binding
  <2> QED
    BY <2>2, <2>3, EndingKeepsClients
<1> QED
  BY <1>3, <1>4

LEMMA DeviceReadyKeepsClients ==
  ASSUME ClientInv, TypeInv', NEW m \in MAC \cup {HostMAC}, DeviceReady(m)
  PROVE  ClientInv'
<1> USE DEF ClientInv
<1> DEFINE c == [al |-> rec, ip |-> NoIP, mac |-> m, cb |-> Absent]
<1>1. /\ pc = "device" /\ pc' = "bind" /\ client' = [client EXCEPT ![cur] = c]
      /\ UNCHANGED <<alloc, events, watching, clients, cur, phase, todo, issued>>
  BY DEF DeviceReady, StartClient, store, process, api
<1>2. cur \in Id /\ rec \in Record /\ client[cur] = Absent
      /\ client \in [Id -> RecordClient \cup {Absent}]
  BY <1>1 DEF TypeInv, ThreadOK, ThreadInv, Starting, RecordsOK
<1>3. client'[cur] = c /\ \A id \in Id \ {cur} : client'[id] = client[id]
  BY <1>1, <1>2
<1>4. \A id \in Id : ~Binding(id) /\ (Binding(id)' <=> id = cur)
  BY <1>1 DEF Binding
<1>5. \A i \in 1..Len(events) : ~CreateAt(i, cur)
  BY <1>1, <1>2 DEF RequestInv, Starting
<1>6. PhaseInv' /\ ThreadInv'
  BY <1>1 DEF PhaseInv, ThreadInv, Starting, Storing
<1>7. RenewInv'
  <2> SUFFICES ASSUME NEW id \in Id, client'[id] # Absent
               PROVE  /\ client'[id].al.state = "Unbound" => Binding(id)'
                      /\ client'[id].cb # Absent /\ client'[id].cb.state = "Unbound" =>
                           /\ Binding(id)' /\ client'[id].ip # NoIP
                           /\ \A i \in 1..Len(events) : ~CreateAt(i, id)
    BY <1>1 DEF RenewInv, CreateAt
  <2>1. CASE id = cur
    BY <1>3, <1>4, <2>1
  <2>2. CASE id # cur
    BY <1>3, <1>4, <2>2 DEF RenewInv
  <2> QED
    BY <2>1, <2>2
<1>8. RequestInv'
  <2> SUFFICES ASSUME NEW id \in Id, NEW i \in 1..Len(events), CreateAt(i, id)
               PROVE  /\ client'[id] = Absent
                      /\ \A j \in 1..Len(events) : CreateAt(j, id) => i = j
    BY <1>1 DEF RequestInv, CreateAt, Starting
  <2>1. id # cur
    BY <1>5
  <2> QED
    BY <1>3, <1>4, <2>1 DEF RequestInv
<1>9. TodoInv'
  BY <1>1, <1>2, <1>3 DEF TodoInv, Starting
<1>10. FreshInv'
  BY <1>1, <1>2, <1>3 DEF FreshInv
<1>11. NoLostClient'
  BY <1>1, <1>3, <1>4 DEF NoLostClient, Running, Registered
<1>12. MapIsExact'
  <2>1. \A ip \in IP : clients[ip] # Absent => clients[ip] \in Id /\ clients[ip] # cur
    BY <1>2 DEF MapIsExact, Running, TypeInv, ScalarsOK
  <2> QED
    BY <1>1, <1>3, <1>4, <2>1 DEF MapIsExact, Running
<1> QED
  BY <1>6, <1>7, <1>8, <1>9, <1>10, <1>11, <1>12

LEMMA BoundKeepsClients ==
  ASSUME ClientInv, TypeInv', NEW ip \in IP, Bound(ip) PROVE ClientInv'
<1> USE DEF ClientInv
<1> DEFINE a == [state |-> "Bound", ip |-> ip, mac |-> hand]
           c == [al |-> a, ip |-> ip, mac |-> hand, cb |-> Absent]
<1>1. /\ pc = "bind" /\ client[cur].ip = NoIP
      /\ UNCHANGED <<alloc, events, watching, phase, todo, issued>>
  BY DEF Bound, store, process, api
<1>2. cur \in Id /\ client[cur] # Absent /\ client \in [Id -> RecordClient \cup {Absent}]
      /\ clients \in [IP -> Id \cup {Absent}]
  BY <1>1 DEF TypeInv, ThreadOK, RecordsOK, ScalarsOK
<1>3. CASE clients[ip] # Absent
  <2>1. StopClient(cur) /\ BindFails /\ clients' = clients
    BY <1>3 DEF Bound, AlreadyManaged, GiveUp, Register, Become, WithLease
  <2> QED
    BY <1>1, <2>1, GivingUpKeepsClients
<1>4. CASE clients[ip] = Absent
  <2>1. /\ clients' = [clients EXCEPT ![ip] = cur]
        /\ client' = [client EXCEPT ![cur] = c]
        /\ rec' = a /\ pc' \in {"removemac", "put"} /\ cur' = cur
    BY <1>4 DEF Bound, AlreadyManaged, GiveUp, Register, Become, WithLease
  <2>2. client'[cur] = c /\ \A id \in Id \ {cur} : client'[id] = client[id]
    BY <1>2, <2>1
  <2>3. \A id \in Id : (Binding(id) <=> id = cur) /\ ~Binding(id)'
    BY <1>1, <2>1 DEF Binding
  <2>4. \A i \in 1..Len(events) : ~CreateAt(i, cur)
    BY <1>1, <1>2 DEF RequestInv
  <2>5. PhaseInv' /\ ThreadInv'
    BY <1>1, <2>1 DEF PhaseInv, ThreadInv, Starting, Storing
  <2>6. RenewInv'
    <3> SUFFICES ASSUME NEW id \in Id, client'[id] # Absent
                 PROVE  /\ client'[id].al.state # "Unbound"
                        /\ client'[id].cb # Absent => client'[id].cb.state # "Unbound"
      BY DEF RenewInv
    <3>1. CASE id = cur
      BY <2>2, <3>1
    <3>2. CASE id # cur
      BY <2>2, <2>3, <3>2 DEF RenewInv
    <3> QED
      BY <3>1, <3>2
  <2>7. RequestInv'
    <3> SUFFICES ASSUME NEW id \in Id, NEW i \in 1..Len(events), CreateAt(i, id)
                 PROVE  /\ client'[id] = Absent
                        /\ \A j \in 1..Len(events) : CreateAt(j, id) => i = j
      BY <1>1, <2>1 DEF RequestInv, CreateAt, Starting
    <3>1. id # cur
      BY <2>4
    <3> QED
      BY <2>2, <2>3, <3>1 DEF RequestInv
  <2>8. TodoInv'
    BY <1>1, <1>2, <2>1, <2>2 DEF TodoInv, Starting
  <2>9. FreshInv'
    BY <1>1, <1>2, <2>1, <2>2 DEF FreshInv
  <2>10. NoLostClient'
    <3> SUFFICES ASSUME NEW id \in Id, client'[id] # Absent
                 PROVE  \E x \in IP : clients'[x] = id
      BY DEF NoLostClient, Running, Registered
    <3>1. CASE id = cur
      BY <1>2, <2>1, <3>1
    <3>2. CASE id # cur
      <4>1. PICK x \in IP : clients[x] = id
        BY <2>2, <2>3, <3>2 DEF NoLostClient, Running, Registered
      <4>2. x # ip
        BY <1>4, <4>1, NullsAreNotRecords
      <4> QED
        BY <1>2, <2>1, <4>1, <4>2
    <3> QED
      BY <3>1, <3>2
  <2>11. c # Absent
    <3>1. hand \in MAC \cup {HostMAC} /\ a \in Record
      BY <1>1, RecordFields DEF TypeInv, ScalarsOK, ThreadOK
    <3>2. c \in RecordClient
      BY <3>1 DEF RecordClient
    <3> QED
      BY <3>2, NullsAreNotRecords
  <2>12. MapIsExact'
    <3>1. \A x \in IP : clients[x] # Absent => clients[x] \in Id /\ clients[x] # cur
      BY <1>2, <2>3 DEF MapIsExact
    <3>2. \A x \in IP : clients'[x] = IF x = ip THEN cur ELSE clients[x]
      BY <1>2, <2>1
    <3>3. pc' \notin {"bind", "bindstop"}
      BY <2>1
    <3> SUFFICES ASSUME NEW x \in IP, clients'[x] # Absent
                 PROVE  /\ client'[clients'[x]] # Absent
                        /\ \A y \in IP : clients'[y] = clients'[x] => y = x
      BY <3>3 DEF MapIsExact, Running, Binding
    <3>4. CASE x = ip
      <4>1. clients'[x] = cur /\ client'[cur] # Absent
        BY <1>2, <2>2, <2>11, <3>2, <3>4
      <4>2. \A y \in IP : clients'[y] = cur => y = ip
        BY <1>2, <3>1, <3>2, NullsAreNotRecords
      <4> QED
        BY <3>4, <4>1, <4>2
    <3>5. CASE x # ip
      <4>1. clients'[x] = clients[x] /\ clients[x] \in Id \ {cur}
            /\ client[clients[x]] # Absent
        BY <3>1, <3>2, <3>5 DEF MapIsExact, Running
      <4>2. \A y \in IP : clients'[y] = clients'[x] => y = x
        BY <3>1, <3>2, <3>5, <4>1 DEF MapIsExact
      <4> QED
        BY <2>2, <4>1, <4>2
    <3> QED
      BY <3>4, <3>5
  <2> QED
    BY <2>5, <2>6, <2>7, <2>8, <2>9, <2>10, <2>12
<1> QED
  BY <1>3, <1>4

LEMMA BindStopKeepsClients == ASSUME ClientInv, TypeInv', BindStop PROVE ClientInv'
<1>1. /\ pc = "bindstop" /\ StopClient(cur) /\ BindFails
      /\ UNCHANGED <<alloc, events, watching, clients, phase, todo, issued>>
  BY DEF BindStop, GiveUp, store, process, api
<1> QED
  BY <1>1, GivingUpKeepsClients

-----------------------------------------------------------------------------
(* The actions of the clients' goroutines and the creation of a request. *)

LEMMA RenewKeepsClients ==
  ASSUME ClientInv, TypeInv', NEW id \in Id, NEW ip \in IP, Renew(id, ip)
  PROVE  ClientInv'
<1> USE DEF ClientInv
<1> DEFINE a == [client[id].al EXCEPT !.ip = ip]
           c == [al |-> a, ip |-> ip, mac |-> client[id].mac, cb |-> a]
<1>1. /\ client[id] # Absent /\ client' = [client EXCEPT ![id] = c]
      /\ client[id] # Absent => client[id] \in RecordClient
      /\ client \in [Id -> RecordClient \cup {Absent}]
      /\ Binding(id) => client[id].ip = NoIP
      /\ UNCHANGED <<alloc, events, watching, clients, pc, cur, rec, phase, todo, issued>>
  BY DEF Renew, OnRenew, Running, TypeInv, RecordsOK, store, thread, process, api
<1>2. client'[id] = c /\ \A x \in Id \ {id} : client'[x] = client[x]
  BY <1>1
<1>3. a.state = client[id].al.state /\ ip # NoIP
  BY <1>1, NullsAreNotValues DEF RecordClient, Record, Allocation
<1>4. \A x \in Id : Binding(x)' <=> Binding(x)
  BY <1>1 DEF Binding
<1>5. \A x \in Id, i \in 1..Len(events) : CreateAt(i, x)' <=> CreateAt(i, x)
  BY <1>1 DEF CreateAt
<1>6. \A i \in 1..Len(events) : ~CreateAt(i, id)
  BY <1>1 DEF RequestInv
<1>7. PhaseInv' /\ TodoInv' /\ FreshInv'
  BY <1>1, <1>2 DEF PhaseInv, TodoInv, FreshInv
<1>8. ThreadInv'
  BY <1>1, <1>2 DEF ThreadInv
<1>9. RenewInv'
  <2> SUFFICES ASSUME NEW x \in Id, client'[x] # Absent
               PROVE  /\ client'[x].al.state = "Unbound" => Binding(x)
                      /\ client'[x].cb # Absent /\ client'[x].cb.state = "Unbound" =>
                           /\ Binding(x) /\ client'[x].ip # NoIP
                           /\ \A i \in 1..Len(events) : ~CreateAt(i, x)
    BY <1>1, <1>4, <1>5 DEF RenewInv
  <2>1. CASE x = id
    BY <1>1, <1>2, <1>3, <1>6, <2>1 DEF RenewInv
  <2>2. CASE x # id
    BY <1>2, <2>2 DEF RenewInv
  <2> QED
    BY <2>1, <2>2
<1>10. RequestInv'
  <2> SUFFICES ASSUME NEW x \in Id, NEW i \in 1..Len(events), CreateAt(i, x)
               PROVE  /\ client'[x] # Absent => Binding(x) /\ client'[x].ip # NoIP
                      /\ pc \in Starting => cur # x
                      /\ \A j \in 1..Len(events) : CreateAt(j, x) => i = j
    BY <1>1, <1>4, <1>5 DEF RequestInv
  <2>1. x # id
    BY <1>6
  <2> QED
    BY <1>2, <2>1 DEF RequestInv
<1>11. NoLostClient'
  BY <1>1, <1>2, <1>4 DEF NoLostClient, Running, Registered
<1>12. MapIsExact'
  <2>1. c # Absent
    <3>1. a \in Record
      BY <1>1, RecordFields DEF RecordClient
    <3>2. c \in RecordClient
      BY <1>1, <3>1 DEF RecordClient
    <3> QED
      BY <3>2, NullsAreNotRecords
  <2>2. \A x \in Id : client[x] # Absent => client'[x] # Absent
    BY <1>2, <2>1
  <2>3. \A x \in IP : clients[x] # Absent => clients[x] \in Id
    BY DEF TypeInv, ScalarsOK
  <2> QED
    BY <1>1, <1>4, <2>2, <2>3 DEF MapIsExact, Running
<1> QED
  BY <1>7, <1>8, <1>9, <1>10, <1>11, <1>12

\* Put adds at most one event to the end of the queue.
LEMMA PutAppends ==
  ASSUME NEW id \in Id, NEW a \in Record, TypeInv, PutAllocation(id, a)
  PROVE  /\ watching' = watching
         /\ ~watching => events' = events
         /\ \A i \in 1..Len(events') :
              \/ i \in 1..Len(events) /\ events'[i] = events[i]
              \/ /\ i = Len(events) + 1
                 /\ events'[i].id = id /\ events'[i].val = a
<1> DEFINE e == [kind |-> "create", id |-> id, val |-> a]
<1>1. e \in RecordEvent /\ events \in Seq(RecordEvent)
  BY DEF RecordEvent, TypeInv, RecordsOK
<1>2. watching' = watching /\ events' \in {events, Append(events, e)}
      /\ (~watching => events' = events)
  BY DEF PutAllocation, Notified
<1>3. CASE events' = Append(events, e)
  <2>1. \A i \in 1..Len(events') :
          \/ i \in 1..Len(events) /\ events'[i] = events[i]
          \/ i = Len(events) + 1 /\ events'[i] = e
    BY <1>1, <1>3
  <2> QED
    BY <1>2, <2>1
<1>4. CASE events' = events
  BY <1>2, <1>4
<1> QED
  BY <1>2, <1>3, <1>4

LEMMA WriteRenewalKeepsClients ==
  ASSUME ClientInv, TypeInv', NEW id \in Id, WriteRenewal(id) PROVE ClientInv'
<1> USE DEF ClientInv
<1> DEFINE a == client[id].cb
           c == [client[id] EXCEPT !.cb = Absent]
<1>1. /\ client[id] \in RecordClient /\ a \in Record /\ a # Absent
      /\ client \in [Id -> RecordClient \cup {Absent}]
      /\ client' = [client EXCEPT ![id] = c]
      /\ PutAllocation(id, a)
      /\ UNCHANGED <<clients, pc, cur, rec, phase, todo, issued>>
  BY DEF WriteRenewal, RenewPut, Running, TypeInv, RecordsOK, RecordClient, thread,
     process, api
<1>2. /\ client'[id] = c /\ c.al = client[id].al /\ c.ip = client[id].ip /\ c.cb = Absent
      /\ c # Absent /\ client[id] # Absent
      /\ \A x \in Id \ {id} : client'[x] = client[x]
  <2>1. c \in RecordClient
    BY <1>1 DEF RecordClient
  <2> QED
    BY <1>1, <2>1, NullsAreNotRecords DEF RecordClient
<1>3. /\ watching' = watching
      /\ ~watching => events' = events
      /\ \A i \in 1..Len(events') :
           \/ i \in 1..Len(events) /\ events'[i] = events[i]
           \/ /\ i = Len(events) + 1
              /\ events'[i].id = id /\ events'[i].val = a
  BY <1>1, PutAppends
<1>4. \A x \in Id : Binding(x)' <=> Binding(x)
  BY <1>1 DEF Binding
<1>5. \A x \in Id, i \in 1..Len(events') :
        CreateAt(i, x)' => \/ i \in 1..Len(events) /\ CreateAt(i, x)
                           \/ i = Len(events) + 1 /\ x = id /\ a.state = "Unbound"
  BY <1>3 DEF CreateAt
<1>6. a.state = "Unbound" => /\ Binding(id) /\ client[id].ip # NoIP
                             /\ \A i \in 1..Len(events) : ~CreateAt(i, id)
  BY <1>1, <1>2 DEF RenewInv
<1>7. id \in issued
  BY <1>2 DEF FreshInv
<1>8. PhaseInv'
  BY <1>1, <1>2, <1>3 DEF PhaseInv
<1>9. ThreadInv'
  BY <1>1, <1>2 DEF ThreadInv
<1>10. RenewInv'
  <2> SUFFICES ASSUME NEW x \in Id, client'[x] # Absent
               PROVE  /\ client'[x].al.state = "Unbound" => Binding(x)
                      /\ client'[x].cb # Absent /\ client'[x].cb.state = "Unbound" =>
                           /\ Binding(x) /\ client'[x].ip # NoIP
                           /\ \A i \in 1..Len(events') : ~CreateAt(i, x)'
    BY <1>4 DEF RenewInv
  <2>1. CASE x = id
    BY <1>2, <2>1 DEF RenewInv
  <2>2. CASE x # id
    BY <1>2, <1>5, <2>2 DEF RenewInv
  <2> QED
    BY <2>1, <2>2
<1>11. RequestInv'
  <2> SUFFICES ASSUME NEW x \in Id, NEW i \in 1..Len(events'), CreateAt(i, x)'
               PROVE  /\ client'[x] # Absent => Binding(x) /\ client'[x].ip # NoIP
                      /\ pc \in Starting => cur # x
                      /\ \A j \in 1..Len(events') : CreateAt(j, x)' => i = j
    BY <1>1, <1>4 DEF RequestInv
  <2>1. CASE i \in 1..Len(events) /\ CreateAt(i, x)
    <3>1. /\ client[x] # Absent => Binding(x) /\ client[x].ip # NoIP
          /\ pc \in Starting => cur # x
          /\ \A j \in 1..Len(events) : CreateAt(j, x) => i = j
      BY <2>1 DEF RequestInv
    <3>2. \A j \in 1..Len(events') :
            CreateAt(j, x)' => CreateAt(j, x) /\ j \in 1..Len(events)
      BY <1>5, <1>6, <2>1
    <3> QED
      BY <1>2, <3>1, <3>2
  <2>2. CASE i = Len(events) + 1 /\ x = id /\ a.state = "Unbound"
    BY <1>2, <1>5, <1>6, <2>2 DEF Binding, Starting
  <2> QED
    BY <1>5, <2>1, <2>2
<1>12. TodoInv'
  BY <1>1, <1>2 DEF TodoInv
<1>13. FreshInv'
  <2>1. \A x \in Id \ issued : alloc'[x] = alloc[x]
    BY <1>1, <1>7 DEF PutAllocation, TypeInv, RecordsOK
  <2>2. \A x \in Id \ issued, i \in 1..Len(events') : events'[i].id # x
    BY <1>3, <1>7 DEF FreshInv
  <2> QED
    BY <1>1, <1>2, <1>7, <2>1, <2>2 DEF FreshInv
<1>14. NoLostClient'
  BY <1>1, <1>2, <1>4 DEF NoLostClient, Running, Registered
<1>15. MapIsExact'
  <2>1. \A x \in Id : client[x] # Absent => client'[x] # Absent
    BY <1>2
  <2>2. \A x \in IP : clients[x] # Absent => clients[x] \in Id
    BY DEF TypeInv, ScalarsOK
  <2> QED
    BY <1>1, <1>4, <2>1, <2>2 DEF MapIsExact, Running
<1> QED
  BY <1>8, <1>9, <1>10, <1>11, <1>12, <1>13, <1>14, <1>15

LEMMA RenewFailsKeepsClients ==
  ASSUME ClientInv, TypeInv', NEW id \in Id, RenewFails(id) PROVE ClientInv'
<1> USE DEF ClientInv
<1> DEFINE c == [client[id] EXCEPT !.cb = Absent]
<1>1. /\ client[id] \in RecordClient
      /\ client \in [Id -> RecordClient \cup {Absent}]
      /\ client' = [client EXCEPT ![id] = c]
      /\ UNCHANGED <<alloc, events, watching, clients, pc, cur, rec, phase, todo, issued>>
  BY DEF RenewFails, RenewPutFails, Running, TypeInv, RecordsOK, store, thread,
     process, api
<1>2. /\ client'[id] = c /\ c.al = client[id].al /\ c.ip = client[id].ip /\ c.cb = Absent
      /\ c # Absent /\ client[id] # Absent
      /\ \A x \in Id \ {id} : client'[x] = client[x]
  <2>1. c \in RecordClient
    BY <1>1 DEF RecordClient
  <2> QED
    BY <1>1, <2>1, NullsAreNotRecords DEF RecordClient
<1>3. \A x \in Id : /\ client'[x] # Absent <=> client[x] # Absent
                    /\ client[x] # Absent => /\ client'[x].al = client[x].al
                                             /\ client'[x].ip = client[x].ip
                                             /\ client'[x].cb \in {client[x].cb, Absent}
  BY <1>2
<1>4. /\ \A x \in Id : Binding(x)' <=> Binding(x)
      /\ \A x \in Id, i \in 1..Len(events) : CreateAt(i, x)' <=> CreateAt(i, x)
  BY <1>1 DEF Binding, CreateAt
<1>5. PhaseInv' /\ ThreadInv' /\ TodoInv' /\ FreshInv'
  BY <1>1, <1>3 DEF PhaseInv, ThreadInv, TodoInv, FreshInv, TypeInv, ThreadOK, Starting
<1>6. RenewInv'
  BY <1>1, <1>3, <1>4 DEF RenewInv
<1>7. RequestInv'
  BY <1>1, <1>3, <1>4 DEF RequestInv
<1>8. NoLostClient'
  BY <1>1, <1>3, <1>4 DEF NoLostClient, Running, Registered
<1>9. MapIsExact'
  <2>1. \A x \in IP : clients[x] # Absent => clients[x] \in Id
    BY DEF TypeInv, ScalarsOK
  <2> QED
    BY <1>1, <1>3, <1>4, <2>1 DEF MapIsExact, Running
<1> QED
  BY <1>5, <1>6, <1>7, <1>8, <1>9

LEMMA ObtainIPKeepsClients ==
  ASSUME ClientInv, TypeInv', NEW id \in Id, ObtainIP(id) PROVE ClientInv'
<1> USE DEF ClientInv
<1>1. /\ id \notin issued /\ issued' = issued \cup {id}
      /\ PutAllocation(id, NewAllocation)
      /\ UNCHANGED <<clients, client, pc, cur, rec, phase, todo>>
  BY DEF ObtainIP, dhcp, thread, process
<1>2. NewAllocation \in Record
  BY NullsAreNotValues DEF NewAllocation, Record, Allocation, AllocationState
<1>3. /\ watching' = watching
      /\ ~watching => events' = events
      /\ \A i \in 1..Len(events') :
           \/ i \in 1..Len(events) /\ events'[i] = events[i]
           \/ i = Len(events) + 1 /\ events'[i].id = id
  BY <1>1, <1>2, PutAppends
<1>4. /\ client[id] = Absent /\ cur # id
      /\ \A i \in 1..Len(events) : events[i].id # id
  BY <1>1 DEF FreshInv
<1>5. \A x \in Id : Binding(x)' <=> Binding(x)
  BY <1>1 DEF Binding
<1>6. \A x \in Id, i \in 1..Len(events') :
        CreateAt(i, x)' => \/ i \in 1..Len(events) /\ CreateAt(i, x) /\ x # id
                           \/ i = Len(events) + 1 /\ x = id
  BY <1>3, <1>4 DEF CreateAt
<1>7. PhaseInv'
  BY <1>1, <1>3 DEF PhaseInv
<1>8. ThreadInv' /\ TodoInv'
  BY <1>1 DEF ThreadInv, TodoInv
<1>9. RenewInv'
  BY <1>1, <1>4, <1>5, <1>6 DEF RenewInv
<1>10. RequestInv'
  <2> SUFFICES ASSUME NEW x \in Id, NEW i \in 1..Len(events'), CreateAt(i, x)'
               PROVE  /\ client[x] # Absent => Binding(x) /\ client[x].ip # NoIP
                      /\ pc \in Starting => cur # x
                      /\ \A j \in 1..Len(events') : CreateAt(j, x)' => i = j
    BY <1>1, <1>5 DEF RequestInv
  <2>1. CASE x = id
    BY <1>4, <1>6, <2>1
  <2>2. CASE x # id
    BY <1>6, <2>2 DEF RequestInv
  <2> QED
    BY <2>1, <2>2
<1>11. FreshInv'
  <2>1. \A x \in Id \ issued' : x # id /\ alloc'[x] = alloc[x]
    BY <1>1 DEF PutAllocation, TypeInv, RecordsOK
  <2> QED
    BY <1>1, <1>3, <2>1 DEF FreshInv
<1>12. NoLostClient' /\ MapIsExact'
  BY <1>1, <1>5 DEF NoLostClient, MapIsExact, Running, Registered, Binding
<1> QED
  BY <1>7, <1>8, <1>9, <1>10, <1>11, <1>12

-----------------------------------------------------------------------------
(* The invariant is inductive. *)

LEMMA ClientInvStarts == Init => ClientInv
<1> SUFFICES ASSUME Init PROVE ClientInv
  OBVIOUS
<1>1. TypeInv
  BY TypeInvStarts
<1>2. PhaseInv /\ ThreadInv /\ TodoInv
  BY DEF Init, StoreInit, DHCPInit, PhaseInv, ThreadInv, TodoInv, Starting, Storing
<1>3. RenewInv /\ RequestInv
  BY DEF Init, StoreInit, DHCPInit, RenewInv, RequestInv
<1>4. FreshInv
  <2>1. \A id \in Id : alloc[id] = Absent /\ client[id] = Absent /\ todo[id] = Absent
    BY DEF Init, StoreInit, DHCPInit, NoRecords
  <2>2. \A id \in Id : cur # id
    BY NullsAreNotRecords DEF Init
  <2>3. 1..Len(events) = {}
    BY DEF Init, StoreInit
  <2> QED
    BY <2>1, <2>2, <2>3 DEF FreshInv
<1>5. NoLostClient /\ MapIsExact
  BY DEF Init, DHCPInit, NoLostClient, MapIsExact, Running
<1> QED
  BY <1>1, <1>2, <1>3, <1>4, <1>5 DEF ClientInv

LEMMA ClientInvIsInductive == ClientInv /\ [Next]_vars => ClientInv'
<1> SUFFICES ASSUME ClientInv, [Next]_vars PROVE ClientInv'
  OBVIOUS
<1>1. TypeInv'
  BY TypeInvIsInductive DEF ClientInv
<1>2. CASE Startup
  BY <1>1, <1>2, HarmlessActions, HarmlessKeepsClients, BootKeepsClients,
     ConvergeKeepsClients, StartWatchKeepsClients, ConvergeUnboundKeepsClients,
     ConvergeDeleteKeepsClients
  DEF Startup
<1>3. CASE Handler
  BY <1>1, <1>3, HarmlessActions, HarmlessKeepsClients, OnCreateKeepsClients,
     OnDeleteKeepsClients, DeviceReadyKeepsClients, BoundKeepsClients,
     BindStopKeepsClients
  DEF Handler
<1>4. CASE Shutdown
  BY <1>1, <1>4, HarmlessActions, HarmlessKeepsClients, BeginStopKeepsClients,
     StopAllocationKeepsClients, HaltKeepsClients
  DEF Shutdown, Exit
<1>5. CASE Clients
  BY <1>1, <1>5, RenewKeepsClients, WriteRenewalKeepsClients DEF Clients
<1>6. CASE Failures
  BY <1>1, <1>6, HarmlessActions, HarmlessKeepsClients, HaltKeepsClients,
     RenewFailsKeepsClients
  DEF Failures, Crash
<1>7. CASE Environment
  BY <1>1, <1>7, HarmlessActions, HarmlessKeepsClients, ObtainIPKeepsClients
  DEF Environment
<1>8. CASE UNCHANGED vars
  <2>1. Harmless
    BY <1>8, SameQueue
    DEF Harmless, ThreadMovesOn, vars, store, dhcp, thread, process, api, ClientInv,
        ThreadInv, PhaseInv
  <2> QED
    BY <1>1, <2>1, HarmlessKeepsClients
<1> QED
  BY <1>2, <1>3, <1>4, <1>5, <1>6, <1>7, <1>8 DEF Next

LEMMA ClientInvHolds == Spec => []ClientInv
<1>1. Init => ClientInv
  BY ClientInvStarts
<1>2. ClientInv /\ [Next]_vars => ClientInv'
  BY ClientInvIsInductive
<1> QED
  BY <1>1, <1>2, PTL DEF Spec

-----------------------------------------------------------------------------

\* Every client that runs can be found in the map by its address, or is the one that
\* BindAllocationToInterface waits for: none is left behind by a bind that timed out
\* or was turned away, by a deletion or by a shutdown (dhcp.go:35-90).
THEOREM NoClientIsLost == Spec => []NoLostClient
<1>1. ClientInv => NoLostClient
  BY DEF ClientInv
<1> QED
  BY <1>1, ClientInvHolds, PTL

\* The map names running clients only, each once, so that Stop(ip) stops a client that
\* runs and no entry survives its client (dhcp.go:64, 79-90).
THEOREM TheMapIsExact == Spec => []MapIsExact
<1>1. ClientInv => MapIsExact
  BY DEF ClientInv
<1> QED
  BY <1>1, ClientInvHolds, PTL

\* No allocation ever gets a second client while the first one runs, although requests
\* reach the controller from the snapshot, from the watch and from late callbacks that
\* store an unbound allocation again (controller.go:64-157, dhcp.go:42-51).
THEOREM NoClientIsDoubled == Spec => []NoSecondClient
<1>1. ClientInv => NoSecondClient
  BY DEF ClientInv, ThreadInv, Starting, NoSecondClient, Running
<1> QED
  BY <1>1, ClientInvHolds, PTL
=============================================================================
