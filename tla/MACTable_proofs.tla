--------------------------- MODULE MACTable_proofs ---------------------------
(***************************************************************************)
(* What the MAC table guarantees for any number of controllers, requests,  *)
(* allocations and addresses.                                              *)
(***************************************************************************)
EXTENDS MACTable, TLAPS, SequenceTheorems

-----------------------------------------------------------------------------
(* The codec.                                                                *)

\* An allocation is read back as it was written: the custom methods hide the default
\* encoding of the address, an empty address included (model.go:593-676).
THEOREM RoundTrip ==
  ASSUME NEW state, NEW mac \in Parsable \cup {NoMAC}
  PROVE  /\ Decode(Encode([State |-> state, Interface |-> mac]))
              = [State |-> state, Interface |-> mac]
         /\ ~Undecodable(Encode([State |-> state, Interface |-> mac]))
<1> DEFINE a == [State |-> state, Interface |-> mac]
<1>1. /\ Encode(a).State = state
      /\ Encode(a).Interface = Text(mac)
  BY DEF Encode, Embed, AllocationAlias, MarshalInterface
<1>2. UnmarshalInterface(Text(mac)) = mac
  <2>1. CASE mac = NoMAC
    BY <2>1 DEF UnmarshalInterface
  <2>2. CASE mac # NoMAC
    <3>1. Text(mac) # Text(NoMAC)
      <4>1. Text(mac).of # Text(NoMAC).of
        BY <2>2 DEF Text
      <4> QED
        BY <4>1
    <3>2. ParseMAC(Text(mac)) = mac
      BY <2>2 DEF ParseMAC, Text
    <3> QED
      BY <3>1, <3>2 DEF UnmarshalInterface
  <2> QED
    BY <2>1, <2>2
<1>3. Decode(Encode(a)) = a
  BY <1>1, <1>2 DEF Decode
<1>4. mac # Malformed
  BY NoMACIsNotParsable
<1> HIDE DEF a
<1> QED
  BY <1>3, <1>4 DEF Undecodable, a

\* An address that ParseMAC does not accept makes the record unreadable.
LEMMA OnlyParsableIsDecoded ==
  ASSUME NEW state, NEW mac, mac \notin Parsable \cup {NoMAC}
  PROVE  Undecodable(Encode([State |-> state, Interface |-> mac]))
<1> DEFINE a == [State |-> state, Interface |-> mac]
<1>1. Encode(a).Interface = Text(mac)
  BY DEF Encode, Embed, AllocationAlias, MarshalInterface
<1>2. Text(mac) # Text(NoMAC)
  <2>1. Text(mac).of # Text(NoMAC).of
    BY DEF Text
  <2> QED
    BY <2>1
<1>3. UnmarshalInterface(Text(mac)) = Malformed
  BY <1>2 DEF UnmarshalInterface, ParseMAC, Text
<1> QED
  BY <1>1, <1>3 DEF Undecodable, Decode

LEMMA StoredAddress ==
  ASSUME NEW object \in Object
  PROVE  /\ Decode(object).Interface \in MAC \cup {NoMAC}
         /\ ~Undecodable(object)
<1>1. PICK a \in Allocation : object = Encode(a)
  BY DEF Object
<1>2. a = [State |-> a.State, Interface |-> a.Interface] /\ a.Interface \in MAC \cup {NoMAC}
  BY DEF Allocation
<1>3. a.Interface \in Parsable \cup {NoMAC}
  BY <1>2, TableAssumption
<1>4. Decode(object) = a /\ ~Undecodable(object)
  BY <1>1, <1>2, <1>3, RoundTrip
<1> QED
  BY <1>2, <1>4

-----------------------------------------------------------------------------
(* Type correctness.                                                         *)

ThreadInv ==
  /\ \A p \in Process :
       pc[p] \in {"popmac.delete", "device", "bind", "putmac.check", "putmac.write"}
         => hand[p] \in MAC
  /\ \A c \in Controller :
       /\ pc[c] \in {"popmac.delete", "device", "bind", "remove"} => cur[c] \in Id
       /\ pc[c] = "bind" => client[c][cur[c]] = hand[c]
  /\ \A r \in Request : pc[r] \in {"down", "ready", "putmac.check", "putmac.write", "done"}

TypeInv == TypeOK /\ ThreadInv

USE DEF table, thread, request

LEMMA QueueTypes ==
  ASSUME TypeInv
  PROVE  /\ \A kind \in {"create", "delete"}, id \in Id, mac \in MAC \cup {NoMAC} :
              Notify(kind, id, mac) => events' \in [Controller -> Seq(Event)]
         /\ \A id \in Id : Stored(id) => MACOf(id) \in MAC \cup {NoMAC}
         /\ \A c \in Controller, kind \in {"create", "delete"} :
              NextEvent(c, kind) => /\ events' \in [Controller -> Seq(Event)]
                                    /\ Head(events[c]) \in Event
<1>1. ASSUME NEW kind \in {"create", "delete"}, NEW id \in Id, NEW mac \in MAC \cup {NoMAC},
             Notify(kind, id, mac)
      PROVE  events' \in [Controller -> Seq(Event)]
  <2>1. [kind |-> kind, id |-> id, mac |-> mac] \in Event
    BY DEF Event
  <2>2. events \in [Controller -> Seq(Event)]
    BY DEF TypeInv, TypeOK
  <2> QED
    BY <1>1, <2>1, <2>2 DEF Notify
<1>2. ASSUME NEW id \in Id, Stored(id)
      PROVE  MACOf(id) \in MAC \cup {NoMAC}
  BY <1>2, StoredAddress DEF TypeInv, TypeOK, Stored, MACOf
<1>3. ASSUME NEW c \in Controller, NEW kind \in {"create", "delete"}, NextEvent(c, kind)
      PROVE  /\ events' \in [Controller -> Seq(Event)]
             /\ Head(events[c]) \in Event
  BY <1>3 DEF NextEvent, TypeInv, TypeOK
<1> QED
  BY <1>1, <1>2, <1>3

LEMMA RecordTypes ==
  ASSUME TypeInv, NEW id \in Id
  PROVE  /\ \A state \in {"Unbound", "Bound"}, mac \in MAC \cup {NoMAC} :
              PutAllocation(id, state, mac) =>
                /\ record' \in [Id -> Object \cup {Absent}]
                /\ events' \in [Controller -> Seq(Event)]
         /\ RemoveAllocation(id) =>
              /\ record' \in [Id -> Object \cup {Absent}]
              /\ events' \in [Controller -> Seq(Event)]
<1> USE DEF TypeInv, TypeOK
<1>1. ASSUME NEW state \in {"Unbound", "Bound"}, NEW mac \in MAC \cup {NoMAC},
             PutAllocation(id, state, mac)
      PROVE  /\ record' \in [Id -> Object \cup {Absent}]
             /\ events' \in [Controller -> Seq(Event)]
  <2>1. Encode([State |-> state, Interface |-> mac]) \in Object
    <3>1. [State |-> state, Interface |-> mac] \in Allocation
      BY DEF Allocation
    <3> QED
      BY <3>1 DEF Object
  <2>2. record' \in [Id -> Object \cup {Absent}]
    BY <1>1, <2>1 DEF PutAllocation
  <2>3. events' \in [Controller -> Seq(Event)]
    BY <1>1, QueueTypes DEF PutAllocation
  <2> QED
    BY <2>2, <2>3
<1>2. ASSUME RemoveAllocation(id)
      PROVE  /\ record' \in [Id -> Object \cup {Absent}]
             /\ events' \in [Controller -> Seq(Event)]
  <2>1. record' \in [Id -> Object \cup {Absent}]
    BY <1>2 DEF RemoveAllocation
  <2>2. events' \in [Controller -> Seq(Event)]
    BY <1>2, QueueTypes DEF RemoveAllocation
  <2> QED
    BY <2>1, <2>2
<1> QED
  BY <1>1, <1>2

LEMMA InitTypes == Init => TypeInv
<1> SUFFICES ASSUME Init PROVE TypeInv
  OBVIOUS
<1>1. << >> \in Seq(Event) /\ << >> \in Seq(Entry)
  BY EmptySeq
<1>2. TypeOK
  BY <1>1 DEF Init, TypeOK, PC, NoClients
<1>3. ThreadInv
  BY DEF Init, ThreadInv, Process
<1> QED
  BY <1>2, <1>3 DEF TypeInv

LEMMA ControllerTypes ==
  ASSUME TypeInv, NEW c \in Controller, ControllerStep(c), contended' \in SUBSET MAC
  PROVE  TypeInv'
<1> USE DEF TypeInv, TypeOK, ThreadInv, PC, Process
<1>0. Absent \notin Id /\ ConfigMAC \in Seq(Entry) /\ << >> \in Seq(Event) /\ << >> \in Seq(Entry)
  BY AbsentIsNotStored, TableAssumption, EmptySeq DEF Entry
<1>1. CASE Start(c)
  BY <1>0, <1>1 DEF Start
<1>2. CASE StartWatch(c)
  BY <1>2 DEF StartWatch, Idle
<1>3. CASE Crash(c)
  BY <1>0, <1>3 DEF Crash, NoClients
<1>4. CASE OnCreate(c)
  <2>1. events' \in [Controller -> Seq(Event)] /\ Head(events[c]).id \in Id
    BY <1>4, QueueTypes DEF OnCreate, Event
  <2>2. CASE UNCHANGED thread
    BY <1>4, <2>1, <2>2 DEF OnCreate, NextEvent
  <2>3. CASE \E m \in pool : /\ pc' = [pc EXCEPT ![c] = "popmac.delete"]
                             /\ hand' = [hand EXCEPT ![c] = m]
                             /\ cur' = [cur EXCEPT ![c] = Head(events[c]).id]
    <3>1. PICK m \in pool : /\ pc' = [pc EXCEPT ![c] = "popmac.delete"]
                            /\ hand' = [hand EXCEPT ![c] = m]
                            /\ cur' = [cur EXCEPT ![c] = Head(events[c]).id]
      BY <2>3
    <3>2. /\ UNCHANGED <<pool, record, watching, todo, call, omitted, client, issued>>
          /\ m \in MAC /\ c \in Process /\ c \notin Request
      BY <1>4, TableAssumption DEF OnCreate, NextEvent
    <3>3. TypeOK'
      BY <2>1, <3>1, <3>2
    <3>4. ThreadInv'
      BY <2>1, <3>1, <3>2
    <3> QED
      BY <3>3, <3>4
  <2> QED
    BY <1>4, <2>2, <2>3 DEF OnCreate
<1>5. CASE PopMACDelete(c)
  BY <1>5 DEF PopMACDelete, SetPool, GoTo
<1>6. CASE PopMACFails(c)
  BY <1>6 DEF PopMACFails, SetPool, Return
<1>7. CASE DeviceReady(c)
  BY <1>7 DEF DeviceReady, GoTo
<1>8. CASE DeviceFails(c)
  BY <1>8 DEF DeviceFails, GoTo
<1>9. CASE BindFails(c)
  BY <1>9 DEF BindFails, GoTo
<1>10. CASE PutBound(c)
  <2>1. record' \in [Id -> Object \cup {Absent}] /\ events' \in [Controller -> Seq(Event)]
    BY <1>10, RecordTypes DEF PutBound
  <2> QED
    BY <1>10, <2>1 DEF PutBound, PutAllocation, Return
<1>11. CASE RemoveUnbound(c)
  <2>1. record' \in [Id -> Object \cup {Absent}] /\ events' \in [Controller -> Seq(Event)]
    BY <1>11, RecordTypes DEF RemoveUnbound
  <2> QED
    BY <1>11, <2>1 DEF RemoveUnbound, RemoveAllocation, Return
<1>12. CASE OnDelete(c)
  <2>1. events' \in [Controller -> Seq(Event)] /\ Head(events[c]).mac \in MAC \cup {NoMAC}
    BY <1>12, QueueTypes DEF OnDelete, Event
  <2>2. CASE Head(events[c]).mac = NoMAC
    BY <1>12, <2>1, <2>2 DEF OnDelete, NextEvent
  <2>3. CASE Head(events[c]).mac # NoMAC
    <3> DEFINE m == Head(events[c]).mac
    <3>1. /\ client' = [client EXCEPT ![c] =
                          [id \in Id |-> IF IsClient(c, id, m) THEN NoMAC ELSE @[id]]]
          /\ pc' = [pc EXCEPT ![c] = "putmac.check"]
          /\ hand' = [hand EXCEPT ![c] = m]
          /\ UNCHANGED <<pool, record, watching, cur, todo, call, omitted, issued>>
          /\ m \in MAC
      BY <1>12, <2>1, <2>3 DEF OnDelete, NextEvent, With
    <3> HIDE DEF m
    <3>2. TypeOK'
      BY <2>1, <3>1
    <3>3. ThreadInv'
      BY <3>1, TableAssumption
    <3> QED
      BY <3>2, <3>3
  <2> QED
    BY <2>2, <2>3
<1>13. CASE \E id \in Id : Renew(c, id)
  <2>1. PICK id \in Id : Renew(c, id)
    BY <1>13
  <2>2. record' \in [Id -> Object \cup {Absent}] /\ events' \in [Controller -> Seq(Event)]
    BY <2>1, RecordTypes DEF Renew
  <2> QED
    BY <2>1, <2>2 DEF Renew, PutAllocation
<1> QED
  BY <1>1, <1>2, <1>3, <1>4, <1>5, <1>6, <1>7, <1>8, <1>9, <1>10, <1>11, <1>12, <1>13
     DEF ControllerStep

LEMMA ProcessTypes ==
  ASSUME TypeInv, NEW p \in Process, contended' \in SUBSET MAC,
         PutMACCheck(p) \/ PutMACWrite(p) \/ Reject(p) \/ \E m \in MAC : Register(p, m)
  PROVE  TypeInv'
<1> USE DEF TypeInv, TypeOK, ThreadInv, PC, Process
<1>0. Absent \notin Id /\ << >> \in Seq(Entry)
  BY AbsentIsNotStored, EmptySeq
<1>1. CASE PutMACCheck(p)
  <2>1. CASE Return(p) /\ AfterError(p)
    BY <1>0, <1>1, <2>1, TableAssumption DEF PutMACCheck, Return, AfterError
  <2>2. CASE GoTo(p, "putmac.write") /\ UNCHANGED todo
    BY <1>1, <2>2 DEF PutMACCheck, GoTo
  <2> QED
    BY <1>1, <2>1, <2>2 DEF PutMACCheck
<1>2. CASE PutMACWrite(p)
  BY <1>2, TableAssumption DEF PutMACWrite, SetPool, Return
<1>3. CASE Reject(p)
  BY <1>0, <1>3 DEF Reject, NextEntry, Entry
<1>4. CASE \E m \in MAC : Register(p, m)
  BY <1>4 DEF Register, NextEntry, With, Idle, Entry
<1> QED
  BY <1>1, <1>2, <1>3, <1>4

LEMMA RequestTypes ==
  ASSUME TypeInv, NEW r \in Request, RequestStep(r), contended' \in SUBSET MAC
  PROVE  TypeInv'
<1> USE DEF TypeInv, TypeOK, ThreadInv, PC, Process
<1>1. CASE \E kind \in {"register", "add", "remove"}, list \in Body : Receive(r, kind, list)
  <2>1. Body \subseteq Seq(Entry)
    BY TableAssumption DEF Entry
  <2> QED
    BY <1>1, <2>1, TableAssumption DEF Receive
<1>2. CASE Answer(r)
  BY <1>2, TableAssumption DEF Answer, Idle
<1>3. CASE \E m \in MAC : RemoveMAC(r, m)
  BY <1>3 DEF RemoveMAC, NextEntry, SetPool
<1> QED
  BY <1>1, <1>2, <1>3 DEF RequestStep

LEMMA EnvironmentTypes ==
  ASSUME TypeInv, NEW id \in Id, ObtainIP(id) \/ Release(id), contended' \in SUBSET MAC
  PROVE  TypeInv'
<1> USE DEF TypeInv, TypeOK, ThreadInv, PC
<1>1. record' \in [Id -> Object \cup {Absent}] /\ events' \in [Controller -> Seq(Event)]
  BY RecordTypes DEF ObtainIP, Release
<1>2. CASE ObtainIP(id)
  BY <1>1, <1>2 DEF ObtainIP, PutAllocation
<1>3. CASE Release(id)
  BY <1>1, <1>3 DEF Release, RemoveAllocation
<1> QED
  BY <1>2, <1>3

LEMMA NextTypes == TypeInv /\ [Next]_vars => TypeInv'
<1> SUFFICES ASSUME TypeInv, [Next]_vars PROVE TypeInv'
  OBVIOUS
<1>1. CASE Next
  <2>1. contended' \in SUBSET MAC
    BY <1>1 DEF Next, TypeInv, TypeOK
  <2> QED
    BY <1>1, <2>1, ControllerTypes, ProcessTypes, RequestTypes, EnvironmentTypes DEF Next, Step
<1>2. CASE UNCHANGED vars
  BY <1>2 DEF vars, TypeInv, TypeOK, ThreadInv
<1> QED
  BY <1>1, <1>2

\* Every variable keeps its type: records and events hold addresses that ParseMAC accepts,
\* or none, although each record is read back from its encoding (model.go:593-676).
THEOREM TypeCorrect == Spec => []TypeOK
<1>1. TypeInv => TypeOK
  BY DEF TypeInv
<1> QED
  BY InitTypes, NextTypes, <1>1, PTL DEF Spec

-----------------------------------------------------------------------------
(* Addresses that no two actors have handled at the same time.              *)

\* Such an address is in one place: with one record and its clients, or in one hand, or
\* with a client, or in the pool.
FreeInv(m) ==
  /\ ~Overlap(m)
  /\ \A id \in Id : HoldsMAC(id, m) =>
       /\ m \notin pool
       /\ \A other \in Id : HoldsMAC(other, m) => other = id
       /\ \A p \in Process : ~InHand(p, m)
       /\ \A c \in Controller, other \in Id : IsClient(c, other, m) => other = id
  /\ \A c \in Controller, id \in Id : IsClient(c, id, m) => m \notin pool
  /\ \A p \in Process : InHand(p, m) /\ pc[p] = "device" => m \notin pool

TableInv == TypeInv /\ \A m \in MAC \ contended : FreeInv(m)

LEMMA TableInvImplies == TableInv => UncontendedIsExclusive
  BY DEF TableInv, FreeInv, UncontendedIsExclusive

LEMMA InitTable == Init => TableInv
<1> SUFFICES ASSUME Init, NEW m \in MAC PROVE FreeInv(m)
  BY InitTypes DEF TableInv
<1>1. m # NoMAC
  BY TableAssumption, NoMACIsNotParsable
<1>2. /\ \A p \in Process : ~InHand(p, m)
      /\ \A c \in Controller, id \in Id : ~IsClient(c, id, m)
      /\ \A id \in Id : ~HoldsMAC(id, m)
  BY <1>1 DEF Init, InHand, IsClient, HoldsMAC, Stored, NoClients
<1> QED
  BY <1>2 DEF FreeInv, Overlap

\* Whose record has the address after a Put, and after a Remove.
LEMMA PutHolds ==
  ASSUME TypeInv, NEW id \in Id, NEW state \in {"Unbound", "Bound"},
         NEW mac \in MAC \cup {NoMAC}, PutAllocation(id, state, mac)
  PROVE  \A m \in MAC, other \in Id :
           HoldsMAC(other, m)' <=> IF other = id THEN mac = m ELSE HoldsMAC(other, m)
<1> DEFINE object == Encode([State |-> state, Interface |-> mac])
<1>1. object # Absent
  <2>1. [State |-> state, Interface |-> mac] \in Allocation
    BY DEF Allocation
  <2>2. object \in Object
    BY <2>1 DEF Object
  <2> QED
    BY <2>2, AbsentIsNotStored
<1>2. Decode(object).Interface = mac
  BY RoundTrip, TableAssumption
<1> HIDE DEF object
<1>3. record' = [record EXCEPT ![id] = object] /\ record \in [Id -> Object \cup {Absent}]
  BY DEF PutAllocation, object, TypeInv, TypeOK
<1> QED
  BY <1>1, <1>2, <1>3 DEF HoldsMAC, Stored, MACOf

LEMMA RemoveHolds ==
  ASSUME TypeInv, NEW id \in Id, RemoveAllocation(id)
  PROVE  \A m \in MAC, other \in Id : HoldsMAC(other, m)' => HoldsMAC(other, m)
<1>1. record' = [record EXCEPT ![id] = Absent] /\ record \in [Id -> Object \cup {Absent}]
  BY DEF RemoveAllocation, TypeInv, TypeOK
<1> QED
  BY <1>1 DEF HoldsMAC, Stored, MACOf

\* Nothing new happens to the address.
Quiet(m) ==
  /\ \A id \in Id : HoldsMAC(id, m)' => HoldsMAC(id, m)
  /\ \A c \in Controller, id \in Id : IsClient(c, id, m)' => IsClient(c, id, m)
  /\ \A p \in Process :
       InHand(p, m)' => InHand(p, m) /\ (pc'[p] = "device" => pc[p] = "device")
  /\ m \in pool' => m \in pool

LEMMA QuietKeepsFree ==
  ASSUME NEW m \in MAC, FreeInv(m), ~Overlap(m)', Quiet(m)
  PROVE  FreeInv(m)'
  BY DEF FreeInv, Quiet

LEMMA RecordsStay ==
  ASSUME UNCHANGED record
  PROVE  \A m \in MAC, id \in Id : HoldsMAC(id, m)' <=> HoldsMAC(id, m)
  BY DEF HoldsMAC, Stored, MACOf

LEMMA ClientsStay ==
  ASSUME UNCHANGED client
  PROVE  \A m \in MAC, c \in Controller, id \in Id : IsClient(c, id, m)' <=> IsClient(c, id, m)
  BY DEF IsClient

LEMMA HandsStay ==
  ASSUME UNCHANGED <<pc, hand>>
  PROVE  \A m \in MAC, p \in Process : InHand(p, m)' <=> InHand(p, m)
  BY DEF InHand

-----------------------------------------------------------------------------
(* The steps that hand an address on.                                        *)

\* PopMAC takes an address that is in the pool, hence nowhere else.
LEMMA OnCreateKeepsFree ==
  ASSUME TypeInv, NEW c \in Controller, OnCreate(c),
         NEW m \in MAC, FreeInv(m), ~Overlap(m)'
  PROVE  FreeInv(m)'
<1>1. /\ \A id \in Id : HoldsMAC(id, m)' <=> HoldsMAC(id, m)
      /\ \A d \in Controller, id \in Id : IsClient(d, id, m)' <=> IsClient(d, id, m)
      /\ pool' = pool
  BY RecordsStay, ClientsStay DEF OnCreate, NextEvent
<1>2. CASE UNCHANGED thread
  BY <1>1, <1>2, HandsStay, QuietKeepsFree DEF Quiet
<1>3. CASE \E n \in pool : /\ pc' = [pc EXCEPT ![c] = "popmac.delete"]
                           /\ hand' = [hand EXCEPT ![c] = n]
  <2>1. PICK n \in pool : /\ pc' = [pc EXCEPT ![c] = "popmac.delete"]
                          /\ hand' = [hand EXCEPT ![c] = n]
    BY <1>3
  <2>2. pc \in [Process -> PC] /\ hand \in [Process -> MAC \cup {NoMAC}] /\ c \in Process
    BY DEF TypeInv, TypeOK, Process
  <2>3. \A p \in Process : InHand(p, m)' => InHand(p, m) \/ (p = c /\ n = m)
    BY <2>1, <2>2 DEF InHand
  <2>4. \A p \in Process : InHand(p, m)' /\ pc'[p] = "device" => InHand(p, m) /\ pc[p] = "device"
    <3> SUFFICES ASSUME NEW p \in Process, InHand(p, m)', pc'[p] = "device"
                 PROVE  InHand(p, m) /\ pc[p] = "device"
      OBVIOUS
    <3>1. p # c
      BY <2>1, <2>2
    <3>2. pc'[p] = pc[p] /\ hand'[p] = hand[p]
      BY <2>1, <2>2, <3>1
    <3> QED
      BY <3>2 DEF InHand
  <2>5. n = m => \A id \in Id : ~HoldsMAC(id, m)
    BY DEF FreeInv
  <2> QED
    BY <1>1, <2>3, <2>4, <2>5 DEF FreeInv
<1> QED
  BY <1>2, <1>3 DEF OnCreate

LEMMA PopMACDeleteKeepsFree ==
  ASSUME TypeInv, NEW c \in Controller, PopMACDelete(c),
         NEW m \in MAC, FreeInv(m), ~Overlap(m)'
  PROVE  FreeInv(m)'
<1>1. /\ \A id \in Id : HoldsMAC(id, m)' <=> HoldsMAC(id, m)
      /\ \A d \in Controller, id \in Id : IsClient(d, id, m)' <=> IsClient(d, id, m)
      /\ pool' = pool \ {hand[c]}
  BY RecordsStay, ClientsStay DEF PopMACDelete, SetPool
<1>2. pc \in [Process -> PC] /\ c \in Process
  BY DEF TypeInv, TypeOK, Process
<1>3. \A p \in Process : /\ InHand(p, m)' => InHand(p, m)
                         /\ InHand(p, m)' /\ pc'[p] = "device" =>
                              pc[p] = "device" \/ (p = c /\ hand[c] = m)
  <2> SUFFICES ASSUME NEW p \in Process, InHand(p, m)'
               PROVE  InHand(p, m) /\ (pc'[p] = "device" => pc[p] = "device" \/ (p = c /\ hand[c] = m))
    OBVIOUS
  <2>1. hand' = hand /\ pc[c] = "popmac.delete" /\ pc' = [pc EXCEPT ![c] = "device"]
    BY DEF PopMACDelete, GoTo
  <2>2. CASE p = c
    BY <1>2, <2>1, <2>2 DEF InHand
  <2>3. CASE p # c
    BY <1>2, <2>1, <2>3 DEF InHand
  <2> QED
    BY <2>2, <2>3
<1> QED
  BY <1>1, <1>3 DEF FreeInv

\* The client of the new interface.
LEMMA DeviceReadyKeepsFree ==
  ASSUME TypeInv, NEW c \in Controller, DeviceReady(c),
         NEW m \in MAC, FreeInv(m), ~Overlap(m)'
  PROVE  FreeInv(m)'
<1>1. /\ \A id \in Id : HoldsMAC(id, m)' <=> HoldsMAC(id, m)
      /\ pool' = pool /\ hand' = hand
  BY RecordsStay DEF DeviceReady, GoTo
<1>2. /\ pc \in [Process -> PC] /\ c \in Process
      /\ client \in [Controller -> [Id -> MAC \cup {NoMAC}]] /\ cur[c] \in Id
  BY DEF TypeInv, TypeOK, ThreadInv, Process, DeviceReady
<1>3. \A p \in Process : InHand(p, m)' => InHand(p, m) /\ (pc'[p] = "device" => pc[p] = "device")
  BY <1>2 DEF DeviceReady, GoTo, InHand
<1>4. \A d \in Controller, id \in Id : IsClient(d, id, m)' => IsClient(d, id, m) \/ hand[c] = m
  BY <1>2 DEF DeviceReady, IsClient
<1>5. hand[c] = m => InHand(c, m) /\ pc[c] = "device"
  BY DEF DeviceReady, InHand
<1>6. hand[c] = m => m \notin pool /\ \A id \in Id : ~HoldsMAC(id, m)
  BY <1>2, <1>5 DEF FreeInv
<1> QED
  BY <1>1, <1>3, <1>4, <1>6 DEF FreeInv

\* PutMAC is about to write: no record has the address, and no client either, for its
\* client and the thread that writes would be two.
LEMMA PutMACCheckKeepsFree ==
  ASSUME TypeInv, NEW p \in Process, PutMACCheck(p),
         NEW m \in MAC, FreeInv(m), ~Overlap(m)'
  PROVE  FreeInv(m)'
<1>1. /\ \A id \in Id : HoldsMAC(id, m)' <=> HoldsMAC(id, m)
      /\ \A d \in Controller, id \in Id : IsClient(d, id, m)' <=> IsClient(d, id, m)
      /\ pool' = pool
  BY RecordsStay, ClientsStay DEF PutMACCheck
<1>2. pc \in [Process -> PC] /\ hand \in [Process -> MAC \cup {NoMAC}]
  BY DEF TypeInv, TypeOK
<1>3. CASE Return(p)
  <2>1. \A q \in Process :
          InHand(q, m)' => InHand(q, m) /\ (pc'[q] = "device" => pc[q] = "device")
    BY <1>2, <1>3 DEF Return, InHand
  <2> QED
    BY <1>1, <2>1, QuietKeepsFree DEF Quiet
<1>4. CASE GoTo(p, "putmac.write") /\ ~MACInUse(hand[p])
  <2>1. \A q \in Process : InHand(q, m)' => InHand(q, m) \/ (q = p /\ hand[p] = m)
    BY <1>2, <1>4 DEF GoTo, InHand
  <2>2. \A q \in Process : InHand(q, m)' /\ pc'[q] = "device" => InHand(q, m) /\ pc[q] = "device"
    <3> SUFFICES ASSUME NEW q \in Process, InHand(q, m)', pc'[q] = "device"
                 PROVE  InHand(q, m) /\ pc[q] = "device"
      OBVIOUS
    <3>1. q # p
      BY <1>2, <1>4 DEF GoTo
    <3> QED
      BY <1>2, <1>4, <3>1 DEF GoTo, InHand
  <2>3. hand[p] = m => \A id \in Id : ~HoldsMAC(id, m)
    BY <1>4 DEF MACInUse
  <2> QED
    BY <1>1, <2>1, <2>2, <2>3 DEF FreeInv
<1> QED
  BY <1>3, <1>4 DEF PutMACCheck

LEMMA PutMACWriteKeepsFree ==
  ASSUME TypeInv, NEW p \in Process, PutMACWrite(p),
         NEW m \in MAC, FreeInv(m), ~Overlap(m)'
  PROVE  FreeInv(m)'
<1>1. /\ \A id \in Id : HoldsMAC(id, m)' <=> HoldsMAC(id, m)
      /\ \A d \in Controller, id \in Id : IsClient(d, id, m)' <=> IsClient(d, id, m)
      /\ pool' = pool \cup {hand[p]}
  BY RecordsStay, ClientsStay DEF PutMACWrite, SetPool
<1>2. pc \in [Process -> PC] /\ hand \in [Process -> MAC \cup {NoMAC}]
  BY DEF TypeInv, TypeOK
<1>3. \A q \in Process :
        InHand(q, m)' => InHand(q, m) /\ (pc'[q] = "device" => pc[q] = "device") /\ q # p
  <2>1. m # NoMAC
    BY TableAssumption, NoMACIsNotParsable
  <2> QED
    BY <1>2, <2>1 DEF PutMACWrite, Return, InHand
<1>4. hand[p] = m => InHand(p, m)
  BY DEF PutMACWrite, InHand
<1>5. hand[p] = m => /\ \A id \in Id : ~HoldsMAC(id, m)
                     /\ \A c \in Controller, id \in Id : ~IsClient(c, id, m)
                     /\ \A q \in Process : q # p => ~InHand(q, m)
  BY <1>4 DEF FreeInv, Overlap
<1> QED
  BY <1>1, <1>3, <1>5 DEF FreeInv

\* A client's controller stores the address under the client's allocation.
LEMMA PutOfClientKeepsFree ==
  ASSUME TypeInv, NEW c \in Controller, NEW id \in Id,
         PutAllocation(id, "Bound", client[c][id]), client[c][id] # NoMAC, UNCHANGED client,
         NEW m \in MAC, FreeInv(m), ~Overlap(m)',
         \A p \in Process : InHand(p, m)' => InHand(p, m) /\ (pc'[p] = "device" => pc[p] = "device")
  PROVE  FreeInv(m)'
<1>1. client[c][id] \in MAC \cup {NoMAC}
  BY DEF TypeInv, TypeOK
<1>2. \A other \in Id : HoldsMAC(other, m)' <=>
                          IF other = id THEN client[c][id] = m ELSE HoldsMAC(other, m)
  BY <1>1, PutHolds
<1>3. /\ \A d \in Controller, other \in Id : IsClient(d, other, m)' <=> IsClient(d, other, m)
      /\ pool' = pool
  BY ClientsStay DEF PutAllocation
<1>4. CASE client[c][id] # m
  BY <1>2, <1>3, <1>4, QuietKeepsFree DEF Quiet
<1>5. CASE client[c][id] = m
  <2>1. IsClient(c, id, m)
    BY <1>5 DEF IsClient
  <2>2. m \notin pool
    BY <2>1 DEF FreeInv
  <2>3. \A p \in Process : ~InHand(p, m)
    BY <2>1 DEF FreeInv, Overlap
  <2>4. \A d \in Controller, other \in Id : IsClient(d, other, m) => other = id
    BY <2>1 DEF FreeInv, Overlap
  <2>5. \A other \in Id : HoldsMAC(other, m) => other = id
    BY <2>1 DEF FreeInv
  <2>6. \A other \in Id : HoldsMAC(other, m)' => other = id
    BY <1>2, <2>5
  <2> QED
    BY <1>3, <2>2, <2>3, <2>4, <2>6 DEF FreeInv
<1> QED
  BY <1>4, <1>5

-----------------------------------------------------------------------------
(* The steps that do not.                                                    *)

LEMMA ControllerIsQuiet ==
  ASSUME TypeInv, NEW c \in Controller, NEW m \in MAC,
         \/ Start(c) \/ StartWatch(c) \/ Crash(c) \/ PopMACFails(c) \/ DeviceFails(c)
         \/ BindFails(c) \/ RemoveUnbound(c) \/ OnDelete(c)
  PROVE  Quiet(m)
<1>0. /\ m # NoMAC
      /\ pc \in [Process -> PC] /\ hand \in [Process -> MAC \cup {NoMAC}] /\ c \in Process
      /\ client \in [Controller -> [Id -> MAC \cup {NoMAC}]]
  BY TableAssumption, NoMACIsNotParsable DEF TypeInv, TypeOK, Process
<1> USE DEF Quiet
<1>1. CASE Start(c)
  BY <1>0, <1>1, RecordsStay, ClientsStay DEF Start, InHand
<1>2. CASE StartWatch(c)
  BY <1>2, RecordsStay, ClientsStay, HandsStay DEF StartWatch
<1>3. CASE Crash(c)
  <2>1. \A p \in Process : InHand(p, m)' => InHand(p, m) /\ (pc'[p] = "device" => pc[p] = "device")
    BY <1>0, <1>3 DEF Crash, InHand
  <2>2. \A d \in Controller, id \in Id : IsClient(d, id, m)' => IsClient(d, id, m)
    BY <1>0, <1>3 DEF Crash, IsClient, NoClients
  <2> QED
    BY <1>3, <2>1, <2>2, RecordsStay DEF Crash
<1>4. CASE PopMACFails(c)
  <2>1. \A p \in Process : InHand(p, m)' => InHand(p, m) /\ (pc'[p] = "device" => pc[p] = "device")
    BY <1>0, <1>4 DEF PopMACFails, Return, InHand
  <2> QED
    BY <1>4, <2>1, RecordsStay, ClientsStay DEF PopMACFails, SetPool
<1>5. CASE DeviceFails(c)
  BY <1>0, <1>5, RecordsStay, ClientsStay DEF DeviceFails, GoTo, InHand
<1>6. CASE BindFails(c)
  <2>1. \A p \in Process : InHand(p, m)' => InHand(p, m) /\ (pc'[p] = "device" => pc[p] = "device")
    BY <1>0, <1>6 DEF BindFails, GoTo, InHand
  <2>2. \A d \in Controller, id \in Id : IsClient(d, id, m)' => IsClient(d, id, m)
    BY <1>0, <1>6 DEF BindFails, IsClient
  <2> QED
    BY <1>6, <2>1, <2>2, RecordsStay DEF BindFails
<1>7. CASE RemoveUnbound(c)
  <2>1. \A p \in Process : InHand(p, m)' => InHand(p, m) /\ (pc'[p] = "device" => pc[p] = "device")
    BY <1>0, <1>7 DEF RemoveUnbound, Return, InHand
  <2>2. cur[c] \in Id
    BY <1>7 DEF RemoveUnbound, TypeInv, ThreadInv
  <2> QED
    BY <1>7, <2>1, <2>2, RemoveHolds, ClientsStay DEF RemoveUnbound, RemoveAllocation
<1>8. CASE OnDelete(c)
  <2>1. \A p \in Process : InHand(p, m)' => InHand(p, m) /\ (pc'[p] = "device" => pc[p] = "device")
    BY <1>0, <1>8 DEF OnDelete, NextEvent, With, InHand
  <2>2. \A d \in Controller, id \in Id : IsClient(d, id, m)' => IsClient(d, id, m)
    BY <1>0, <1>8 DEF OnDelete, IsClient
  <2> QED
    BY <1>8, <2>1, <2>2, RecordsStay DEF OnDelete, NextEvent
<1> QED
  BY <1>1, <1>2, <1>3, <1>4, <1>5, <1>6, <1>7, <1>8

LEMMA ListIsQuiet ==
  ASSUME TypeInv, NEW m \in MAC, NEW p \in Process,
         Reject(p) \/ (\E n \in MAC : Register(p, n))
  PROVE  Quiet(m)
<1> USE DEF Quiet
<1>1. CASE Reject(p)
  BY <1>1, RecordsStay, ClientsStay, HandsStay DEF Reject
<1>2. CASE \E n \in MAC : Register(p, n)
  <2>1. pc \in [Process -> PC] /\ hand \in [Process -> MAC \cup {NoMAC}]
    BY DEF TypeInv, TypeOK
  <2>2. \A q \in Process : InHand(q, m)' => InHand(q, m) /\ (pc'[q] = "device" => pc[q] = "device")
    BY <1>2, <2>1 DEF Register, With, InHand
  <2> QED
    BY <1>2, <2>2, RecordsStay, ClientsStay DEF Register
<1> QED
  BY <1>1, <1>2

LEMMA RequestIsQuiet ==
  ASSUME TypeInv, NEW m \in MAC, NEW r \in Request, RequestStep(r)
  PROVE  Quiet(m)
<1>0. pc \in [Process -> PC] /\ r \in Process
  BY DEF TypeInv, TypeOK, Process
<1> USE DEF Quiet
<1>1. CASE \E kind \in {"register", "add", "remove"}, list \in Body : Receive(r, kind, list)
  BY <1>0, <1>1, RecordsStay, ClientsStay DEF Receive, InHand
<1>2. CASE Answer(r)
  BY <1>0, <1>2, RecordsStay, ClientsStay DEF Answer, InHand
<1>3. CASE \E n \in MAC : RemoveMAC(r, n)
  BY <1>3, RecordsStay, ClientsStay, HandsStay DEF RemoveMAC, SetPool
<1> QED
  BY <1>1, <1>2, <1>3 DEF RequestStep

LEMMA EnvironmentIsQuiet ==
  ASSUME TypeInv, NEW m \in MAC, NEW id \in Id, ObtainIP(id) \/ Release(id)
  PROVE  Quiet(m)
<1> USE DEF Quiet
<1>1. CASE ObtainIP(id)
  <2>1. \A other \in Id : HoldsMAC(other, m)' => HoldsMAC(other, m)
    <3>1. m # NoMAC
      BY TableAssumption, NoMACIsNotParsable
    <3> QED
      BY <1>1, <3>1, PutHolds DEF ObtainIP
  <2> QED
    BY <1>1, <2>1, ClientsStay, HandsStay DEF ObtainIP, PutAllocation
<1>2. CASE Release(id)
  BY <1>2, RemoveHolds, ClientsStay, HandsStay DEF Release, RemoveAllocation
<1> QED
  BY <1>1, <1>2

LEMMA StepKeepsFree ==
  ASSUME TypeInv, Step, NEW m \in MAC, FreeInv(m), ~Overlap(m)'
  PROVE  FreeInv(m)'
<1>1. ASSUME NEW c \in Controller, ControllerStep(c)
      PROVE  FreeInv(m)'
  <2>1. CASE OnCreate(c)
    BY <2>1, OnCreateKeepsFree
  <2>2. CASE PopMACDelete(c)
    BY <2>2, PopMACDeleteKeepsFree
  <2>3. CASE DeviceReady(c)
    BY <2>3, DeviceReadyKeepsFree
  <2>4. CASE PutBound(c)
    <3>1. cur[c] \in Id /\ client[c][cur[c]] = hand[c] /\ hand[c] # NoMAC
      BY <2>4, TableAssumption, NoMACIsNotParsable DEF PutBound, TypeInv, ThreadInv, Process
    <3>2. \A p \in Process :
            InHand(p, m)' => InHand(p, m) /\ (pc'[p] = "device" => pc[p] = "device")
      BY <2>4 DEF PutBound, Return, InHand, TypeInv, TypeOK
    <3> QED
      BY <2>4, <3>1, <3>2, PutOfClientKeepsFree DEF PutBound
  <2>5. CASE \E id \in Id : Renew(c, id)
    <3>1. PICK id \in Id : Renew(c, id)
      BY <2>5
    <3>2. \A p \in Process :
            InHand(p, m)' => InHand(p, m) /\ (pc'[p] = "device" => pc[p] = "device")
      BY <3>1, HandsStay DEF Renew
    <3> QED
      BY <3>1, <3>2, PutOfClientKeepsFree DEF Renew
  <2>6. CASE \/ Start(c) \/ StartWatch(c) \/ Crash(c) \/ PopMACFails(c) \/ DeviceFails(c)
             \/ BindFails(c) \/ RemoveUnbound(c) \/ OnDelete(c)
    BY <2>6, ControllerIsQuiet, QuietKeepsFree
  <2> QED
    BY <1>1, <2>1, <2>2, <2>3, <2>4, <2>5, <2>6 DEF ControllerStep
<1>2. ASSUME NEW r \in Request, RequestStep(r)
      PROVE  FreeInv(m)'
  BY <1>2, RequestIsQuiet, QuietKeepsFree
<1>3. ASSUME NEW p \in Process,
             PutMACCheck(p) \/ PutMACWrite(p) \/ Reject(p) \/ (\E n \in MAC : Register(p, n))
      PROVE  FreeInv(m)'
  BY <1>3, PutMACCheckKeepsFree, PutMACWriteKeepsFree, ListIsQuiet, QuietKeepsFree
<1>4. ASSUME NEW id \in Id, ObtainIP(id) \/ Release(id)
      PROVE  FreeInv(m)'
  BY <1>4, EnvironmentIsQuiet, QuietKeepsFree
<1> QED
  BY <1>1, <1>2, <1>3, <1>4 DEF Step

LEMMA NextTable == TableInv /\ [Next]_vars => TableInv'
<1> SUFFICES ASSUME TableInv, [Next]_vars PROVE TableInv'
  OBVIOUS
<1>1. TypeInv'
  BY NextTypes DEF TableInv
<1>2. ASSUME Next, NEW m \in MAC, m \notin contended'
      PROVE  FreeInv(m)'
  <2>1. m \notin contended /\ ~Overlap(m)'
    BY <1>2 DEF Next
  <2> QED
    BY <1>2, <2>1, StepKeepsFree DEF Next, TableInv
<1>3. ASSUME UNCHANGED vars, NEW m \in MAC, m \notin contended'
      PROVE  FreeInv(m)'
  <2>1. FreeInv(m)
    BY <1>3 DEF TableInv, vars
  <2>2. /\ \A id \in Id : HoldsMAC(id, m)' <=> HoldsMAC(id, m)
        /\ \A c \in Controller, id \in Id : IsClient(c, id, m)' <=> IsClient(c, id, m)
        /\ \A p \in Process : InHand(p, m)' <=> InHand(p, m)
        /\ pool' = pool /\ pc' = pc
    BY <1>3, RecordsStay, ClientsStay, HandsStay DEF vars
  <2> QED
    BY <2>1, <2>2 DEF FreeInv, Overlap
<1> QED
  BY <1>1, <1>2, <1>3 DEF TableInv

\* As long as no two actors handle an address at the same time, the table is consistent
\* for it, with any number of controllers and requests.
THEOREM UncontendedAddressesAreExclusive == Spec => []UncontendedIsExclusive
  BY InitTable, NextTable, TableInvImplies, PTL DEF Spec

-----------------------------------------------------------------------------
(* The table implements Addresses.                                           *)

Free(m) == m \in pool \cup Popping

\* PopMAC begins with what is free, and ends with an owner; without it nobody gets one.
NobodyPops ==
  \A c \in Controller : pc'[c] \in {"popmac.delete", "device"} =>
    pc'[c] = pc[c] /\ hand'[c] = hand[c] /\ cur'[c] = cur[c]

\* The address loses what it loses, and gains neither an owner nor a place in the pool.
Sheds(m) == Owner(m)' \subseteq Owner(m) /\ (Free(m)' => Free(m))

LEMMA OwnedOnce ==
  ASSUME NEW m \in MAC, FreeInv(m)
  PROVE  /\ Free(m) => Owner(m) = {}
         /\ \A id, other \in Owner(m) : id = other
<1>1. \A c \in Controller, id \in Id : Equips(c, id, m) =>
        /\ InHand(c, m) /\ m \notin pool
        /\ \A d \in Controller \ {c} : ~InHand(d, m)
        /\ \A d \in Controller, other \in Id : ~IsClient(d, other, m)
        /\ \A other \in Id : ~HoldsMAC(other, m)
  BY DEF Equips, InHand, Process, FreeInv, Overlap
<1>2. \A c, d \in Controller, id, other \in Id :
        IsClient(c, id, m) /\ IsClient(d, other, m) => id = other
  BY DEF FreeInv, Overlap
<1>3. ASSUME NEW c \in Controller, pc[c] = "popmac.delete", hand[c] = m
      PROVE  Owner(m) = {}
  <2>1. InHand(c, m) /\ c \in Process
    BY <1>3 DEF InHand, Process
  <2>2. /\ \A id \in Id : ~HoldsMAC(id, m)
        /\ \A d \in Controller, id \in Id : ~IsClient(d, id, m)
    BY <2>1 DEF FreeInv, Overlap
  <2>3. \A d \in Controller, id \in Id : ~Equips(d, id, m)
    BY <1>1, <1>3, <2>1 DEF Equips
  <2> QED
    BY <2>2, <2>3 DEF Owner
<1>4. m \in pool => Owner(m) = {}
  BY <1>1 DEF Owner, FreeInv
<1>5. \A id, other \in Owner(m) : id = other
  <2> SUFFICES ASSUME NEW id \in Owner(m), NEW other \in Owner(m) PROVE id = other
    OBVIOUS
  <2>1. CASE \E c \in Controller : Equips(c, id, m) \/ Equips(c, other, m)
    BY <1>1, <2>1 DEF Owner, Equips
  <2>2. CASE ~\E c \in Controller : Equips(c, id, m) \/ Equips(c, other, m)
    BY <1>2, <2>2 DEF Owner, FreeInv
  <2> QED
    BY <2>1, <2>2
<1> QED
  BY <1>3, <1>4, <1>5 DEF Free, Popping

\* To lose is to lose all, since there is one owner at most.
LEMMA ShedsIsAStep ==
  ASSUME NEW m \in MAC, FreeInv(m), Sheds(m)
  PROVE  Table!Keep(m) \/ Table!Lose(m)
<1>1. Owner(m)' \in {{}, Owner(m)}
  BY OwnedOnce DEF Sheds
<1> QED
  BY <1>1, OwnedOnce DEF Sheds, Free, Table!Keep, Table!Lose, Table!Out

LEMMA NobodyPopsSheds ==
  ASSUME NEW m \in MAC, NobodyPops,
         \A id \in Id : HoldsMAC(id, m)' =>
           HoldsMAC(id, m) \/ \E c \in Controller : IsClient(c, id, m),
         \A c \in Controller, id \in Id : IsClient(c, id, m)' =>
           IsClient(c, id, m) \/ Equips(c, id, m),
         m \in pool' => m \in pool
  PROVE  Sheds(m)
<1>1. \A c \in Controller, id \in Id : Equips(c, id, m)' => Equips(c, id, m)
  BY DEF NobodyPops, Equips
<1>2. Owner(m)' \subseteq Owner(m)
  BY <1>1 DEF Owner
<1>3. m \in Popping' => m \in Popping
  BY DEF NobodyPops, Popping
<1> QED
  BY <1>2, <1>3 DEF Sheds, Free

LEMMA QuietSheds ==
  ASSUME NEW m \in MAC, NobodyPops, Quiet(m) PROVE Sheds(m)
BY NobodyPopsSheds DEF Quiet

\* What a controller does, the step that pops apart.
LEMMA ControllerSheds ==
  ASSUME TypeInv, NEW c \in Controller, ControllerStep(c), ~PopMACDelete(c),
         NEW m \in MAC, FreeInv(m)
  PROVE  Sheds(m)
<1>0. /\ pc \in [Process -> PC] /\ hand \in [Process -> MAC \cup {NoMAC}]
      /\ cur \in [Controller -> Id \cup {Absent}] /\ c \in Process
      /\ Controller \subseteq Process
  BY DEF TypeInv, TypeOK, Process
<1>1. CASE OnCreate(c)
  <2>1. /\ \A id \in Id : HoldsMAC(id, m)' <=> HoldsMAC(id, m)
        /\ \A d \in Controller, id \in Id : IsClient(d, id, m)' <=> IsClient(d, id, m)
        /\ pool' = pool
    BY <1>1, RecordsStay, ClientsStay DEF OnCreate, NextEvent
  <2>2. CASE UNCHANGED thread
    BY <2>1, <2>2, NobodyPopsSheds DEF NobodyPops
  <2>3. CASE \E n \in pool : /\ pc' = [pc EXCEPT ![c] = "popmac.delete"]
                             /\ hand' = [hand EXCEPT ![c] = n]
                             /\ cur' = [cur EXCEPT ![c] = Head(events[c]).id]
    <3>1. PICK n \in pool : /\ pc' = [pc EXCEPT ![c] = "popmac.delete"]
                            /\ hand' = [hand EXCEPT ![c] = n]
                            /\ cur' = [cur EXCEPT ![c] = Head(events[c]).id]
      BY <2>3
    <3>2. \A d \in Controller, id \in Id : Equips(d, id, m)' => Equips(d, id, m)
      BY <1>0, <3>1 DEF Equips
    <3>3. Owner(m)' \subseteq Owner(m)
      BY <2>1, <3>2 DEF Owner
    <3>4. m \in Popping' => m \in Popping \/ m = n
      BY <1>0, <3>1 DEF Popping
    <3> QED
      BY <2>1, <3>1, <3>3, <3>4 DEF Sheds, Free
  <2> QED
    BY <1>1, <2>2, <2>3 DEF OnCreate
<1>2. CASE DeviceReady(c)
  <2>1. NobodyPops
    BY <1>0, <1>2 DEF NobodyPops, DeviceReady, GoTo
  <2>2. \A d \in Controller, id \in Id : IsClient(d, id, m)' =>
          IsClient(d, id, m) \/ Equips(d, id, m)
    <3>1. client \in [Controller -> [Id -> MAC \cup {NoMAC}]]
      BY DEF TypeInv, TypeOK
    <3> QED
      BY <1>2, <3>1 DEF DeviceReady, IsClient, Equips
  <2>3. /\ \A id \in Id : HoldsMAC(id, m)' <=> HoldsMAC(id, m)
        /\ pool' = pool
    BY <1>2, RecordsStay DEF DeviceReady
  <2> QED
    BY <2>1, <2>2, <2>3, NobodyPopsSheds
<1>3. ASSUME NEW id \in Id, PutAllocation(id, "Bound", client[c][id]), UNCHANGED client, NobodyPops
      PROVE  Sheds(m)
  <2>1. client[c][id] \in MAC \cup {NoMAC}
    BY DEF TypeInv, TypeOK
  <2>2. \A other \in Id : HoldsMAC(other, m)' =>
          HoldsMAC(other, m) \/ \E d \in Controller : IsClient(d, other, m)
    BY <1>3, <2>1, PutHolds DEF IsClient
  <2>3. \A d \in Controller, other \in Id : IsClient(d, other, m)' => IsClient(d, other, m)
    BY <1>3, ClientsStay
  <2>4. pool' = pool
    BY <1>3 DEF PutAllocation
  <2> QED
    BY <1>3, <2>2, <2>3, <2>4, NobodyPopsSheds
<1>4. CASE PutBound(c)
  <2>1. cur[c] \in Id /\ client[c][cur[c]] = hand[c]
    BY <1>4 DEF PutBound, TypeInv, ThreadInv
  <2>2. NobodyPops
    BY <1>0, <1>4 DEF NobodyPops, PutBound, Return
  <2> QED
    BY <1>3, <1>4, <2>1, <2>2 DEF PutBound
<1>5. CASE \E id \in Id : Renew(c, id)
  <2>1. PICK id \in Id : Renew(c, id)
    BY <1>5
  <2>2. NobodyPops
    BY <2>1 DEF NobodyPops, Renew
  <2> QED
    BY <1>3, <2>1, <2>2 DEF Renew
<1>6. CASE \/ Start(c) \/ StartWatch(c) \/ Crash(c) \/ PopMACFails(c) \/ DeviceFails(c)
           \/ BindFails(c) \/ RemoveUnbound(c) \/ OnDelete(c)
  <2>1. NobodyPops
    BY <1>0, <1>6 DEF NobodyPops, Start, StartWatch, Crash, PopMACFails, DeviceFails, BindFails,
       RemoveUnbound, OnDelete, NextEvent, With, GoTo, Return
  <2> QED
    BY <1>6, <2>1, ControllerIsQuiet, QuietSheds
<1> QED
  BY <1>1, <1>2, <1>4, <1>5, <1>6 DEF ControllerStep

\* What others do, the write of PutMAC apart.
LEMMA OthersShed ==
  ASSUME TypeInv, NEW m \in MAC,
         \/ \E r \in Request : RequestStep(r)
         \/ \E p \in Process : PutMACCheck(p) \/ Reject(p) \/ \E n \in MAC : Register(p, n)
         \/ \E id \in Id : ObtainIP(id) \/ Release(id)
  PROVE  Sheds(m)
<1>0. pc \in [Process -> PC] /\ hand \in [Process -> MAC \cup {NoMAC}]
  BY DEF TypeInv, TypeOK
<1>1. ASSUME NEW r \in Request, RequestStep(r) PROVE Sheds(m)
  <2>1. NobodyPops
    BY <1>0, <1>1, TableAssumption
    DEF NobodyPops, Process, RequestStep, Receive, Answer, RemoveMAC
  <2> QED
    BY <1>1, <2>1, RequestIsQuiet, QuietSheds
<1>2. ASSUME NEW p \in Process, PutMACCheck(p) PROVE Sheds(m)
  <2>1. NobodyPops
    BY <1>0, <1>2 DEF NobodyPops, Process, PutMACCheck, Return, GoTo
  <2>2. /\ \A id \in Id : HoldsMAC(id, m)' <=> HoldsMAC(id, m)
        /\ \A d \in Controller, id \in Id : IsClient(d, id, m)' <=> IsClient(d, id, m)
        /\ pool' = pool
    BY <1>2, RecordsStay, ClientsStay DEF PutMACCheck
  <2> QED
    BY <2>1, <2>2, NobodyPopsSheds
<1>3. ASSUME NEW p \in Process, Reject(p) \/ \E n \in MAC : Register(p, n) PROVE Sheds(m)
  <2>1. NobodyPops
    BY <1>0, <1>3 DEF NobodyPops, Process, Reject, Register, With
  <2> QED
    BY <1>3, <2>1, ListIsQuiet, QuietSheds
<1>4. ASSUME NEW id \in Id, ObtainIP(id) \/ Release(id) PROVE Sheds(m)
  <2>1. NobodyPops
    BY <1>4 DEF NobodyPops, ObtainIP, Release
  <2> QED
    BY <1>4, <2>1, EnvironmentIsQuiet, QuietSheds
<1> QED
  BY <1>1, <1>2, <1>3, <1>4

\* The delete of PopMAC gives the address to the allocation in hand.
LEMMA DeletePops ==
  ASSUME TypeInv, NEW c \in Controller, PopMACDelete(c), NEW m \in MAC, FreeInv(m)
  PROVE  Sheds(m) \/ Table!Pop(m)
<1>0. /\ pc \in [Process -> PC] /\ c \in Process /\ Controller \subseteq Process
      /\ pc[c] = "popmac.delete" /\ pc' = [pc EXCEPT ![c] = "device"]
      /\ UNCHANGED <<hand, cur>> /\ cur[c] \in Id
  BY DEF TypeInv, TypeOK, ThreadInv, Process, PopMACDelete, GoTo
<1>1. /\ \A id \in Id : HoldsMAC(id, m)' <=> HoldsMAC(id, m)
      /\ \A d \in Controller, id \in Id : IsClient(d, id, m)' <=> IsClient(d, id, m)
      /\ pool' = pool \ {hand[c]}
  BY RecordsStay, ClientsStay DEF PopMACDelete, SetPool
<1>2. \A d \in Controller, id \in Id : Equips(d, id, m)' <=>
        Equips(d, id, m) \/ (d = c /\ id = cur[c] /\ hand[c] = m)
  BY <1>0 DEF Equips
<1>3. m \in Popping' => \E d \in Controller \ {c} : pc[d] = "popmac.delete" /\ hand[d] = m
  BY <1>0 DEF Popping
<1>4. CASE hand[c] # m
  <2>1. Owner(m)' \subseteq Owner(m)
    BY <1>1, <1>2, <1>4 DEF Owner
  <2> QED
    BY <1>1, <1>3, <2>1 DEF Sheds, Free, Popping
<1>5. CASE hand[c] = m
  <2>1. m \in Popping
    BY <1>0, <1>5 DEF Popping
  <2>2. Owner(m) = {}
    BY <2>1, OwnedOnce DEF Free
  <2>3. Owner(m)' = {cur[c]}
    BY <1>0, <1>1, <1>2, <1>5, <2>2 DEF Owner
  <2>4. \A d \in Controller \ {c} : ~(pc[d] = "popmac.delete" /\ hand[d] = m)
    BY <1>0, <1>5 DEF FreeInv, Overlap, InHand
  <2>5. m \notin (pool \cup Popping)'
    BY <1>1, <1>3, <1>5, <2>4
  <2> QED
    BY <1>0, <2>1, <2>2, <2>3, <2>5 DEF Table!Pop
<1> QED
  BY <1>4, <1>5

\* The write of PutMAC finds the address without an owner, as the check did.
LEMMA WritePuts ==
  ASSUME TypeInv, NEW p \in Process, PutMACWrite(p), NEW m \in MAC, FreeInv(m)
  PROVE  Sheds(m) \/ Table!Keep(m) \/ Table!Put(m)
<1>0. pc \in [Process -> PC] /\ Controller \subseteq Process
  BY DEF TypeInv, TypeOK, Process
<1>1. /\ \A id \in Id : HoldsMAC(id, m)' <=> HoldsMAC(id, m)
      /\ \A d \in Controller, id \in Id : IsClient(d, id, m)' <=> IsClient(d, id, m)
      /\ pool' = pool \cup {hand[p]}
  BY RecordsStay, ClientsStay DEF PutMACWrite, SetPool
<1>2. NobodyPops
  BY <1>0 DEF NobodyPops, PutMACWrite, Return, TypeInv, TypeOK
<1>3. CASE hand[p] # m
  BY <1>1, <1>2, <1>3, NobodyPopsSheds
<1>4. CASE hand[p] = m
  <2>1. InHand(p, m) /\ pc[p] = "putmac.write"
    BY <1>4 DEF PutMACWrite, InHand
  <2>2. Owner(m) = {}
    BY <1>0, <2>1 DEF Owner, FreeInv, Overlap, Equips, InHand
  <2>3. Owner(m)' = {}
    <3>1. \A d \in Controller, id \in Id : Equips(d, id, m)' => Equips(d, id, m)
      BY <1>2 DEF NobodyPops, Equips
    <3> QED
      BY <1>1, <2>2, <3>1 DEF Owner
  <2>4. m \in (pool \cup Popping)'
    BY <1>1, <1>4
  <2> QED
    BY <2>2, <2>3, <2>4 DEF Table!Keep, Table!Put, Table!Out
<1> QED
  BY <1>3, <1>4

LEMMA StepIsAStep ==
  ASSUME TypeInv, Step, NEW m \in MAC, FreeInv(m)
  PROVE  Table!Keep(m) \/ Table!Put(m) \/ Table!Pop(m) \/ Table!Lose(m)
<1>1. ASSUME NEW c \in Controller, ControllerStep(c)
      PROVE  Sheds(m) \/ Table!Pop(m)
  BY <1>1, ControllerSheds, DeletePops
<1>2. ASSUME NEW p \in Process, PutMACWrite(p)
      PROVE  Sheds(m) \/ Table!Keep(m) \/ Table!Put(m)
  BY <1>2, WritePuts
<1>3. CASE \/ \E r \in Request : RequestStep(r)
           \/ \E p \in Process : PutMACCheck(p) \/ Reject(p) \/ \E n \in MAC : Register(p, n)
           \/ \E id \in Id : ObtainIP(id) \/ Release(id)
  BY <1>3, OthersShed, ShedsIsAStep
<1> QED
  BY <1>1, <1>2, <1>3, ShedsIsAStep DEF Step

\* Controllers and requests together do to an uncontended address what Addresses says,
\* although PutMAC and PopMAC are two requests each: the read of PopMAC does not count,
\* its delete is the step, and so is the write of PutMAC (model.go:524-588).
THEOREM TableImplementsAddresses == Spec => ImplementsAddresses
<1>1. Init => Table!Init
  <2> SUFFICES ASSUME Init PROVE Table!Init
    OBVIOUS
  <2>1. \A m \in MAC : m # NoMAC
    BY TableAssumption, NoMACIsNotParsable
  <2>2. \A m \in MAC : Owner(m) = {}
    BY <2>1 DEF Init, Owner, HoldsMAC, Stored, IsClient, NoClients, Equips, Process
  <2>3. pool \cup Popping = {}
    BY <2>1 DEF Init, Popping, Process
  <2> QED
    BY <2>2, <2>3 DEF Init, Table!Init
<1>2. TableInv /\ [Next]_vars => [Table!Next]_(Table!vars)
  <2> SUFFICES ASSUME TableInv, [Next]_vars PROVE [Table!Next]_(Table!vars)
    OBVIOUS
  <2>1. CASE Next
    <3>1. contended \subseteq contended' /\ contended' \subseteq MAC
      BY <2>1 DEF Next, TableInv, TypeInv, TypeOK
    <3>2. ASSUME NEW m \in MAC \ contended'
          PROVE  Table!Keep(m) \/ Table!Put(m) \/ Table!Pop(m) \/ Table!Lose(m)
      BY <2>1, <3>1, StepIsAStep DEF Next, TableInv
    <3> QED
      BY <3>1, <3>2 DEF Table!Next
  <2>2. CASE UNCHANGED vars
    <3>1. /\ pool' = pool /\ Popping' = Popping /\ contended' = contended
      BY <2>2 DEF vars, Popping
    <3>2. \A m \in MAC : Owner(m)' = Owner(m)
      BY <2>2 DEF vars, Owner, HoldsMAC, Stored, MACOf, IsClient, Equips
    <3> QED
      BY <3>1, <3>2 DEF Table!vars
  <2> QED
    BY <2>1, <2>2
<1>3. Spec => []TableInv
  BY InitTable, NextTable, PTL DEF Spec
<1> QED
  BY <1>1, <1>2, <1>3, PTL DEF Spec, ImplementsAddresses, Table!Spec
=============================================================================
