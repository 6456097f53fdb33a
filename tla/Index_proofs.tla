---------------------------- MODULE Index_proofs ----------------------------
(***************************************************************************)
(* No entry of the lookup table is stale, for every number of allocations, *)
(* addresses, concurrent removals and queued events.                       *)
(***************************************************************************)
EXTENDS Index, SequenceTheorems, TLAPS

-----------------------------------------------------------------------------
(* The invariant.  What an entry, or an event that will write one, promises  *)
(* is true of the records now, or a deletion later in the queue takes it     *)
(* back.                                                                     *)

Deletion(id, ip) == [kind |-> "delete", id |-> id, ip |-> ip]

Undone(q, i, id, ip) == \E j \in 1..Len(q) : j > i /\ q[j] = Deletion(id, ip)

LeaseInv ==
  /\ \A id \in Id \ issued : lease[id] = Absent /\ client[id] = Absent
  /\ \A id \in Id : client[id] \in IP /\ lease[id] \in IP => client[id] = lease[id]

OffInv == ~watching => queue = << >> /\ \A ip \in IP : lookup[ip] = Absent

EntryInv ==
  \A ip \in IP : lookup[ip] # Absent =>
    lease[lookup[ip]] = ip \/ Undone(queue, 0, lookup[ip], ip)

PutInv ==
  \A i \in 1..Len(queue) : queue[i].kind = "put" /\ queue[i].ip \in IP =>
    lease[queue[i].id] = queue[i].ip \/ Undone(queue, i, queue[i].id, queue[i].ip)

Calm == faults = 0 /\ changes = 0

IndexInv == TypeOK /\ (Calm => LeaseInv /\ OffInv /\ EntryInv /\ PutInv)

-----------------------------------------------------------------------------
(* Sequences of events. *)

LEMMA AppendUndone ==
  ASSUME NEW q \in Seq(Event), NEW e \in Event, NEW i \in Nat, NEW id \in Id, NEW ip \in IP
  PROVE  /\ Undone(q, i, id, ip) => Undone(Append(q, e), i, id, ip)
         /\ i <= Len(q) /\ e = Deletion(id, ip) => Undone(Append(q, e), i, id, ip)
<1>1. /\ Len(q) \in Nat /\ Len(Append(q, e)) = Len(q) + 1
      /\ \A j \in 1..Len(q) : Append(q, e)[j] = q[j]
      /\ Append(q, e)[Len(q) + 1] = e
  OBVIOUS
<1>2. ASSUME Undone(q, i, id, ip) PROVE Undone(Append(q, e), i, id, ip)
  <2>1. PICK j \in 1..Len(q) : j > i /\ q[j] = Deletion(id, ip)
    BY <1>2 DEF Undone
  <2>2. j \in 1..Len(Append(q, e)) /\ Append(q, e)[j] = Deletion(id, ip)
    BY <1>1, <2>1
  <2> QED
    BY <2>1, <2>2 DEF Undone
<1>3. ASSUME i <= Len(q), e = Deletion(id, ip) PROVE Undone(Append(q, e), i, id, ip)
  <2>1. Len(q) + 1 \in 1..Len(Append(q, e)) /\ Len(q) + 1 > i
    BY <1>1, <1>3
  <2> QED
    BY <1>1, <1>3, <2>1 DEF Undone
<1> QED
  BY <1>2, <1>3

LEMMA TailUndone ==
  ASSUME NEW q \in Seq(Event), q # << >>, NEW i \in Nat, NEW id \in Id, NEW ip \in IP,
         Undone(q, i, id, ip), i > 0 \/ Head(q) # Deletion(id, ip)
  PROVE  Undone(Tail(q), IF i = 0 THEN 0 ELSE i - 1, id, ip)
<1>1. /\ Len(q) \in Nat /\ Len(Tail(q)) = Len(q) - 1 /\ Head(q) = q[1]
      /\ \A j \in 1..Len(Tail(q)) : Tail(q)[j] = q[j + 1]
  OBVIOUS
<1>2. PICK j \in 1..Len(q) : j > i /\ q[j] = Deletion(id, ip)
  BY DEF Undone
<1>3. j # 1
  BY <1>1, <1>2
<1>4. /\ j - 1 \in 1..Len(Tail(q)) /\ Tail(q)[j - 1] = Deletion(id, ip)
      /\ j - 1 > IF i = 0 THEN 0 ELSE i - 1
  BY <1>1, <1>2, <1>3
<1> QED
  BY <1>4 DEF Undone

-----------------------------------------------------------------------------
(* The requests to etcd. *)

LEMMA PutKeeps ==
  ASSUME TypeOK, OffInv, EntryInv, PutInv,
         NEW id \in Id, NEW new \in IP \cup {NoIP}, PutRecord(id, new),
         lease[id] \in IP => lease[id] = new, UNCHANGED lookup
  PROVE  EntryInv' /\ PutInv'
<1> DEFINE e == [kind |-> "put", id |-> id, ip |-> new]
<1>1. e \in Event /\ queue \in Seq(Event) /\ lease' = [lease EXCEPT ![id] = new]
  BY DEF Event, TypeOK, PutRecord
<1>2. ASSUME NEW a \in Id, NEW ip \in IP, lease[a] = ip PROVE lease'[a] = ip
  BY <1>1, <1>2 DEF TypeOK
<1>3. CASE ~watching
  BY <1>3, <1>2, IndexAssumption DEF OffInv, PutRecord, Notify, EntryInv, PutInv
<1>4. CASE watching
  <2>1. queue' = Append(queue, e)
    BY <1>4 DEF PutRecord, Notify
  <2>2. ASSUME NEW ip \in IP, lookup[ip] # Absent
        PROVE  lease'[lookup[ip]] = ip \/ Undone(queue', 0, lookup[ip], ip)
    <3>1. lookup[ip] \in Id
      BY <2>2 DEF TypeOK
    <3>2. lease[lookup[ip]] = ip \/ Undone(queue, 0, lookup[ip], ip)
      BY <2>2 DEF EntryInv
    <3> QED
      BY <1>1, <1>2, <2>1, <3>1, <3>2, AppendUndone
  <2>3. ASSUME NEW i \in 1..Len(queue'), queue'[i].kind = "put", queue'[i].ip \in IP
        PROVE  \/ lease'[queue'[i].id] = queue'[i].ip
               \/ Undone(queue', i, queue'[i].id, queue'[i].ip)
    <3>1. Len(queue) \in Nat /\ Len(queue') = Len(queue) + 1
          /\ (i <= Len(queue) => queue'[i] = queue[i]) /\ (i > Len(queue) => queue'[i] = e)
      BY <1>1, <2>1
    <3>2. CASE i > Len(queue)
      BY <1>1, <3>1, <3>2 DEF TypeOK
    <3>3. CASE i <= Len(queue)
      <4>1. queue[i] \in Event /\ i \in 1..Len(queue) /\ i \in Nat
        BY <1>1, <3>1, <3>3
      <4>2. queue[i].id \in Id
        BY <4>1 DEF Event
      <4>3. lease[queue[i].id] = queue[i].ip \/ Undone(queue, i, queue[i].id, queue[i].ip)
        BY <2>3, <3>1, <3>3, <4>1 DEF PutInv
      <4> QED
        BY <1>1, <1>2, <2>1, <2>3, <3>1, <3>3, <4>1, <4>2, <4>3, AppendUndone
    <3> QED
      BY <3>1, <3>2, <3>3
  <2> QED
    BY <2>2, <2>3 DEF EntryInv, PutInv
<1> QED
  BY <1>3, <1>4 DEF TypeOK

LEMMA RemoveKeeps ==
  ASSUME TypeOK, OffInv, EntryInv, PutInv, NEW id \in Id, RemoveRecord(id), UNCHANGED lookup
  PROVE  EntryInv' /\ PutInv'
<1>1. CASE lease[id] = Absent
  BY <1>1 DEF RemoveRecord, store, EntryInv, PutInv, Undone
<1>2. CASE lease[id] # Absent
  <2> DEFINE e == Deletion(id, lease[id])
  <2>1. e \in Event /\ queue \in Seq(Event) /\ lease' = [lease EXCEPT ![id] = Absent]
    BY <1>2 DEF Event, Deletion, TypeOK, RemoveRecord
  <2>2. CASE ~watching
    BY <1>2, <2>2 DEF OffInv, RemoveRecord, Notify, EntryInv, PutInv
  <2>3. CASE watching
    <3>1. queue' = Append(queue, e)
      BY <1>2, <2>3 DEF RemoveRecord, Notify, Deletion
    <3>2. ASSUME NEW a \in Id, NEW ip \in IP, NEW i \in Nat, i <= Len(queue),
                 lease[a] = ip \/ Undone(queue, i, a, ip)
          PROVE  lease'[a] = ip \/ Undone(queue', i, a, ip)
      <4>1. CASE Undone(queue, i, a, ip)
        BY <2>1, <3>1, <4>1, AppendUndone
      <4>2. CASE lease[a] = ip /\ a = id
        BY <2>1, <3>1, <3>2, <4>2, AppendUndone
      <4>3. CASE lease[a] = ip /\ a # id
        BY <2>1, <4>3 DEF TypeOK
      <4> QED
        BY <3>2, <4>1, <4>2, <4>3
    <3>3. ASSUME NEW ip \in IP, lookup[ip] # Absent
          PROVE  lease'[lookup[ip]] = ip \/ Undone(queue', 0, lookup[ip], ip)
      <4>1. lookup[ip] \in Id /\ 0 <= Len(queue)
        BY <2>1, <3>3 DEF TypeOK
      <4> QED
        BY <3>2, <3>3, <4>1 DEF EntryInv
    <3>4. ASSUME NEW i \in 1..Len(queue'), queue'[i].kind = "put", queue'[i].ip \in IP
          PROVE  \/ lease'[queue'[i].id] = queue'[i].ip
                 \/ Undone(queue', i, queue'[i].id, queue'[i].ip)
      <4>1. Len(queue) \in Nat /\ Len(queue') = Len(queue) + 1
            /\ (i <= Len(queue) => queue'[i] = queue[i]) /\ (i > Len(queue) => queue'[i] = e)
        BY <2>1, <3>1
      <4>2. i <= Len(queue)
        BY <3>4, <4>1 DEF Deletion
      <4>3. queue[i] \in Event /\ i \in 1..Len(queue) /\ i \in Nat /\ queue'[i] = queue[i]
        BY <2>1, <4>1, <4>2
      <4>4. queue[i].id \in Id
        BY <4>3 DEF Event
      <4>5. lease[queue[i].id] = queue[i].ip \/ Undone(queue, i, queue[i].id, queue[i].ip)
        BY <3>4, <4>3 DEF PutInv
      <4> QED
        BY <3>2, <3>4, <4>2, <4>3, <4>4, <4>5
    <3> QED
      BY <3>3, <3>4 DEF EntryInv, PutInv
  <2> QED
    BY <2>2, <2>3 DEF TypeOK
<1> QED
  BY <1>1, <1>2

-----------------------------------------------------------------------------
(* The watcher. *)

LEMMA HandleKeeps ==
  ASSUME TypeOK, EntryInv, PutInv, HandleEvent
  PROVE  EntryInv' /\ PutInv'
<1> DEFINE e == Head(queue)
<1>1. /\ queue \in Seq(Event) /\ queue # << >> /\ e \in Event
      /\ queue' = Tail(queue) /\ lease' = lease /\ e = queue[1]
      /\ Len(queue) \in Nat /\ Len(queue) > 0 /\ Len(Tail(queue)) = Len(queue) - 1
      /\ \A i \in 1..Len(Tail(queue)) : Tail(queue)[i] = queue[i + 1]
  BY DEF TypeOK, HandleEvent
<1>2. ASSUME NEW i \in 1..Len(queue'), queue'[i].kind = "put", queue'[i].ip \in IP
      PROVE  \/ lease'[queue'[i].id] = queue'[i].ip
             \/ Undone(queue', i, queue'[i].id, queue'[i].ip)
  <2>1. i + 1 \in 1..Len(queue) /\ queue'[i] = queue[i + 1] /\ queue[i + 1] \in Event
    BY <1>1
  <2>2. queue[i + 1].id \in Id
    BY <2>1 DEF Event
  <2>3. \/ lease[queue[i + 1].id] = queue[i + 1].ip
        \/ Undone(queue, i + 1, queue[i + 1].id, queue[i + 1].ip)
    BY <1>2, <2>1 DEF PutInv
  <2>4. ASSUME Undone(queue, i + 1, queue[i + 1].id, queue[i + 1].ip)
        PROVE  Undone(queue', i, queue'[i].id, queue'[i].ip)
    <3>1. i + 1 \in Nat /\ i + 1 > 0 /\ (IF i + 1 = 0 THEN 0 ELSE i + 1 - 1) = i
      BY <2>1
    <3>2. Undone(Tail(queue), i, queue[i + 1].id, queue[i + 1].ip)
      BY <1>1, <1>2, <2>1, <2>2, <2>4, <3>1, TailUndone
    <3> QED
      BY <1>1, <2>1, <3>2
  <2> QED
    BY <1>1, <2>1, <2>3, <2>4
<1>3. ASSUME NEW ip \in IP, lookup[ip] # Absent, e # Deletion(lookup[ip], ip)
      PROVE  lease'[lookup[ip]] = ip \/ Undone(queue', 0, lookup[ip], ip)
  <2>1. lookup[ip] \in Id
    BY <1>3 DEF TypeOK
  <2>2. lease[lookup[ip]] = ip \/ Undone(queue, 0, lookup[ip], ip)
    BY <1>3 DEF EntryInv
  <2> QED
    BY <1>1, <1>3, <2>1, <2>2, TailUndone
<1>4. ASSUME NEW ip \in IP, lookup'[ip] # Absent
      PROVE  lease'[lookup'[ip]] = ip \/ Undone(queue', 0, lookup'[ip], ip)
  <2>1. CASE lookup'[ip] = lookup[ip] /\ e # Deletion(lookup[ip], ip)
    BY <1>3, <1>4, <2>1
  <2>2. CASE e.ip = ip /\ e.kind = "put"
    <3>1. lookup'[ip] = e.id /\ e.id \in Id
      BY <1>1, <2>2, IndexAssumption DEF HandleEvent, UpdateIndex, SetEntry, TypeOK, Event
    <3>2. lease[e.id] = ip \/ Undone(queue, 1, e.id, ip)
      BY <1>1, <2>2 DEF PutInv
    <3>3. Undone(queue, 1, e.id, ip) => Undone(Tail(queue), 0, e.id, ip)
      BY <1>1, <3>1, TailUndone
    <3> QED
      BY <1>1, <3>1, <3>2, <3>3
  <2>3. CASE e.ip = ip /\ e.kind = "delete"
    <3>1. lookup'[ip] = Absent
      BY <1>1, <2>3, IndexAssumption DEF HandleEvent, UpdateIndex, SetEntry, TypeOK
    <3> QED
      BY <1>4, <3>1
  <2>4. CASE e.ip # ip
    <3>1. lookup'[ip] = lookup[ip]
      BY <1>1, <2>4 DEF HandleEvent, UpdateIndex, SetEntry, TypeOK
    <3>2. e # Deletion(lookup[ip], ip)
      BY <2>4 DEF Deletion
    <3> QED
      BY <2>1, <3>1, <3>2
  <2> QED
    BY <1>1, <2>2, <2>3, <2>4 DEF Event
<1> QED
  BY <1>2, <1>4 DEF EntryInv, PutInv

-----------------------------------------------------------------------------
(* The invariant is inductive. *)

LEMMA TypeIsInductive == TypeOK /\ [Next]_vars => TypeOK'
<1> SUFFICES ASSUME TypeOK, [Next]_vars PROVE TypeOK'
  OBVIOUS
<1> USE IndexAssumption DEF TypeOK
<1>1. ASSUME NEW kind \in {"put", "delete"}, NEW id \in Id, NEW ip \in IP \cup {NoIP},
             Notify(kind, id, ip)
      PROVE  queue' \in Seq(Event)
  <2>1. [kind |-> kind, id |-> id, ip |-> ip] \in Event
    BY DEF Event
  <2> QED
    BY <1>1, <2>1 DEF Notify
<1>2. ASSUME NEW id \in Id, NEW ip \in IP \cup {NoIP}, PutRecord(id, ip)
      PROVE  queue' \in Seq(Event) /\ lease' \in [Id -> IP \cup {NoIP, Absent}]
  BY <1>1, <1>2 DEF PutRecord
<1>3. ASSUME NEW id \in Id, RemoveRecord(id)
      PROVE  queue' \in Seq(Event) /\ lease' \in [Id -> IP \cup {NoIP, Absent}]
  <2>1. CASE lease[id] = Absent
    BY <1>3, <2>1 DEF RemoveRecord, store
  <2>2. CASE lease[id] # Absent
    BY <1>1, <1>3, <2>2 DEF RemoveRecord
  <2> QED
    BY <2>1, <2>2
<1>4. Fault => faults' \in 0..MaxFaults
  BY DEF Fault
<1>5. CASE StartIndex
  BY <1>5 DEF StartIndex, store, counters
<1>6. CASE HandleEvent
  <2>1. Head(queue) \in Event /\ Tail(queue) \in Seq(Event)
    BY <1>6 DEF HandleEvent
  <2>2. lookup' \in [IP -> Id \cup {Absent}]
    BY <1>6, <2>1 DEF HandleEvent, UpdateIndex, SetEntry, Event
  <2> QED
    BY <1>6, <2>1, <2>2 DEF HandleEvent, counters
<1>7. CASE HandleFails
  <2>1. Tail(queue) \in Seq(Event)
    BY <1>7 DEF HandleFails
  <2> QED
    BY <1>4, <1>7, <2>1 DEF HandleFails, indexer
<1>8. CASE Crash
  BY <1>4, <1>8, EmptySeq DEF Crash
<1>9. ASSUME NEW r \in Request, Returning(r) PROVE TypeOK'
  <2> USE DEF ReturnIP, Idle
  <2>1. CASE \E ip \in IP : LookUp(r, ip)
    BY <2>1 DEF LookUp, store, indexer, counters
  <2>2. CASE Get(r)
    BY <2>2 DEF Get, store, indexer, counters
  <2>3. CASE RemoveAllocation(r)
    <3>1. req[r].id \in Id
      BY <2>3 DEF RemoveAllocation
    <3>2. req' \in [Request -> ReturnIP]
      BY <2>3 DEF RemoveAllocation
    <3> QED
      BY <1>3, <2>3, <3>1, <3>2 DEF RemoveAllocation, indexer, counters
  <2>4. CASE Unlink(r)
    BY <2>4 DEF Unlink, SetEntry, store, counters
  <2>5. CASE ReturnFails(r)
    BY <1>4, <2>5 DEF ReturnFails, store, indexer
  <2> QED
    BY <1>9, <2>1, <2>2, <2>3, <2>4, <2>5 DEF Returning
<1>10. ASSUME NEW id \in Id, Environment(id) PROVE TypeOK'
  <2>1. CASE Obtain(id)
    BY <1>2, <2>1 DEF Obtain, indexer, counters
  <2>2. CASE Write(id)
    BY <1>2, <2>2 DEF Write, indexer, counters
  <2>3. CASE Drop(id)
    BY <1>3, <2>3 DEF Drop, indexer, counters
  <2>4. CASE StopClient(id)
    BY <2>4 DEF StopClient, store, indexer, counters
  <2>5. CASE \E ip \in IP : Bind(id, ip)
    BY <2>5 DEF Bind, store, indexer, counters
  <2>6. CASE \E ip \in IP : ChangeIP(id, ip)
    BY <2>6 DEF ChangeIP, store, indexer
  <2> QED
    BY <1>10, <2>1, <2>2, <2>3, <2>4, <2>5, <2>6 DEF Environment
<1>11. ASSUME NEW r \in Request, NEW id \in Id, GiveUp(r, id) PROVE TypeOK'
  BY <1>11 DEF GiveUp, ReturnIP, store, indexer, counters
<1>12. CASE UNCHANGED vars
  BY <1>12 DEF vars, store, indexer, counters
<1> QED
  BY <1>5, <1>6, <1>7, <1>8, <1>9, <1>10, <1>11, <1>12 DEF Next

LEMMA IndexInvIsInductive == IndexInv /\ [Next]_vars => IndexInv'
<1> SUFFICES ASSUME IndexInv, [Next]_vars PROVE IndexInv'
  OBVIOUS
<1>1. TypeOK /\ TypeOK'
  BY TypeIsInductive DEF IndexInv
<1>2. SUFFICES ASSUME Calm, Calm', LeaseInv, OffInv, EntryInv, PutInv
               PROVE  LeaseInv' /\ OffInv' /\ EntryInv' /\ PutInv'
  <2>1. faults' \in {faults, faults + 1} /\ changes' \in {changes, changes + 1}
    BY DEF Next, Environment, Returning, StartIndex, HandleEvent, HandleFails, Crash, LookUp,
        Get, RemoveAllocation, Unlink, ReturnFails, Obtain, Write, Drop, StopClient, Bind,
        ChangeIP, GiveUp, Fault, vars, counters
  <2>2. Calm' => Calm
    BY <1>1, <2>1 DEF Calm, TypeOK
  <2> QED
    BY <1>1, <1>2, <2>2 DEF IndexInv
<1>3. ~Fault /\ changes' # changes + 1
  BY <1>1, <1>2 DEF Fault, Calm, TypeOK
<1> USE IndexAssumption
<1>4. ASSUME NEW id \in Id, RemoveRecord(id)
      PROVE  /\ \A a \in Id : lease'[a] \in {lease[a], Absent}
             /\ ~watching => queue' = queue
  BY <1>1, <1>4 DEF RemoveRecord, Notify, store, TypeOK
<1>5. CASE StartIndex
  BY <1>1, <1>2, <1>5 DEF StartIndex, store, LeaseInv, OffInv, EntryInv, PutInv, Undone
<1>6. CASE HandleEvent
  BY <1>1, <1>2, <1>6, HandleKeeps DEF HandleEvent, LeaseInv, OffInv
<1>7. CASE HandleFails
  BY <1>3, <1>7 DEF HandleFails
<1>8. CASE Crash
  BY <1>3, <1>8 DEF Crash
<1>9. ASSUME NEW r \in Request, Returning(r)
      PROVE  LeaseInv' /\ OffInv' /\ EntryInv' /\ PutInv'
  <2>1. CASE (\E ip \in IP : LookUp(r, ip)) \/ Get(r)
    BY <1>2, <2>1
    DEF LookUp, Get, store, indexer, LeaseInv, OffInv, EntryInv, PutInv, Undone
  <2>2. CASE RemoveAllocation(r)
    <3>1. req[r].id \in Id
      BY <1>1, <2>2 DEF RemoveAllocation, TypeOK, ReturnIP, Idle
    <3>2. EntryInv' /\ PutInv'
      BY <1>1, <1>2, <2>2, <3>1, RemoveKeeps DEF RemoveAllocation, indexer
    <3> QED
      BY <1>1, <1>2, <1>4, <2>2, <3>1, <3>2
      DEF RemoveAllocation, indexer, LeaseInv, OffInv, TypeOK
  <2>3. CASE Unlink(r)
    BY <1>1, <1>2, <2>3
    DEF Unlink, SetEntry, store, LeaseInv, OffInv, EntryInv, PutInv, Undone, TypeOK
  <2>4. CASE ReturnFails(r)
    BY <1>3, <2>4 DEF ReturnFails
  <2> QED
    BY <1>9, <2>1, <2>2, <2>3, <2>4 DEF Returning
<1>10. ASSUME NEW id \in Id, Environment(id)
       PROVE  LeaseInv' /\ OffInv' /\ EntryInv' /\ PutInv'
  <2>1. CASE Obtain(id)
    <3>1. lease[id] = Absent
      BY <1>2, <2>1 DEF Obtain, LeaseInv
    <3>2. EntryInv' /\ PutInv'
      BY <1>1, <1>2, <2>1, <3>1, PutKeeps DEF Obtain, indexer
    <3> QED
      BY <1>1, <1>2, <2>1, <3>2
      DEF Obtain, PutRecord, Notify, indexer, LeaseInv, OffInv, TypeOK
  <2>2. CASE Write(id)
    <3>1. client[id] \in IP /\ (lease[id] \in IP => lease[id] = client[id])
      BY <1>2, <2>2 DEF Write, LeaseInv
    <3>2. EntryInv' /\ PutInv'
      BY <1>1, <1>2, <2>2, <3>1, PutKeeps DEF Write, indexer
    <3> QED
      BY <1>1, <1>2, <2>2, <3>1, <3>2
      DEF Write, PutRecord, Notify, indexer, LeaseInv, OffInv, TypeOK
  <2>3. CASE Drop(id)
    <3>1. EntryInv' /\ PutInv'
      BY <1>1, <1>2, <2>3, RemoveKeeps DEF Drop, indexer
    <3> QED
      BY <1>1, <1>2, <1>4, <2>3, <3>1 DEF Drop, indexer, LeaseInv, OffInv, TypeOK
  <2>4. CASE StopClient(id)
    BY <1>1, <1>2, <2>4
    DEF StopClient, store, indexer, LeaseInv, OffInv, EntryInv, PutInv, Undone, TypeOK
  <2>5. CASE \E ip \in IP : Bind(id, ip)
    BY <1>1, <1>2, <2>5
    DEF Bind, store, indexer, LeaseInv, OffInv, EntryInv, PutInv, Undone, TypeOK
  <2>6. CASE \E ip \in IP : ChangeIP(id, ip)
    BY <1>3, <2>6 DEF ChangeIP
  <2> QED
    BY <1>10, <2>1, <2>2, <2>3, <2>4, <2>5, <2>6 DEF Environment
<1>11. ASSUME NEW r \in Request, NEW id \in Id, GiveUp(r, id)
       PROVE  LeaseInv' /\ OffInv' /\ EntryInv' /\ PutInv'
  BY <1>1, <1>2, <1>11
  DEF GiveUp, store, indexer, LeaseInv, OffInv, EntryInv, PutInv, Undone, TypeOK
<1>12. CASE UNCHANGED vars
  BY <1>2, <1>12
  DEF vars, store, indexer, LeaseInv, OffInv, EntryInv, PutInv, Undone
<1> QED
  BY <1>5, <1>6, <1>7, <1>8, <1>9, <1>10, <1>11, <1>12 DEF Next

\* IndexInv holds in every reachable state.
LEMMA IndexInvHolds == Spec => []IndexInv
<1>1. Init => IndexInv
  <2> SUFFICES ASSUME Init PROVE IndexInv
    OBVIOUS
  <2>1. TypeOK
    <3>1. queue \in Seq(Event)
      BY EmptySeq DEF Init
    <3>2. req \in [Request -> ReturnIP]
      BY DEF Init, ReturnIP
    <3>3. /\ lease \in [Id -> IP \cup {NoIP, Absent}] /\ issued \in SUBSET Id
          /\ client \in [Id -> IP \cup {NoIP, Absent}]
          /\ lookup \in [IP -> Id \cup {Absent}]
      BY DEF Init
    <3>4. watching \in BOOLEAN
      BY DEF Init
    <3>5. faults = 0 /\ changes = 0
      BY DEF Init
    <3>6. faults \in 0..MaxFaults /\ changes \in 0..MaxChanges
      BY <3>5, IndexAssumption
    <3> QED
      BY <3>1, <3>2, <3>3, <3>4, <3>6 DEF TypeOK
  <2>2. LeaseInv /\ OffInv /\ EntryInv /\ PutInv
    BY IndexAssumption DEF Init, LeaseInv, OffInv, EntryInv, PutInv
  <2> QED
    BY <2>1, <2>2 DEF IndexInv
<1>2. IndexInv /\ [Next]_vars => IndexInv'
  BY IndexInvIsInductive
<1> QED
  BY <1>1, <1>2, PTL DEF Spec

\* Every variable keeps its type; in particular each entry of the table names an
\* allocation and each request is in one of the steps of a removal (model.go:392-420).
THEOREM TypeCorrect == Spec => []TypeOK
<1>1. IndexInv => TypeOK
  BY DEF IndexInv
<1> QED
  BY <1>1, IndexInvHolds, PTL

\* No entry of the table is stale once the events are handled, however removals, late
\* writes and the second halves of Remove interleave with the watcher (model.go:200-206).
THEOREM EntriesAreCurrent == Spec => []NoStaleEntry
<1>1. IndexInv => NoStaleEntry
  BY DEF IndexInv, Calm, EntryInv, Undone, NoStaleEntry
<1> QED
  BY <1>1, IndexInvHolds, PTL
=============================================================================
