------------------------------- MODULE Index -------------------------------
(***************************************************************************)
(* The table lookup/<ip> -> ID of the state manager (model.go).  The       *)
(* controller's process maintains it from the watch (MaintainIndices), one *)
(* event after the other.  returnIP of the API server reads it (GetByIP),  *)
(* and the second request of Remove deletes from it.                       *)
(*                                                                         *)
(* Clients, renewals and expiry do to the records what module Controller   *)
(* does to them; a record is reduced to its lease.                         *)
(***************************************************************************)
EXTENDS Naturals, Sequences

CONSTANTS
  Id,          \* allocations
  IP,          \* addresses
  Request,     \* concurrent removals by returnIP or by the controller
  NoIP,        \* a record without a lease
  Absent,      \* no record, no client, no entry
  MaxEvents,   \* the environment waits while this many events are queued
  MaxFaults,   \* failing requests to etcd and crashes of the controller
  MaxChanges   \* renewals that yield another address

ASSUME IndexAssumption ==
  /\ NoIP # Absent /\ {NoIP, Absent} \cap IP = {} /\ Absent \notin Id
  /\ MaxEvents \in Nat /\ MaxFaults \in Nat /\ MaxChanges \in Nat

VARIABLES
  lease,     \* the lease in each stored allocation
  issued,    \* allocations that have been requested
  client,    \* the lease of each running DHCP client
  lookup,    \* the table
  watching,  \* MaintainIndices has been called
  queue,     \* events that its watcher has not handled
  req,       \* where each removal is, and what it has read
  faults, changes

store == <<lease, queue>>
indexer == <<lookup, watching>>
counters == <<faults, changes>>
vars == <<store, issued, client, indexer, req, counters>>

Event == [kind: {"put", "delete"}, id: Id, ip: IP \cup {NoIP}]

Idle == [at |-> "idle", id |-> Absent, ip |-> NoIP]

ReturnIP == {Idle} \cup
  [at: {"get", "remove", "unlink"}, id: Id, ip: IP \cup {NoIP}]

TypeOK ==
  /\ lease \in [Id -> IP \cup {NoIP, Absent}]
  /\ issued \in SUBSET Id
  /\ client \in [Id -> IP \cup {NoIP, Absent}]
  /\ lookup \in [IP -> Id \cup {Absent}]
  /\ watching \in BOOLEAN
  /\ queue \in Seq(Event)
  /\ req \in [Request -> ReturnIP]
  /\ faults \in 0..MaxFaults /\ changes \in 0..MaxChanges

Init ==
  /\ lease = [id \in Id |-> Absent] /\ issued = {}
  /\ client = [id \in Id |-> Absent]
  /\ lookup = [ip \in IP |-> Absent]
  /\ watching = FALSE /\ queue = << >>
  /\ req = [r \in Request |-> Idle]
  /\ faults = 0 /\ changes = 0

Fault == faults < MaxFaults /\ faults' = faults + 1

-----------------------------------------------------------------------------
(* Requests to etcd.  A deletion is reported with the deleted record.        *)

Notify(kind, id, ip) ==
  queue' = IF watching THEN Append(queue, [kind |-> kind, id |-> id, ip |-> ip])
           ELSE queue

PutRecord(id, ip) ==
  /\ lease' = [lease EXCEPT ![id] = ip]
  /\ Notify("put", id, ip)

RemoveRecord(id) ==
  IF lease[id] = Absent THEN UNCHANGED store
  ELSE /\ lease' = [lease EXCEPT ![id] = Absent]
       /\ Notify("delete", id, lease[id])

SetEntry(ip, entry) == lookup' = [lookup EXCEPT ![ip] = entry]

-----------------------------------------------------------------------------
(* MaintainIndices.  The watch starts at the present.                        *)

StartIndex ==
  /\ ~watching /\ watching' = TRUE
  /\ UNCHANGED <<store, issued, client, lookup, req, counters>>

\* Mutant: deletions are not looked at.
UpdateOnly(e) ==
  IF e.ip = NoIP \/ e.kind = "delete" THEN UNCHANGED lookup ELSE SetEntry(e.ip, e.id)

\* Mutant: an entry is only written where there is none.
UpdateFree(e) ==
  IF e.ip = NoIP \/ (e.kind = "put" /\ lookup[e.ip] # Absent) THEN UNCHANGED lookup
  ELSE SetEntry(e.ip, IF e.kind = "put" THEN e.id ELSE Absent)

\* A deletion deletes whatever entry the address has.
UpdateIndex(e) ==
  IF e.ip = NoIP THEN UNCHANGED lookup
  ELSE SetEntry(e.ip, IF e.kind = "put" THEN e.id ELSE Absent)

HandleEvent ==
  /\ queue # << >>
  /\ UpdateIndex(Head(queue))
  /\ queue' = Tail(queue)
  /\ UNCHANGED <<lease, issued, client, watching, req, counters>>

\* The error is logged and the event is done with.
HandleFails ==
  /\ queue # << >> /\ Head(queue).ip # NoIP
  /\ queue' = Tail(queue)
  /\ Fault
  /\ UNCHANGED <<lease, issued, client, indexer, req, changes>>

-----------------------------------------------------------------------------
(* returnIP: the two requests of GetByIP and the two of Remove.  Only the     *)
(* latter two follow when the controller removes an allocation.              *)

\* Mutant: nobody asks whether there is an entry.
LookUpAny(r, ip) ==
  /\ req[r].at = "idle"
  /\ req' = [req EXCEPT ![r] = [at |-> "get", id |-> lookup[ip], ip |-> NoIP]]
  /\ UNCHANGED <<store, issued, client, indexer, counters>>

LookUp(r, ip) ==
  /\ req[r].at = "idle" /\ lookup[ip] # Absent
  /\ req' = [req EXCEPT ![r] = [at |-> "get", id |-> lookup[ip], ip |-> NoIP]]
  /\ UNCHANGED <<store, issued, client, indexer, counters>>

Get(r) ==
  /\ req[r].at = "get"
  /\ LET found == lease[req[r].id]
     IN req' = [req EXCEPT ![r] =
                  IF found = Absent THEN Idle
                  ELSE [at |-> "remove", id |-> @.id, ip |-> found]]
  /\ UNCHANGED <<store, issued, client, indexer, counters>>

RemoveAllocation(r) ==
  /\ req[r].at = "remove"
  /\ RemoveRecord(req[r].id)
  /\ req' = [req EXCEPT ![r] = IF @.ip = NoIP THEN Idle ELSE [@ EXCEPT !.at = "unlink"]]
  /\ UNCHANGED <<issued, client, indexer, counters>>

Unlink(r) ==
  /\ req[r].at = "unlink"
  /\ SetEntry(req[r].ip, Absent)
  /\ req' = [req EXCEPT ![r] = Idle]
  /\ UNCHANGED <<store, issued, client, watching, counters>>

\* The controller gives up an allocation that it could not bind: it has stopped the client,
\* and the allocation that it removes has the lease of a late callback.
GiveUp(r, id) ==
  /\ req[r].at = "idle" /\ client[id] \in IP
  /\ client' = [client EXCEPT ![id] = Absent]
  /\ req' = [req EXCEPT ![r] = [at |-> "remove", id |-> id, ip |-> client[id]]]
  /\ UNCHANGED <<store, issued, indexer, counters>>

\* The error is reported or logged; what was done stays done.
ReturnFails(r) ==
  /\ req[r].at # "idle"
  /\ req' = [req EXCEPT ![r] = Idle]
  /\ Fault
  /\ UNCHANGED <<store, issued, client, indexer, changes>>

-----------------------------------------------------------------------------
(* The environment.                                                          *)

Room == Len(queue) < MaxEvents

\* obtainIP and addAllocation.
Obtain(id) ==
  /\ id \notin issued /\ issued' = issued \cup {id} /\ Room
  /\ PutRecord(id, NoIP)
  /\ UNCHANGED <<client, indexer, req, counters>>

\* A DHCP client gets a lease, or another address than it had.  The server leases
\* an address once; the lease in a record counts also when no client renews it.
Free(id, ip) == \A other \in Id \ {id} : ip \notin {client[other], lease[other]}

Bind(id, ip) ==
  /\ id \in issued /\ Free(id, ip)
  /\ client[id] = Absent /\ lease[id] \in {NoIP, ip}
  /\ client' = [client EXCEPT ![id] = ip]
  /\ UNCHANGED <<store, issued, indexer, req, counters>>

ChangeIP(id, ip) ==
  /\ client[id] \in IP \ {ip} /\ Free(id, ip)
  /\ client' = [client EXCEPT ![id] = ip]
  /\ changes < MaxChanges /\ changes' = changes + 1
  /\ UNCHANGED <<store, issued, indexer, req, faults>>

\* The Put that follows a lease or a renewal, also of a record that is gone.
Write(id) ==
  /\ client[id] \in IP /\ Room
  /\ PutRecord(id, client[id])
  /\ UNCHANGED <<issued, client, indexer, req, counters>>

\* Expiry, which etcd does by itself, or a Remove of an allocation without a lease: by
\* obtainIP after its timeout, or by a controller that gives up.
Drop(id) ==
  /\ lease[id] # Absent /\ Room
  /\ RemoveRecord(id)
  /\ UNCHANGED <<issued, client, indexer, req, counters>>

\* The client of a removed allocation is stopped.
StopClient(id) ==
  /\ client[id] # Absent /\ lease[id] = Absent
  /\ client' = [client EXCEPT ![id] = Absent]
  /\ UNCHANGED <<store, issued, indexer, req, counters>>

\* The controller's process ends, and with it the watcher and the clients.
Crash ==
  /\ Fault
  /\ client' = [id \in Id |-> Absent]
  /\ watching' = FALSE /\ queue' = << >>
  /\ UNCHANGED <<lease, issued, lookup, req, changes>>

-----------------------------------------------------------------------------

Returning(r) ==
  \/ \E ip \in IP : LookUp(r, ip)
  \/ Get(r) \/ RemoveAllocation(r) \/ Unlink(r) \/ ReturnFails(r)

Environment(id) ==
  \/ Obtain(id) \/ Write(id) \/ Drop(id) \/ StopClient(id)
  \/ \E ip \in IP : Bind(id, ip) \/ ChangeIP(id, ip)

Next ==
  \/ StartIndex \/ HandleEvent \/ HandleFails \/ Crash
  \/ \E r \in Request : Returning(r) \/ \E id \in Id : GiveUp(r, id)
  \/ \E id \in Id : Environment(id)

Spec == Init /\ [][Next]_vars

\* The process starts its watcher, the watcher handles its events, and a client
\* renews its lease again and again.
FairSpec ==
  /\ Spec
  /\ WF_vars(StartIndex) /\ WF_vars(HandleEvent)
  /\ \A id \in Id : SF_vars(Write(id))

-----------------------------------------------------------------------------

\* With every event handled, each entry names a stored allocation with that address,
\* whatever was removed, put again or unlinked in between (model.go:200-206): unless a
\* request failed, the process ended or a renewal changed the address.
NoStaleEntry ==
  watching /\ queue = << >> /\ faults = 0 /\ changes = 0 =>
    \A ip \in IP : lookup[ip] # Absent => lease[lookup[ip]] = ip

\* An allocation that is renewed can be found by its address, at the latest after its
\* next renewal, also when a failure, a crash or the late second half of a Remove took
\* its entry away (model.go:174-185, 412-419).
FoundAgain ==
  \A id \in Id, ip \in IP :
    lease[id] = ip /\ client[id] = ip
      ~> lookup[ip] = id \/ lease[id] # ip \/ client[id] # ip
=============================================================================
