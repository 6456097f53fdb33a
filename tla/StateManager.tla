---------------------------- MODULE StateManager ----------------------------
(***************************************************************************)
(* The state that the controller, the API server and the UI share: the     *)
(* allocations and the MAC pool that model.go keeps in etcd, and the watch *)
(* that tells the controller of changes.  Every operator below is ONE etcd *)
(* request; a StateManager method made of several requests is built from   *)
(* them by the module that calls it, one step per request, because other   *)
(* processes can act in between.                                           *)
(***************************************************************************)
EXTENDS Sequences

CONSTANTS
  Id,       \* allocation IDs: NewAllocation draws a fresh UUID
  IP,       \* addresses the DHCP server can lease
  MAC,      \* hardware addresses of virtual interfaces
  HostMAC,  \* hardware address of the parent interface
  NoIP,     \* "Lease is nil"
  NoMAC,    \* "HardwareAddr is empty"
  Absent    \* "there is no such key", "there is no such object"

AllocationState == {"Unbound", "Bound", "Stale", "Stopped"}

\* An Allocation, reduced to the fields that decide what the code does.
Allocation == [state: AllocationState,
               ip:    IP \cup {NoIP},
               mac:   MAC \cup {HostMAC, NoMAC}]

ASSUME NullsAreNotValues ==
  /\ NoIP \notin IP
  /\ NoMAC \notin MAC \cup {HostMAC}
  /\ HostMAC \notin MAC
  /\ Absent \notin Allocation \cup Id

NewAllocation == [state |-> "Unbound", ip |-> NoIP, mac |-> NoMAC]

\* What a watch on the prefix "allocations" delivers.  OnModify is nil in the
\* controller's watcher, so an overwrite is not recorded.
Event == [kind: {"create", "delete"}, id: Id, val: Allocation]

VARIABLES
  alloc,    \* the keys under "allocations": Id -> Allocation or Absent
  pool,     \* the keys under "macs"
  watching, \* TRUE once the controller's watch is registered
  events    \* events of that watch not yet handled, oldest first

store == <<alloc, pool, watching, events>>

StoreTypeOK ==
  /\ alloc \in [Id -> Allocation \cup {Absent}]
  /\ pool \in SUBSET MAC
  /\ watching \in BOOLEAN
  /\ events \in Seq(Event)

StoreInit ==
  /\ alloc = [id \in Id |-> Absent]
  /\ pool = {}
  /\ watching = FALSE
  /\ events = << >>

-----------------------------------------------------------------------------

\* The watch queue after one more change of the key of id.
Notified(kind, id, val) ==
  IF watching
  THEN Append(events, [kind |-> kind, id |-> id, val |-> val])
  ELSE events

\* Put writes the whole record.  A record with a lease hangs on an etcd lease of
\* the same length, so that etcd deletes it when the DHCP lease has run out.
PutAllocation(id, a) ==
  /\ alloc' = [alloc EXCEPT ![id] = a]
  /\ events' = IF alloc[id] = Absent THEN Notified("create", id, a) ELSE events
  /\ UNCHANGED <<pool, watching>>

\* Remove, and the expiry of the etcd lease: the event carries the old record.
\* Deleting a key that is not there succeeds and is not an event.
RemoveAllocation(id) ==
  /\ alloc' = [alloc EXCEPT ![id] = Absent]
  /\ events' = IF alloc[id] = Absent THEN events
                                     ELSE Notified("delete", id, alloc[id])
  /\ UNCHANGED <<pool, watching>>

\* PutMAC's first request: some stored allocation already has the address.
MACInUse(m) == \E id \in Id : alloc[id] # Absent /\ alloc[id].mac = m

SetPool(macs) ==
  /\ pool' = macs
  /\ UNCHANGED <<alloc, watching, events>>
=============================================================================
