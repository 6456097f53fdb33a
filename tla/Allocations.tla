----------------------------- MODULE Allocations -----------------------------
(***************************************************************************)
(* The life of an allocation, as the API server, the UI and the load       *)
(* balancer may rely on it whoever writes the record, and whatever fails   *)
(* or comes late: what a record says, which states follow each other, and  *)
(* that a stored allocation keeps its interface.  Controller is shown to   *)
(* implement this specification.                                           *)
(***************************************************************************)
CONSTANTS
  Id, IP, NoIP, NoMAC, Absent,
  HardwareAddr  \* the addresses of interfaces, virtual or not

VARIABLES
  record,  \* the stored allocations: Id -> record or Absent
  asked    \* the allocations that have been requested

vars == <<record, asked>>

Init == record = [id \in Id |-> Absent] /\ asked = {}

Gone(id) == record[id] = Absent

Is(id, state) == ~Gone(id) /\ record[id].state = state

\* A stored allocation keeps its interface.
Keeps(id, mac) == Gone(id) \/ record[id].mac \in {NoMAC, mac}

Write(id, state, ip, mac) ==
  record' = [record EXCEPT ![id] = [state |-> state, ip |-> ip, mac |-> mac]]

\* An allocation is requested once.
Request(id) ==
  /\ id \notin asked
  /\ asked' = asked \cup {id}
  /\ Write(id, "Unbound", NoIP, NoMAC)

\* A lease that nobody waited for.  The allocation may be gone: it comes back.
Offer(id, ip) ==
  /\ Gone(id) \/ Is(id, "Unbound")
  /\ Write(id, "Unbound", ip, NoMAC)

\* Bound, bound again after a stop, or renewed; stored anew if it is gone.
Bind(id, ip, mac) ==
  /\ Keeps(id, mac)
  /\ Write(id, "Bound", ip, mac)

\* A graceful stop leaves all that is needed to bind the allocation again.
Suspend(id, ip, mac) ==
  /\ ~Is(id, "Unbound")
  /\ Keeps(id, mac)
  /\ Write(id, "Stopped", ip, mac)

\* Returned, given up or expired.
Release(id) ==
  /\ ~Gone(id)
  /\ record' = [record EXCEPT ![id] = Absent]

Next ==
  \E id \in Id :
    \/ Request(id)
    \/ /\ id \in asked /\ UNCHANGED asked
       /\ \/ Release(id)
          \/ \E ip \in IP : Offer(id, ip)
          \/ \E ip \in IP, mac \in HardwareAddr : Bind(id, ip, mac) \/ Suspend(id, ip, mac)

Spec == Init /\ [][Next]_vars
=============================================================================
