--------------------------- MODULE DHCPController ---------------------------
(***************************************************************************)
(* dhcp.go: the DHCP clients of the controller process, the map that finds *)
(* the client of an address, and the virtual interfaces.  A client is a    *)
(* goroutine of the dhclient library; the library and the DHCP server are  *)
(* external and modelled from how dhcp.go calls them.                      *)
(*                                                                         *)
(* A client is identified by the allocation it was started for: there is   *)
(* never a second one for the same allocation (Controller!NoSecondClient). *)
(***************************************************************************)
EXTENDS StateManager, FiniteSets

CONSTANT
  IPChange   \* TRUE: a renewal may yield an address other than the one before

ASSUME IPChangeIsBoolean == IPChange \in BOOLEAN

VARIABLES
  clients,   \* the map DHCPController.clients: IP -> Id or Absent
  client,    \* the running client goroutines: Id -> Client or Absent
  devices    \* virtual interfaces, by the allocation they were created for

dhcp == <<clients, client, devices>>

\* al: the Allocation struct that the renew callback closes over, shared with
\* the goroutine that started the client.  ip: the lease the client holds.
\* mac: the address of its interface.  cb: the record a renew callback has
\* encoded and not yet written; the client goroutine is then inside Put.
Client == [al:  Allocation,
           ip:  IP \cup {NoIP},
           mac: MAC \cup {HostMAC},
           cb:  Allocation \cup {Absent}]

ASSUME AbsentIsNotAClient == Absent \notin Client

DHCPTypeOK ==
  /\ clients \in [IP -> Id \cup {Absent}]
  /\ client \in [Id -> Client \cup {Absent}]
  /\ devices \in SUBSET (Id \X MAC)

DHCPInit ==
  /\ clients = [ip \in IP |-> Absent]
  /\ client = [id \in Id |-> Absent]
  /\ devices = {}

Running(id) == client[id] # Absent
Registered(id) == \E ip \in IP : clients[ip] = id

-----------------------------------------------------------------------------

\* client.Start: the client of id looks for a lease on the interface m.
StartClient(id, a, m) ==
  client' = [client EXCEPT ![id] =
               [al |-> a, ip |-> NoIP, mac |-> m, cb |-> Absent]]

\* client.Stop waits for the goroutine, hence for a renew callback in progress.
StopClient(id) ==
  /\ client[id].cb = Absent
  /\ client' = [client EXCEPT ![id] = Absent]

\* DHCPController.Stop: whoever is registered under ip is taken out and stopped.
\* (Mutant: the entry stays in the map.)
StopKeepsEntry(ip) ==
  IF ip \in IP /\ clients[ip] # Absent
  THEN StopClient(clients[ip]) /\ UNCHANGED clients
  ELSE UNCHANGED <<clients, client>>

Stop(ip) ==
  IF ip \in IP /\ clients[ip] # Absent
  THEN /\ StopClient(clients[ip])
       /\ clients' = [clients EXCEPT ![ip] = Absent]
  ELSE UNCHANGED <<clients, client>>

\* The DHCP server (external): an address is leased to one hardware address at a
\* time.  The lease of a stored allocation counts even when no client renews it,
\* because etcd deletes the record no later than the lease runs out.
Leasable(id, ip) ==
  /\ \A other \in Id \ {id} :
       /\ Running(other) /\ client[other].ip = ip
            => client[other].mac = client[id].mac
       /\ alloc[other] # Absent /\ alloc[other].ip = ip
            => alloc[other].mac = client[id].mac
  /\ IPChange \/ client[id].ip \in {NoIP, ip}

\* OnBound when nobody receives from boundCh: a renewal, a lease that came after
\* the timeout, or one that came before BindAllocationToInterface reached its
\* select.  onRenew changes the shared struct and encodes it.
OnRenew(id, ip) ==
  /\ Running(id)
  /\ client[id].cb = Absent
  /\ Leasable(id, ip)
  /\ LET a == [client[id].al EXCEPT !.ip = ip]
     IN client' = [client EXCEPT ![id] =
                     [al |-> a, ip |-> ip, mac |-> client[id].mac, cb |-> a]]
  /\ UNCHANGED <<clients, devices>>

\* The rest of onRenew: the Put of what was encoded.
RenewPut(id) ==
  /\ Running(id)
  /\ client[id].cb # Absent
  /\ PutAllocation(id, client[id].cb)
  /\ client' = [client EXCEPT ![id].cb = Absent]
  /\ UNCHANGED <<clients, devices>>

\* The same Put when the request fails: onRenew logs a warning.
RenewPutFails(id) ==
  /\ Running(id)
  /\ client[id].cb # Absent
  /\ client' = [client EXCEPT ![id].cb = Absent]
  /\ UNCHANGED <<clients, devices>>
=============================================================================
