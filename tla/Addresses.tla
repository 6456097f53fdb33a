------------------------------ MODULE Addresses ------------------------------
(***************************************************************************)
(* Whose a hardware address is, as an administrator and the controllers    *)
(* may rely on it: it is out, free, or one allocation's, and passes from   *)
(* one allocation to another through the pool.  PutMAC and PopMAC are      *)
(* single steps here.  Nothing is promised of an address once two actors   *)
(* have handled it at the same time.  MACTable, where PutMAC and PopMAC    *)
(* are two requests each, is shown to implement this specification.        *)
(***************************************************************************)
CONSTANTS MAC, Id

VARIABLES
  free,   \* the addresses that can be popped
  owner,  \* MAC -> the allocations that have the address, or may still store it
  shared  \* the addresses that two actors have handled at the same time

vars == <<free, owner, shared>>

Init == free = {} /\ owner = [m \in MAC |-> {}] /\ shared = {}

Out(m) == m \notin free /\ owner[m] = {}

\* Registered, or given back.
Put(m) == Out(m) /\ m \in free' /\ owner'[m] = {}

\* Taken for an allocation.
Pop(m) ==
  /\ m \in free /\ owner[m] = {}
  /\ m \notin free'
  /\ \E id \in Id : owner'[m] = {id}

\* Taken out of the pool for nobody; or the last trace of its allocation is gone.
Lose(m) == ~Out(m) /\ m \notin free' /\ owner'[m] = {}

Keep(m) == (m \in free' <=> m \in free) /\ owner'[m] = owner[m]

\* A step may end one allocation's hold on an address and begin another's on another.
Next ==
  /\ shared \subseteq shared' /\ shared' \subseteq MAC
  /\ \A m \in MAC \ shared' : Keep(m) \/ Put(m) \/ Pop(m) \/ Lose(m)

Spec == Init /\ [][Next]_vars
=============================================================================
