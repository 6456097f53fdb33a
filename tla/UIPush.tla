------------------------------- MODULE UIPush -------------------------------
(***************************************************************************)
(* What one browser is shown (cmd/ui/backend/main.go): a goroutine that    *)
(* sends its lists again when it is told that something changed, and its   *)
(* watcher goroutines, which tell it through watchersig, a channel with    *)
(* room for one.  pushMACPoolChange watches the pool and the allocations,  *)
(* pushAllocationChange the allocations only.  They differ in what follows *)
(* a failed read: the error branch of the former panics.                   *)
(*                                                                         *)
(* A list is reduced to its version: how often it has changed.             *)
(***************************************************************************)
EXTENDS Naturals

CONSTANTS
  MaxChanges,  \* bound on the changes of each list
  MaxFaults    \* bound on the requests that fail

ASSUME PushAssumption == MaxChanges \in Nat /\ MaxFaults \in Nat

Pool == 1
Allocations == 2
List == {Pool, Allocations}

VARIABLES
  first,       \* the first list that the handler watches; it never changes
  stored,      \* the version of each list in etcd
  loop,        \* where the handler is
  next,        \* the list or watcher that its step is about
  view,        \* what it has read
  shown,       \* what it has sent
  watch,       \* where each watchChannel is
  batch,       \* events that it has received together and not handled
  queue,       \* events that its watch has still to deliver
  watchersig,  \* what is in the channel
  syssig,      \* a signal has been delivered
  faults

lists == <<first, stored>>
handler == <<loop, next, view, shown>>
watchers == <<watch, batch, queue>>
vars == <<lists, handler, watchers, watchersig, syssig, faults>>

TypeOK ==
  /\ first \in List
  /\ stored \in [List -> 0..MaxChanges]
  /\ loop \in {"start", "read", "select", "stop", "done"}
  /\ next \in 0..Allocations
  /\ view \in [List -> 0..MaxChanges] /\ shown \in [List -> 0..MaxChanges]
  /\ watch \in [List -> {"off", "select", "handle", "ended"}]
  /\ batch \in [List -> 0..MaxChanges] /\ queue \in [List -> 0..MaxChanges]
  /\ watchersig \in 0..1
  /\ syssig \in BOOLEAN
  /\ faults \in 0..MaxFaults

\* Which of the two handlers it is.
PushesPool == first = Pool

Watched == first..Allocations

Init ==
  /\ first \in List
  /\ stored = [l \in List |-> 0]
  /\ loop = "start" /\ next = first
  /\ view = stored /\ shown = stored
  /\ watch = [l \in List |-> "off"]
  /\ batch = [l \in List |-> 0] /\ queue = [l \in List |-> 0]
  /\ watchersig = 0 /\ syssig = FALSE /\ faults = 0

-----------------------------------------------------------------------------
(* The handler: it starts the watchers, sends the lists, and does so again   *)
(* for each trigger.                                                         *)

\* serialise reads the allocations first.
Serialise == loop' = "read" /\ next' = Allocations

StartWatch ==
  /\ loop = "start"
  /\ watch' = [watch EXCEPT ![next] = "select"]
  /\ IF next = Allocations THEN Serialise ELSE next' = next + 1 /\ UNCHANGED loop
  /\ UNCHANGED <<lists, view, shown, batch, queue, watchersig, syssig, faults>>

\* Mutant: triggers that came meanwhile are taken for answered.
ReadAndDrain ==
  /\ loop = "read"
  /\ view' = [view EXCEPT ![next] = stored[next]]
  /\ IF next = first THEN loop' = "select" /\ next' = 0 /\ shown' = view' /\ watchersig' = 0
     ELSE next' = next - 1 /\ UNCHANGED <<loop, shown, watchersig>>
  /\ UNCHANGED <<lists, watchers, syssig, faults>>

\* One request each; the answers go out together.
Read ==
  /\ loop = "read"
  /\ view' = [view EXCEPT ![next] = stored[next]]
  /\ IF next = first THEN loop' = "select" /\ next' = 0 /\ shown' = view'
     ELSE next' = next - 1 /\ UNCHANGED <<loop, shown>>
  /\ UNCHANGED <<lists, watchers, watchersig, syssig, faults>>

\* pushAllocationChange sends an error instead.
ReadFails ==
  /\ loop = "read" /\ ~PushesPool
  /\ faults < MaxFaults /\ faults' = faults + 1
  /\ loop' = "select" /\ next' = 0
  /\ UNCHANGED <<lists, view, shown, watchers, watchersig, syssig>>

\* pushMACPoolChange calls err.Error() with the err of Upgrade, which is nil.  The HTTP
\* server recovers from the panic after the deferred functions have run.
ReadPanics ==
  /\ loop = "read" /\ PushesPool
  /\ faults < MaxFaults /\ faults' = faults + 1
  /\ loop' = "stop" /\ next' = Allocations
  /\ UNCHANGED <<lists, view, shown, watchers, watchersig, syssig>>

Triggered ==
  /\ loop = "select" /\ watchersig = 1
  /\ watchersig' = 0
  /\ Serialise
  /\ UNCHANGED <<lists, view, shown, watchers, syssig, faults>>

\* The deferred functions run, the last one first.
Signalled ==
  /\ loop = "select" /\ syssig
  /\ loop' = "stop" /\ next' = Allocations
  /\ UNCHANGED <<lists, view, shown, watchers, watchersig, syssig, faults>>

\* Mutant: both deferred functions stop the last watcher.
StopLast ==
  /\ loop = "stop" /\ watch[Allocations] = "select"
  /\ watch' = [watch EXCEPT ![Allocations] = "ended"]
  /\ next' = next - 1
  /\ loop' = IF next = first THEN "done" ELSE "stop"
  /\ UNCHANGED <<lists, view, shown, batch, queue, watchersig, syssig, faults>>

\* The stop function waits until the watcher receives from stopChan.
StopWatch ==
  /\ loop = "stop" /\ watch[next] = "select"
  /\ watch' = [watch EXCEPT ![next] = "ended"]
  /\ next' = next - 1
  /\ loop' = IF next = first THEN "done" ELSE "stop"
  /\ UNCHANGED <<lists, view, shown, batch, queue, watchersig, syssig, faults>>

-----------------------------------------------------------------------------
(* A watcher: watchChannel with the trigger as its callbacks.                *)

TakeBatch(l) ==
  /\ watch[l] = "select" /\ queue[l] > 0
  /\ \E n \in 1..queue[l] : /\ batch' = [batch EXCEPT ![l] = n]
                            /\ queue' = [queue EXCEPT ![l] = @ - n]
  /\ watch' = [watch EXCEPT ![l] = "handle"]
  /\ UNCHANGED <<lists, handler, watchersig, syssig, faults>>

EventDone(l) ==
  /\ batch' = [batch EXCEPT ![l] = @ - 1]
  /\ watch' = [watch EXCEPT ![l] = IF batch[l] = 1 THEN "select" ELSE "handle"]
  /\ UNCHANGED <<lists, handler, queue, syssig, faults>>

\* Mutant: the trigger is lost when nobody waits for it.
TriggerOrDrop(l) ==
  /\ watch[l] = "handle"
  /\ watchersig' = IF loop = "select" THEN 1 ELSE watchersig
  /\ EventDone(l)

\* Mutant: the trigger does not wait for room.
TriggerAnyway(l) ==
  /\ watch[l] = "handle"
  /\ watchersig' = watchersig + 1
  /\ EventDone(l)

\* The channel has room for one.
Trigger(l) ==
  /\ watch[l] = "handle" /\ watchersig = 0
  /\ watchersig' = 1
  /\ EventDone(l)

-----------------------------------------------------------------------------
(* The environment. *)

Change(l) ==
  /\ stored[l] < MaxChanges
  /\ stored' = [stored EXCEPT ![l] = @ + 1]
  /\ queue' = IF watch[l] = "off" THEN queue ELSE [queue EXCEPT ![l] = @ + 1]
  /\ UNCHANGED <<first, handler, watch, batch, watchersig, syssig, faults>>

Signal ==
  /\ ~syssig /\ syssig' = TRUE
  /\ UNCHANGED <<lists, handler, watchers, watchersig, faults>>

-----------------------------------------------------------------------------

Handler ==
  \/ StartWatch \/ Read \/ ReadFails \/ ReadPanics
  \/ Triggered \/ Signalled \/ StopWatch

Watcher(l) == TakeBatch(l) \/ Trigger(l)

Next ==
  \/ Handler \/ Signal
  \/ \E l \in List : Watcher(l) \/ Change(l)

Spec == Init /\ [][Next]_vars

\* Goroutines go on when they can; a select does not ignore a signal forever.
FairSpec ==
  /\ Spec
  /\ WF_vars(Handler) /\ SF_vars(Signalled)
  /\ \A l \in List : WF_vars(Watcher(l))

-----------------------------------------------------------------------------

Pending(l) == batch[l] + queue[l] > 0

Stuck(l) == watch[l] = "handle" /\ watchersig = 1

\* A browser that is sent nothing more is shown what is stored: no change of a list is
\* missed between the start of its watch, the first push and the triggers that were
\* folded into one, unless a request failed (main.go:120-169, 187-262).
NoChangeIsMissed ==
  loop = "select" /\ watchersig = 0 /\ faults = 0 =>
    \A l \in Watched : shown[l] = stored[l] \/ Pending(l)

\* Each version of a list, or a later one, is shown in the end: the triggers of one list
\* do not keep those of the other out (main.go:165-167, 252-261).  Not so once a request
\* has failed: the error stays until the next change, or the handler ends.
IsShown ==
  \A l \in List, v \in 1..MaxChanges :
    l \in Watched /\ stored[l] = v ~> shown[l] >= v \/ syssig \/ faults > 0

\* A handler that is told to end, or whose read panics, returns, unless it is stopping and
\* a watcher has a second trigger, for which the channel has no room (main.go:131,
\* 162-164, 215-247).
HandlerReturns ==
  syssig \/ loop = "stop"
    ~> loop = "done" \/ (loop = "stop" /\ \E l \in List : Stuck(l))
=============================================================================
