---------------------------- MODULE InMemoryState ----------------------------
(***************************************************************************)
(* The in-memory state manager (cmd/ui/backend/debug.go), with which the   *)
(* UI can be run without etcd; the call is commented out (main.go:84).  A  *)
(* change is sent to the channels of all watchers by the goroutine that    *)
(* makes it; each channel has room for one, each watcher one channel per   *)
(* kind of change, and its goroutine serves them in any order.  Nothing is *)
(* locked.                                                                 *)
(***************************************************************************)
EXTENDS Naturals

CONSTANTS
  Thread,    \* goroutines that call the state manager
  Watcher,   \* watchers, each with the push loop that started it
  Id, MAC,   \* keys: allocations and hardware addresses
  Watched,   \* the keys that each watcher looks at
  None,
  MaxCalls   \* bound on the calls

Key == Id \cup MAC

ASSUME MemoryAssumption ==
  /\ Id \cap MAC = {} /\ None \notin Key
  /\ Watched \in [Watcher -> {MAC} \cup SUBSET Id]
  /\ MaxCalls \in Nat

AllocationKinds == {"create", "change", "delete"}
PoolKinds == {"push", "pop"}
Kind == AllocationKinds \cup PoolKinds

KindsOf(k) == IF k \in Id THEN AllocationKinds ELSE PoolKinds

\* Watch, WatchAllocation or WatchMACPool.
KindsWatched(w) == IF Watched[w] \subseteq Id THEN AllocationKinds ELSE PoolKinds

VARIABLES
  stored,      \* the keys in the maps
  op,          \* what each thread is calling: kind and key, or None
  step,        \* where it is
  todo,        \* watchers that its range over a map of channels has still to visit
  at,          \* the watcher it sends to, or None
  listening,   \* watchers whose channels are in the maps
  chan,        \* what is in the channels: Watcher -> Kind -> key or None
  loop,        \* where the goroutine of each watcher is
  chanStop,    \* watchers that have been told to stop
  handler,     \* where each push loop is
  watchersig,  \* push loops with a trigger in their channel
  stale,       \* history: push loops that have not read again since a change
  alive,       \* the process runs
  calls

threads == <<op, step, todo, at, calls>>
watchers == <<listening, chan, loop, chanStop>>
loops == <<handler, watchersig>>
vars == <<stored, threads, watchers, loops, stale, alive>>

TypeOK ==
  /\ stored \in SUBSET Key
  /\ op \in [Thread -> [kind: Kind, key: Key] \cup {None}]
  /\ step \in [Thread -> {"idle", "write", "range", "send"}]
  /\ todo \in [Thread -> SUBSET Watcher]
  /\ at \in [Thread -> Watcher \cup {None}]
  /\ listening \in SUBSET Watcher
  /\ chan \in [Watcher -> [Kind -> Key \cup {None}]]
  /\ loop \in [Watcher -> {"off", "select", "callback", "ended"}]
  /\ chanStop \in SUBSET Watcher
  /\ handler \in [Watcher -> {"start", "read", "select", "ended"}]
  /\ watchersig \in SUBSET Watcher
  /\ stale \in SUBSET Watcher
  /\ alive \in BOOLEAN
  /\ calls \in 0..MaxCalls

NoCall == [t \in Thread |-> None]
IdleThreads == [t \in Thread |-> "idle"]
NoTargets == [t \in Thread |-> {}]
EmptyChannels == [w \in Watcher |-> [k \in Kind |-> None]]
NoGoroutines == [w \in Watcher |-> "off"]
NewLoops == [w \in Watcher |-> "start"]

Init ==
  /\ stored = {} /\ alive = TRUE /\ calls = 0
  /\ op = NoCall /\ step = IdleThreads /\ todo = NoTargets /\ at = NoCall
  /\ listening = {} /\ chan = EmptyChannels /\ loop = NoGoroutines /\ chanStop = {}
  /\ handler = NewLoops /\ watchersig = {} /\ stale = {}

-----------------------------------------------------------------------------
(* Put, Remove, PutMAC, RemoveMAC and PopMAC.                                *)

\* What the call finds first decides what it will do and announce.
Call(t, kind, key) ==
  /\ step[t] = "idle"
  /\ calls < MaxCalls /\ calls' = calls + 1
  /\ kind \in KindsOf(key)
  /\ kind = "create" => key \notin stored
  /\ kind \in {"change", "pop"} => key \in stored
  /\ op' = [op EXCEPT ![t] = [kind |-> kind, key |-> key]]
  /\ step' = [step EXCEPT ![t] = "write"]
  /\ UNCHANGED <<stored, todo, at, watchers, loops, stale>>

\* Mutant: a change of an allocation is not announced.
AudienceOfNew(kind) == {w \in listening : kind \in KindsWatched(w) \ {"change"}}

Audience(kind) == {w \in listening : kind \in KindsWatched(w)}

\* Then it writes the map, and ranges over the channels.
Write(t) ==
  /\ step[t] = "write"
  /\ stored' = IF op[t].kind \in {"delete", "pop"} THEN stored \ {op[t].key}
                                                   ELSE stored \cup {op[t].key}
  /\ stale' = stale \cup {w \in Watcher : handler[w] = "select" /\ op[t].key \in Watched[w]}
  /\ step' = [step EXCEPT ![t] = "range"]
  /\ todo' = [todo EXCEPT ![t] = Audience(op[t].kind)]
  /\ UNCHANGED <<op, at, calls, watchers, loops>>

\* In any order.
Visit(t, w) ==
  /\ step[t] = "range" /\ w \in todo[t]
  /\ step' = [step EXCEPT ![t] = "send"]
  /\ todo' = [todo EXCEPT ![t] = @ \ {w}]
  /\ at' = [at EXCEPT ![t] = w]
  /\ UNCHANGED <<stored, op, calls, watchers, loops, stale>>

\* The send waits for room.
Send(t) ==
  /\ step[t] = "send"
  /\ chan[at[t]][op[t].kind] = None
  /\ chan' = [chan EXCEPT ![at[t]][op[t].kind] = op[t].key]
  /\ step' = [step EXCEPT ![t] = "range"]
  /\ at' = [at EXCEPT ![t] = None]
  /\ UNCHANGED <<stored, op, todo, calls, listening, loop, chanStop, loops, stale>>

Done(t) ==
  /\ step[t] = "range" /\ todo[t] = {}
  /\ step' = [step EXCEPT ![t] = "idle"]
  /\ op' = [op EXCEPT ![t] = None]
  /\ UNCHANGED <<stored, todo, at, calls, watchers, loops, stale>>

-----------------------------------------------------------------------------
(* A watcher, and the push loop that starts it.                              *)

\* The range of a call in progress may or may not visit the new channels.
Watch(w) ==
  /\ handler[w] = "start"
  /\ handler' = [handler EXCEPT ![w] = "read"]
  /\ listening' = listening \cup {w}
  /\ loop' = [loop EXCEPT ![w] = "select"]
  /\ \E T \in SUBSET {t \in Thread : step[t] \in {"range", "send"}
                                     /\ op[t].kind \in KindsWatched(w)} :
       todo' = [t \in Thread |-> IF t \in T THEN todo[t] \cup {w} ELSE todo[t]]
  /\ UNCHANGED <<stored, op, step, at, calls, chan, chanStop, watchersig, stale>>

Read(w) ==
  /\ handler[w] = "read"
  /\ handler' = [handler EXCEPT ![w] = "select"]
  /\ stale' = stale \ {w}
  /\ UNCHANGED <<stored, threads, watchers, watchersig>>

Triggered(w) ==
  /\ handler[w] = "select" /\ w \in watchersig
  /\ watchersig' = watchersig \ {w}
  /\ handler' = [handler EXCEPT ![w] = "read"]
  /\ UNCHANGED <<stored, threads, watchers, stale>>

\* A signal.  The deferred stop function does not wait: chanStop has room.
Signalled(w) ==
  /\ handler[w] = "select"
  /\ handler' = [handler EXCEPT ![w] = "ended"]
  /\ chanStop' = chanStop \cup {w}
  /\ stale' = stale \ {w}
  /\ UNCHANGED <<stored, threads, listening, chan, loop, watchersig>>

\* Mutant: deletions are not received.
ReceiveMost(w, kind) ==
  /\ loop[w] = "select" /\ chan[w][kind] # None
  /\ kind # "delete"
  /\ loop' = [loop EXCEPT ![w] = IF chan[w][kind] \in Watched[w] THEN "callback" ELSE @]
  /\ chan' = [chan EXCEPT ![w][kind] = None]
  /\ UNCHANGED <<stored, threads, listening, chanStop, loops, stale>>

\* WatchAllocation passes over other allocations.
Receive(w, kind) ==
  /\ loop[w] = "select" /\ chan[w][kind] # None
  /\ loop' = [loop EXCEPT ![w] = IF chan[w][kind] \in Watched[w] THEN "callback" ELSE @]
  /\ chan' = [chan EXCEPT ![w][kind] = None]
  /\ UNCHANGED <<stored, threads, listening, chanStop, loops, stale>>

\* The callback waits for room.
Trigger(w) ==
  /\ loop[w] = "callback" /\ w \notin watchersig
  /\ watchersig' = watchersig \cup {w}
  /\ loop' = [loop EXCEPT ![w] = "select"]
  /\ UNCHANGED <<stored, threads, listening, chan, chanStop, handler, stale>>

\* Mutant: the channels are set to nil.
QuitNil(w) ==
  /\ loop[w] = "select" /\ w \in chanStop
  /\ loop' = [loop EXCEPT ![w] = "ended"]
  /\ chanStop' = chanStop \ {w}
  /\ chan' = [chan EXCEPT ![w] = None]
  /\ UNCHANGED <<stored, threads, listening, loops, stale>>

\* The deferred deletes.  No range visits the channels any more, but a thread may already
\* be sending to one.
Quit(w) ==
  /\ loop[w] = "select" /\ w \in chanStop
  /\ loop' = [loop EXCEPT ![w] = "ended"]
  /\ chanStop' = chanStop \ {w}
  /\ listening' = listening \ {w}
  /\ todo' = [t \in Thread |-> todo[t] \ {w}]
  /\ UNCHANGED <<stored, op, step, at, calls, chan, loops, stale>>

-----------------------------------------------------------------------------
(* Maps are not safe for concurrent use.                                     *)

\* One thread writes a map that another one writes or a push loop reads.
KeyRace ==
  \E t \in Thread :
    /\ step[t] = "write"
    /\ \/ \E u \in Thread \ {t} : step[u] = "write" /\ KindsOf(op[u].key) = KindsOf(op[t].key)
       \/ \E w \in Watcher : handler[w] = "read" /\ op[t].kind \in KindsWatched(w)

Registering(w) == handler[w] = "start" \/ (loop[w] = "select" /\ w \in chanStop)

\* A watcher writes a map of channels that another one writes or a call ranges over.
ChannelRace ==
  \E w \in Watcher :
    /\ Registering(w)
    /\ \/ \E v \in Watcher \ {w} : Registering(v) /\ KindsWatched(v) = KindsWatched(w)
       \/ \E t \in Thread : step[t] = "range" /\ op[t].kind \in KindsWatched(w)

\* The runtime ends the process when it notices, and all of this is gone.
Fatal ==
  /\ KeyRace \/ ChannelRace
  /\ alive' = FALSE
  /\ stored' = {} /\ calls' = 0
  /\ op' = NoCall /\ step' = IdleThreads /\ todo' = NoTargets /\ at' = NoCall
  /\ listening' = {} /\ chan' = EmptyChannels /\ loop' = NoGoroutines /\ chanStop' = {}
  /\ handler' = NewLoops /\ watchersig' = {} /\ stale' = {}

-----------------------------------------------------------------------------

\* The steps of a call other than to begin it.
Continue(t) ==
  \/ Write(t) \/ Send(t) \/ Done(t)
  \/ \E w \in Watcher : Visit(t, w)

Goroutine(w) == Trigger(w) \/ Quit(w) \/ \E kind \in Kind : Receive(w, kind)

Loop(w) == Read(w) \/ Triggered(w)

Running(action) == alive /\ action /\ UNCHANGED alive

Next ==
  \/ \E t \in Thread : \/ Running(Continue(t))
                       \/ \E kind \in Kind, key \in Key : Running(Call(t, kind, key))
  \/ \E w \in Watcher : Running(Watch(w) \/ Loop(w) \/ Signalled(w) \/ Goroutine(w))
  \/ alive /\ Fatal

Spec == Init /\ [][Next]_vars

System ==
  \/ \E t \in Thread : Continue(t)
  \/ \E w \in Watcher : Loop(w) \/ Goroutine(w)

\* Goroutines go on when they can: some goroutine does.  That is enough, for with finitely
\* many calls and no new watcher each has finitely many steps.
FairSpec == Spec /\ WF_vars(Running(System))

-----------------------------------------------------------------------------

\* Nobody makes room in a channel of this watcher any more.
Deaf(w) ==
  \/ loop[w] = "ended"
  \/ handler[w] = "ended" /\ loop[w] = "callback" /\ w \in watchersig

\* A call that will never return.
Stuck(t) ==
  step[t] = "send" /\ Deaf(at[t]) /\ chan[at[t]][op[t].kind] # None

\* A change of interest to w is on its way to w.
InCall(t, w) ==
  /\ step[t] \in {"range", "send"}
  /\ op[t].key \in Watched[w]
  /\ w \in todo[t] \/ (step[t] = "send" /\ at[t] = w)

InChannel(kind, w) == chan[w][kind] \in Watched[w]

OnItsWay(w) ==
  \/ w \in watchersig \/ loop[w] = "callback"
  \/ \E kind \in Kind : InChannel(kind, w)
  \/ \E t \in Thread : InCall(t, w)

\* A browser that waits is shown what is stored, or will be told: a change reaches every
\* watcher that is registered, whatever order calls, ranges, channels and triggers have
\* (debug.go:152-167, 199-205; main.go:120-131, 157-167).
NoChangeIsMissed ==
  \A w \in Watcher : handler[w] = "select" /\ w \in stale => OnItsWay(w)

\* A call returns, unless it sends to a watcher whose handler has ended and whose
\* goroutine ended or waits for it: then nobody receives (debug.go:157-163, 65-77).
CallEnds ==
  \A t \in Thread : step[t] # "idle" ~> step[t] = "idle" \/ Stuck(t) \/ ~alive

\* A browser is shown each change in the end, unless a call is stuck: then it may have
\* been sent to others only (debug.go:157-163).
IsShown ==
  \A w \in Watcher :
    w \in stale ~> w \notin stale \/ ~alive \/ \E t \in Thread : Stuck(t)
=============================================================================
