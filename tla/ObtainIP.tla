------------------------------ MODULE ObtainIP ------------------------------
(***************************************************************************)
(* One request for an address (cmd/apiserver/handler.go, obtainIP): the    *)
(* goroutine of the HTTP handler, the watcher goroutine that               *)
(* WatchAllocation starts for it, and the two unbuffered channels between  *)
(* them.  A send and its receive are one step.  Requests do not interact:  *)
(* each has an ID, a watcher and channels of its own.                      *)
(*                                                                         *)
(* The controller and etcd's expiry are the environment; what they do to   *)
(* the record is what module Controller does to it.                        *)
(***************************************************************************)
EXTENDS Naturals, Sequences

CONSTANTS
  IP,        \* addresses that may be leased
  NoIP,      \* no lease; in an answer: a timeout
  Absent,    \* no record; no answer yet
  MaxWrites  \* bound on the leases that the controller stores

ASSUME RequestAssumption ==
  /\ NoIP # Absent /\ {NoIP, Absent} \cap IP = {}
  /\ MaxWrites \in Nat

VARIABLES
  handler,     \* where obtainIP is
  answer,      \* what it has decided to respond
  watcher,     \* where watchChannel is
  batch,       \* events it has received together and not handled yet
  queue,       \* events that the watch has still to deliver
  record,      \* the lease in the stored allocation, NoIP or Absent
  controller,  \* what the controller will do with the allocation
  writes       \* leases that the controller has stored

channels == <<handler, answer, watcher, batch>>
store == <<queue, record>>
vars == <<channels, store, controller, writes>>

Event == [kind: {"create", "modify", "delete"}, lease: IP \cup {NoIP}]

TypeOK ==
  /\ handler \in {"start", "ready", "select", "remove", "stop", "done"}
  /\ answer \in IP \cup {NoIP, Absent}
  /\ watcher \in {"off", "select", "handle", "ended"}
  /\ batch \in Seq(Event) /\ queue \in Seq(Event)
  /\ record \in IP \cup {NoIP, Absent}
  /\ controller \in {"idle", "bind", "serve"}
  /\ writes \in 0..MaxWrites

Init ==
  /\ handler = "start" /\ answer = Absent
  /\ watcher = "off" /\ batch = << >> /\ queue = << >>
  /\ record = Absent
  /\ controller = "idle" /\ writes = 0

-----------------------------------------------------------------------------
(* The store.  The watch is registered when WatchAllocation returns. *)

Notify(kind, lease) ==
  queue' = IF watcher = "off" THEN queue
           ELSE Append(queue, [kind |-> kind, lease |-> lease])

PutRecord(lease) ==
  /\ record' = lease
  /\ Notify(IF record = Absent THEN "create" ELSE "modify", lease)

\* Mutant: deleting a key that is not there is an event.
RemoveAnyway == record' = Absent /\ Notify("delete", record)

RemoveRecord ==
  /\ record' = Absent
  /\ IF record = Absent THEN UNCHANGED queue ELSE Notify("delete", record)

-----------------------------------------------------------------------------
(* The handler. *)

StartWatch(from, to) ==
  /\ handler = from /\ handler' = to
  /\ watcher' = "select"
  /\ UNCHANGED <<answer, batch, store, controller, writes>>

\* The error of Put is ignored.
Put(from, to) ==
  /\ handler = from /\ handler' = to
  /\ \/ PutRecord(NoIP) /\ controller' = "bind"
     \/ UNCHANGED <<store, controller>>
  /\ UNCHANGED <<answer, watcher, batch, writes>>

\* Mutant: the allocation is put before the watch is set.
PutFirst == Put("start", "ready") \/ StartWatch("ready", "select")

Begin == StartWatch("start", "ready") \/ Put("ready", "select")

\* OnModify sends the lease; OnCreate and OnDelete are nil.
Sends(e) == e.kind = "modify" /\ e.lease # NoIP

Sending == watcher = "handle" /\ Sends(Head(batch))

AfterThis == IF Len(batch) = 1 THEN "select" ELSE "handle"

Receive ==
  /\ handler = "select" /\ Sending
  /\ answer' = Head(batch).lease
  /\ handler' = "stop"
  /\ batch' = Tail(batch) /\ watcher' = AfterThis
  /\ UNCHANGED <<store, controller, writes>>

Timeout ==
  /\ handler = "select"
  /\ handler' = "remove"
  /\ UNCHANGED <<answer, watcher, batch, store, controller, writes>>

\* The error of Remove is ignored.
Remove ==
  /\ handler = "remove" /\ handler' = "stop"
  /\ answer' = NoIP
  /\ RemoveRecord \/ UNCHANGED store
  /\ UNCHANGED <<watcher, batch, controller, writes>>

\* stopWatch waits until the watcher receives from stopChan.
StopWatch ==
  /\ handler = "stop" /\ watcher = "select"
  /\ handler' = "done" /\ watcher' = "ended"
  /\ UNCHANGED <<answer, batch, store, controller, writes>>

-----------------------------------------------------------------------------
(* The watcher: events that arrived together are handled without a look at   *)
(* stopChan.                                                                 *)

\* Mutant: what has been received is received again.
Redeliver ==
  /\ watcher = "select" /\ queue # << >>
  /\ batch' = queue /\ watcher' = "handle"
  /\ UNCHANGED <<handler, answer, store, controller, writes>>

TakeBatch ==
  /\ watcher = "select" /\ queue # << >>
  /\ \E n \in 1..Len(queue) : /\ batch' = SubSeq(queue, 1, n)
                              /\ queue' = SubSeq(queue, n + 1, Len(queue))
  /\ watcher' = "handle"
  /\ UNCHANGED <<handler, answer, record, controller, writes>>

Ignore ==
  /\ watcher = "handle" /\ ~Sends(Head(batch))
  /\ batch' = Tail(batch) /\ watcher' = AfterThis
  /\ UNCHANGED <<handler, answer, store, controller, writes>>

-----------------------------------------------------------------------------
(* The environment.  The controller stores the lease of a bind, or gives the *)
(* request up; then it renews until it has handled a deletion.  It may act   *)
(* on a record that has been removed in the meantime.                        *)

WriteLease(ip) ==
  /\ controller \in {"bind", "serve"}
  /\ writes < MaxWrites
  /\ PutRecord(ip)
  /\ controller' = "serve" /\ writes' = writes + 1
  /\ UNCHANGED channels

GiveUp ==
  /\ controller = "bind"
  /\ RemoveRecord \/ UNCHANGED store
  /\ controller' = "idle"
  /\ UNCHANGED <<channels, writes>>

\* returnIP, or the expiry of the record.
Release ==
  /\ record \in IP
  /\ RemoveRecord
  /\ UNCHANGED <<channels, controller, writes>>

OnDelete ==
  /\ controller = "serve" /\ record = Absent
  /\ controller' = "idle"
  /\ UNCHANGED <<channels, store, writes>>

-----------------------------------------------------------------------------

Handler == Begin \/ Receive \/ Timeout \/ Remove \/ StopWatch

Watcher == TakeBatch \/ Ignore

Environment == (\E ip \in IP : WriteLease(ip)) \/ GiveUp \/ Release \/ OnDelete

Next == Handler \/ Watcher \/ Environment

Spec == Init /\ [][Next]_vars

\* Both goroutines go on when they can, and the timer fires.
FairSpec == Spec /\ WF_vars(Handler) /\ WF_vars(Watcher)

-----------------------------------------------------------------------------

\* A lease that is stored while the handler waits will be offered to it, whenever the
\* controller stores it: that is why the watch is set before the allocation is put
\* (handler.go:34-35).
NoMissedAnswer ==
  handler = "select" /\ record \in IP =>
    \/ \E i \in DOMAIN batch : Sends(batch[i])
    \/ \E i \in DOMAIN queue : Sends(queue[i])

\* A request that got its address in time ends, unless another lease is stored while
\* its watcher is still on (handler.go:38-45, 59).
AnsweredEnds == answer \in IP ~> handler = "done" \/ writes > 1

\* Every request ends: the address or a timeout is reported back (handler.go:47).
RequestEnds == <>(handler = "done")
=============================================================================
