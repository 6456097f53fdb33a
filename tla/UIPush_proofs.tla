---------------------------- MODULE UIPush_proofs ----------------------------
(***************************************************************************)
(* A browser misses no change, on either page and for any number of        *)
(* changes.                                                                *)
(***************************************************************************)
EXTENDS UIPush, TLAPS

-----------------------------------------------------------------------------
(* The invariant: what is read, or was sent, is current, or somebody has yet *)
(* to say so.                                                                *)

NumbersOK ==
  /\ first \in List
  /\ stored \in [List -> 0..MaxChanges]
  /\ loop \in {"start", "read", "select", "stop", "done"}
  /\ next \in 0..Allocations
  /\ view \in [List -> 0..MaxChanges] /\ shown \in [List -> 0..MaxChanges]
  /\ watch \in [List -> {"off", "select", "handle", "ended"}]
  /\ batch \in [List -> 0..MaxChanges] /\ queue \in [List -> 0..MaxChanges]
  /\ watchersig \in 0..1
  /\ faults \in 0..MaxFaults

Announced(l) == Pending(l) \/ watchersig = 1

CountInv ==
  \A l \in List : /\ batch[l] + queue[l] <= stored[l]
                  /\ watch[l] = "handle" => batch[l] > 0

PlaceInv ==
  /\ loop \in {"start", "read", "stop"} => next \in Watched
  /\ \A l \in Watched : loop = "read" \/ loop = "select" \/ (loop = "start" /\ l < next)
                       => watch[l] # "off"

ReadInv ==
  loop = "read" => \A l \in Watched : l > next => view[l] = stored[l] \/ Announced(l)

ShownInv ==
  loop = "select" => \A l \in Watched : shown[l] = stored[l] \/ Announced(l)

PushInv ==
  TypeOK /\ CountInv /\ PlaceInv /\ (faults = 0 => ReadInv /\ ShownInv)

-----------------------------------------------------------------------------
(* The invariant is inductive. *)

LEMMA ListFacts ==
  ASSUME first \in List
  PROVE  /\ List = 1..2 /\ Allocations = 2 /\ first \in 1..2
         /\ Watched \subseteq List /\ first \in Watched /\ Allocations \in Watched
         /\ \A l \in Watched : l \in Nat /\ l >= first /\ l <= 2
         /\ \A l \in Nat : l >= first /\ l <= 2 => l \in Watched
<1>1. List = 1..2 /\ Allocations = 2
  BY DEF List, Pool, Allocations
<1> QED
  BY <1>1 DEF Watched

LEMMA FirstStays == ASSUME [Next]_vars PROVE first' = first
BY DEF Next, Handler, Watcher, StartWatch, Read, ReadFails, ReadPanics, Triggered, Signalled,
       StopWatch, Signal, TakeBatch, Trigger, EventDone, Change, vars, lists

LEMMA NumbersAreInductive ==
  NumbersOK /\ CountInv /\ PlaceInv /\ [Next]_vars => NumbersOK' /\ CountInv' /\ PlaceInv'
<1> SUFFICES ASSUME NumbersOK, CountInv, PlaceInv, [Next]_vars
             PROVE  NumbersOK' /\ CountInv' /\ PlaceInv'
  OBVIOUS
<1>0. UNCHANGED <<first, Watched>>
  BY FirstStays DEF Watched
<1> USE <1>0, PushAssumption
<1>1. CASE StartWatch
  <2>1. NumbersOK'
    BY <1>1, ListFacts DEF StartWatch, Serialise, lists, watchers, NumbersOK, PlaceInv
  <2>2. CountInv'
    BY <1>1 DEF StartWatch, lists, watchers, NumbersOK, CountInv
  <2>3. PlaceInv'
    BY <1>1, ListFacts DEF StartWatch, Serialise, lists, watchers, NumbersOK, PlaceInv
  <2> QED
    BY <2>1, <2>2, <2>3
<1>2. CASE Read
  <2>1. NumbersOK'
    BY <1>2, ListFacts DEF Read, Serialise, lists, watchers, NumbersOK, PlaceInv
  <2>2. CountInv'
    BY <1>2 DEF Read, lists, watchers, NumbersOK, CountInv
  <2>3. PlaceInv'
    BY <1>2, ListFacts DEF Read, Serialise, lists, watchers, NumbersOK, PlaceInv
  <2> QED
    BY <2>1, <2>2, <2>3
<1>3. CASE ReadFails \/ ReadPanics
  <2>1. NumbersOK'
    BY <1>3, ListFacts DEF ReadFails, ReadPanics, lists, watchers, NumbersOK
  <2>2. CountInv'
    BY <1>3 DEF ReadFails, ReadPanics, lists, watchers, NumbersOK, CountInv
  <2>3. PlaceInv'
    BY <1>3, ListFacts DEF ReadFails, ReadPanics, lists, watchers, NumbersOK, PlaceInv
  <2> QED
    BY <2>1, <2>2, <2>3
<1>4. CASE Triggered
  <2>1. NumbersOK'
    BY <1>4, ListFacts DEF Triggered, Serialise, lists, watchers, NumbersOK, PlaceInv
  <2>2. CountInv'
    BY <1>4 DEF Triggered, lists, watchers, NumbersOK, CountInv
  <2>3. PlaceInv'
    BY <1>4, ListFacts DEF Triggered, Serialise, lists, watchers, NumbersOK, PlaceInv
  <2> QED
    BY <2>1, <2>2, <2>3
<1>5. CASE Signalled
  <2>1. NumbersOK'
    BY <1>5, ListFacts DEF Signalled, Serialise, lists, watchers, NumbersOK, PlaceInv
  <2>2. CountInv'
    BY <1>5 DEF Signalled, lists, watchers, NumbersOK, CountInv
  <2>3. PlaceInv'
    BY <1>5, ListFacts DEF Signalled, Serialise, lists, watchers, NumbersOK, PlaceInv
  <2> QED
    BY <2>1, <2>2, <2>3
<1>6. CASE StopWatch
  <2>1. NumbersOK'
    BY <1>6, ListFacts DEF StopWatch, Serialise, lists, watchers, NumbersOK, PlaceInv
  <2>2. CountInv'
    BY <1>6 DEF StopWatch, lists, watchers, NumbersOK, CountInv
  <2>3. PlaceInv'
    BY <1>6, ListFacts DEF StopWatch, Serialise, lists, watchers, NumbersOK, PlaceInv
  <2> QED
    BY <2>1, <2>2, <2>3
<1>7. CASE Signal
  BY <1>7 DEF Signal, handler, lists, watchers, NumbersOK, CountInv, PlaceInv
<1>8. ASSUME NEW l \in List, TakeBatch(l) PROVE NumbersOK' /\ CountInv' /\ PlaceInv'
  <2>1. PICK n \in 1..queue[l] : /\ batch' = [batch EXCEPT ![l] = n]
                                 /\ queue' = [queue EXCEPT ![l] = @ - n]
    BY <1>8 DEF TakeBatch
  <2> QED
    BY <1>8, <2>1 DEF TakeBatch, lists, handler, NumbersOK, CountInv, PlaceInv
<1>9. ASSUME NEW l \in List, Trigger(l) PROVE NumbersOK' /\ CountInv' /\ PlaceInv'
  BY <1>9 DEF Trigger, EventDone, lists, handler, NumbersOK, CountInv, PlaceInv
<1>10. ASSUME NEW l \in List, Change(l) PROVE NumbersOK' /\ CountInv' /\ PlaceInv'
  BY <1>10 DEF Change, lists, handler, NumbersOK, CountInv, PlaceInv
<1>11. CASE UNCHANGED vars
  BY <1>11 DEF vars, handler, lists, watchers, NumbersOK, CountInv, PlaceInv
<1> QED
  BY <1>1, <1>2, <1>3, <1>4, <1>5, <1>6, <1>7, <1>8, <1>9, <1>10, <1>11
  DEF Next, Handler, Watcher

LEMMA TypeIsInductive ==
  TypeOK /\ CountInv /\ PlaceInv /\ [Next]_vars => TypeOK' /\ CountInv' /\ PlaceInv'
<1>1. TypeOK <=> NumbersOK /\ syssig \in BOOLEAN
  BY DEF TypeOK, NumbersOK
<1>2. TypeOK' <=> NumbersOK' /\ syssig' \in BOOLEAN
  BY DEF TypeOK, NumbersOK
<1>3. syssig \in BOOLEAN /\ [Next]_vars => syssig' \in BOOLEAN
  BY DEF Next, Handler, Watcher, StartWatch, Read, ReadFails, ReadPanics, Triggered, Signalled,
         StopWatch, Signal, TakeBatch, Trigger, EventDone, Change, vars
<1> QED
  BY <1>1, <1>2, <1>3, NumbersAreInductive

LEMMA PushInvIsInductive == PushInv /\ [Next]_vars => PushInv'
<1> SUFFICES ASSUME PushInv, [Next]_vars PROVE PushInv'
  OBVIOUS
<1>1. TypeOK /\ CountInv /\ PlaceInv /\ TypeOK' /\ CountInv' /\ PlaceInv'
  BY TypeIsInductive DEF PushInv
<1>2. SUFFICES ASSUME faults = 0, faults' = 0, ReadInv, ShownInv
               PROVE  ReadInv' /\ ShownInv'
  <2>1. faults' \in {faults, faults + 1}
    BY DEF Next, Handler, Watcher, StartWatch, Read, ReadFails, ReadPanics, Triggered, Signalled,
           StopWatch, Signal, TakeBatch, Trigger, EventDone, Change, vars
  <2>2. faults' = 0 => faults = 0
    BY <1>1, <2>1 DEF TypeOK
  <2> QED
    BY <1>1, <1>2, <2>2 DEF PushInv
<1>0. /\ first \in List /\ UNCHANGED <<first, Watched>>
  BY <1>1, FirstStays DEF Watched, TypeOK
<1> USE <1>0, PushAssumption
<1>3. CASE StartWatch
  <2>1. loop' = "start" \/ (loop' = "read" /\ next' = Allocations)
    BY <1>3 DEF StartWatch, Serialise
  <2> QED
    BY <2>1, ListFacts DEF ReadInv, ShownInv
<1>4. CASE Read
  <2>1. /\ loop = "read" /\ view' = [view EXCEPT ![next] = stored[next]]
        /\ UNCHANGED <<stored, batch, queue, watchersig>>
        /\ \/ next = first /\ loop' = "select" /\ shown' = view'
           \/ next # first /\ loop' = "read" /\ next' = next - 1
    BY <1>4 DEF Read, lists, watchers
  <2>2. next \in Watched /\ next \in Nat /\ next \in List /\ view \in [List -> 0..MaxChanges]
    BY <1>1, <2>1, ListFacts DEF PlaceInv, TypeOK
  <2>3. ASSUME NEW l \in Watched, l >= next PROVE view'[l] = stored'[l] \/ Announced(l)'
    <3>1. CASE l = next
      BY <2>1, <2>2, <3>1
    <3>2. CASE l # next
      <4>1. l > next
        BY <2>2, <2>3, <3>2, ListFacts
      <4>2. view[l] = stored[l] \/ Announced(l)
        BY <1>2, <2>1, <4>1 DEF ReadInv
      <4> QED
        BY <2>1, <2>2, <3>2, <4>2 DEF Announced, Pending
    <3> QED
      BY <3>1, <3>2
  <2>4. CASE next = first
    BY <2>1, <2>3, <2>4, ListFacts DEF ReadInv, ShownInv
  <2>5. CASE next # first
    <3>1. \A l \in Watched : l > next' => l >= next
      BY <2>1, <2>2, <2>5, ListFacts
    <3> QED
      BY <2>1, <2>3, <2>5, <3>1 DEF ReadInv, ShownInv
  <2> QED
    BY <2>4, <2>5
<1>5. CASE ReadFails \/ ReadPanics
  BY <1>1, <1>2, <1>5 DEF ReadFails, ReadPanics, TypeOK
<1>6. CASE Triggered
  <2>1. loop' = "read" /\ next' = Allocations
    BY <1>6 DEF Triggered, Serialise
  <2> QED
    BY <2>1, ListFacts DEF ReadInv, ShownInv
<1>7. CASE Signalled \/ StopWatch
  BY <1>7 DEF Signalled, StopWatch, ReadInv, ShownInv
<1>8. CASE Signal
  BY <1>2, <1>8 DEF Signal, lists, handler, watchers, ReadInv, ShownInv, Announced, Pending
<1>9. ASSUME NEW l \in List, TakeBatch(l) PROVE ReadInv' /\ ShownInv'
  <2>1. PICK n \in 1..queue[l] : /\ batch' = [batch EXCEPT ![l] = n]
                                 /\ queue' = [queue EXCEPT ![l] = @ - n]
    BY <1>9 DEF TakeBatch
  <2>2. \A k \in List : Pending(k) => Pending(k)'
    BY <1>1, <2>1 DEF Pending, TypeOK
  <2> QED
    BY <1>2, <1>9, <2>2, ListFacts DEF TakeBatch, lists, handler, ReadInv, ShownInv, Announced
<1>10. ASSUME NEW l \in List, Trigger(l) PROVE ReadInv' /\ ShownInv'
  BY <1>10 DEF Trigger, ReadInv, ShownInv, Announced
<1>11. ASSUME NEW l \in List, Change(l) PROVE ReadInv' /\ ShownInv'
  <2>1. \A k \in List : Pending(k) => Pending(k)'
    BY <1>1, <1>11 DEF Change, Pending, TypeOK
  <2>2. watch[l] # "off" => Pending(l)'
    BY <1>1, <1>11 DEF Change, Pending, TypeOK
  <2>3. \A k \in List : k # l => stored'[k] = stored[k]
    BY <1>1, <1>11 DEF Change, TypeOK
  <2> QED
    BY <1>1, <1>2, <1>11, <2>1, <2>2, <2>3, ListFacts
    DEF Change, lists, handler, ReadInv, ShownInv, Announced, PlaceInv
<1>12. CASE UNCHANGED vars
  BY <1>2, <1>12 DEF vars, lists, handler, watchers, ReadInv, ShownInv, Announced, Pending
<1> QED
  BY <1>3, <1>4, <1>5, <1>6, <1>7, <1>8, <1>9, <1>10, <1>11, <1>12
  DEF Next, Handler, Watcher

\* PushInv holds in every reachable state.
LEMMA PushInvHolds == Spec => []PushInv
<1>1. Init => PushInv
  <2> SUFFICES ASSUME Init PROVE PushInv
    OBVIOUS
  <2>1. NumbersOK
    BY PushAssumption, ListFacts DEF Init, NumbersOK
  <2>2. syssig \in BOOLEAN
    BY DEF Init
  <2>3. TypeOK
    BY <2>1, <2>2 DEF TypeOK, NumbersOK
  <2>4. CountInv /\ ReadInv /\ ShownInv
    BY DEF Init, CountInv, ReadInv, ShownInv
  <2>5. PlaceInv
    BY ListFacts DEF Init, PlaceInv
  <2> QED
    BY <2>3, <2>4, <2>5 DEF PushInv
<1>2. PushInv /\ [Next]_vars => PushInv'
  BY PushInvIsInductive
<1> QED
  BY <1>1, <1>2, PTL DEF Spec

\* Every variable keeps its type, also when a read fails, whether the handler reports it or
\* panics; in particular no more than one trigger is in the channel and no watcher has more
\* to deliver than what changed (main.go:120-169, 187-262).
THEOREM TypeCorrect == Spec => []TypeOK
<1>1. PushInv => TypeOK
  BY DEF PushInv
<1> QED
  BY <1>1, PushInvHolds, PTL

\* A browser that is sent nothing more is shown what is stored: the watches are set
\* before the lists are read, and a trigger in the channel stands for every change up to
\* the next read (main.go:120-169, 187-262).
THEOREM NothingIsMissed == Spec => []NoChangeIsMissed
<1>1. PushInv => NoChangeIsMissed
  BY DEF PushInv, ShownInv, Announced, NoChangeIsMissed
<1> QED
  BY <1>1, PushInvHolds, PTL
=============================================================================
