------------------------- MODULE InMemoryState_proofs -------------------------
(***************************************************************************)
(* A browser misses no change that the in-memory state manager makes, for  *)
(* every number of threads, watchers and keys.                             *)
(***************************************************************************)
EXTENDS InMemoryState, TLAPS

-----------------------------------------------------------------------------
(* The invariant.                                                            *)

OpRecord == [kind: Kind, key: Key]

\* A call in progress has a kind that fits its key, and a target while it sends.
CallInv ==
  \A t \in Thread :
    /\ step[t] # "idle" => /\ op[t] \in OpRecord
                           /\ op[t].kind \in KindsOf(op[t].key)
    /\ step[t] = "send" => at[t] \in Watcher

\* The channels of a push loop that runs are in the maps, and somebody receives.
LoopInv ==
  \A w \in Watcher :
    /\ handler[w] \in {"read", "select"} => /\ w \in listening
                                            /\ loop[w] \in {"select", "callback"}
    /\ w \in chanStop => handler[w] = "ended"

MemoryInv == TypeOK /\ CallInv /\ LoopInv /\ NoChangeIsMissed

USE DEF threads, watchers, loops

-----------------------------------------------------------------------------
(* Types.                                                                    *)

\* A key that is watched is announced with the kinds that its watcher receives.
LEMMA WatchedIsHeard ==
  ASSUME NEW w \in Watcher, NEW key \in Watched[w], NEW kind \in KindsOf(key)
  PROVE  kind \in KindsWatched(w)
<1> USE MemoryAssumption
<1>1. CASE Watched[w] \in SUBSET Id
  BY <1>1 DEF KindsOf, KindsWatched
<1>2. CASE Watched[w] = MAC
  BY <1>2 DEF KindsOf, KindsWatched
<1> QED
  BY <1>1, <1>2

LEMMA InitMemory == Init => MemoryInv
<1> SUFFICES ASSUME Init PROVE MemoryInv
  OBVIOUS
<1> USE MemoryAssumption DEF Init, NoCall, IdleThreads, NoTargets, EmptyChannels, NoGoroutines, NewLoops
<1>1. TypeOK
  BY DEF TypeOK
<1>2. CallInv /\ LoopInv /\ NoChangeIsMissed
  BY DEF CallInv, LoopInv, NoChangeIsMissed
<1> QED
  BY <1>1, <1>2 DEF MemoryInv

LEMMA ThreadTypes ==
  ASSUME TypeOK, CallInv, LoopInv, NEW t \in Thread,
         \/ Continue(t)
         \/ \E kind \in Kind, key \in Key : Call(t, kind, key),
         UNCHANGED alive
  PROVE  TypeOK' /\ CallInv' /\ LoopInv'
<1> USE MemoryAssumption
<1>1. ASSUME NEW kind \in Kind, NEW key \in Key, Call(t, kind, key)
      PROVE  TypeOK' /\ CallInv' /\ LoopInv'
  <2>1. calls' \in 0..MaxCalls
    BY <1>1 DEF Call, TypeOK
  <2>2. TypeOK'
    BY <1>1, <2>1 DEF Call, TypeOK
  <2>3. CallInv'
    BY <1>1 DEF Call, TypeOK, CallInv, OpRecord
  <2>4. LoopInv'
    BY <1>1 DEF Call, LoopInv
  <2> QED
    BY <2>2, <2>3, <2>4
<1>2. CASE Write(t)
  <2>1. stored' \in SUBSET Key
    BY <1>2 DEF Write, TypeOK, CallInv, OpRecord
  <2>2. stale' \in SUBSET Watcher /\ todo' \in [Thread -> SUBSET Watcher]
    BY <1>2 DEF Write, TypeOK, Audience
  <2>3. TypeOK'
    BY <1>2, <2>1, <2>2 DEF Write, TypeOK
  <2>4. CallInv' /\ LoopInv'
    BY <1>2 DEF Write, TypeOK, CallInv, LoopInv
  <2> QED
    BY <2>3, <2>4
<1>3. CASE Send(t)
  <2> DEFINE w == at[t]  kind == op[t].kind  key == op[t].key
  <2>1. w \in Watcher /\ kind \in Kind /\ key \in Key
    BY <1>3 DEF Send, CallInv, OpRecord
  <2>2. chan' = [chan EXCEPT ![w] = [chan[w] EXCEPT ![kind] = key]]
    BY <1>3 DEF Send
  <2>3. [chan[w] EXCEPT ![kind] = key] \in [Kind -> Key \cup {None}]
    <3> HIDE DEF w, kind, key
    <3> QED BY <2>1 DEF TypeOK
  <2>4. chan' \in [Watcher -> [Kind -> Key \cup {None}]]
    <3> HIDE DEF w, kind, key
    <3> QED BY <2>1, <2>2, <2>3 DEF TypeOK
  <2>5. TypeOK'
    BY <1>3, <2>4 DEF Send, TypeOK
  <2>6. CallInv' /\ LoopInv'
    BY <1>3 DEF Send, TypeOK, CallInv, LoopInv
  <2> QED
    BY <2>5, <2>6
<1>4. CASE Done(t)
  <2>1. TypeOK'
    BY <1>4 DEF Done, TypeOK
  <2>2. CallInv' /\ LoopInv'
    BY <1>4 DEF Done, TypeOK, CallInv, LoopInv
  <2> QED
    BY <2>1, <2>2
<1>5. ASSUME NEW w \in Watcher, Visit(t, w)
      PROVE  TypeOK' /\ CallInv' /\ LoopInv'
  <2>1. TypeOK'
    BY <1>5 DEF Visit, TypeOK
  <2>2. CallInv' /\ LoopInv'
    BY <1>5 DEF Visit, TypeOK, CallInv, LoopInv
  <2> QED
    BY <2>1, <2>2
<1> QED
  BY <1>1, <1>2, <1>3, <1>4, <1>5 DEF Continue

LEMMA WatcherTypes ==
  ASSUME TypeOK, CallInv, LoopInv, NEW w \in Watcher,
         Watch(w) \/ Loop(w) \/ Signalled(w) \/ Goroutine(w),
         UNCHANGED alive
  PROVE  TypeOK' /\ CallInv' /\ LoopInv'
<1>1. CASE Watch(w)
  <2>1. todo' \in [Thread -> SUBSET Watcher]
    BY <1>1 DEF Watch, TypeOK
  <2>2. TypeOK' /\ CallInv'
    BY <1>1, <2>1 DEF Watch, TypeOK, CallInv
  <2> QED
    BY <1>1, <2>2 DEF Watch, TypeOK, LoopInv
<1>2. CASE Read(w)
  BY <1>2 DEF Read, TypeOK, CallInv, LoopInv
<1>3. CASE Triggered(w)
  BY <1>3 DEF Triggered, TypeOK, CallInv, LoopInv
<1>4. CASE Signalled(w)
  BY <1>4 DEF Signalled, TypeOK, CallInv, LoopInv
<1>5. CASE Trigger(w)
  BY <1>5 DEF Trigger, TypeOK, CallInv, LoopInv
<1>6. CASE Quit(w)
  <2>1. todo' \in [Thread -> SUBSET Watcher]
    BY <1>6 DEF Quit, TypeOK
  <2>2. TypeOK' /\ CallInv'
    BY <1>6, <2>1 DEF Quit, TypeOK, CallInv
  <2> QED
    BY <1>6, <2>2 DEF Quit, TypeOK, LoopInv
<1>7. ASSUME NEW kind \in Kind, Receive(w, kind)
      PROVE  TypeOK' /\ CallInv' /\ LoopInv'
  <2>1. chan' \in [Watcher -> [Kind -> Key \cup {None}]]
    BY <1>7 DEF Receive, TypeOK
  <2>2. TypeOK' /\ CallInv'
    BY <1>7, <2>1 DEF Receive, TypeOK, CallInv
  <2> QED
    BY <1>7, <2>2 DEF Receive, TypeOK, LoopInv
<1> QED
  BY <1>1, <1>2, <1>3, <1>4, <1>5, <1>6, <1>7 DEF Loop, Goroutine

-----------------------------------------------------------------------------
(* What is on its way to a watcher arrives.                                  *)

\* Nothing that is on its way to w is lost, and w does not become stale.
Carries(w) ==
  /\ handler'[w] = "select" /\ w \in stale' => handler[w] = "select" /\ w \in stale
  /\ OnItsWay(w) => OnItsWay(w)'

LEMMA CarriersMissNothing ==
  ASSUME NoChangeIsMissed, \A w \in Watcher : Carries(w)
  PROVE  NoChangeIsMissed'
  BY DEF NoChangeIsMissed, Carries

LEMMA CallsMissNothing ==
  ASSUME TypeOK, CallInv, LoopInv, NoChangeIsMissed, NEW t \in Thread,
         \/ Continue(t)
         \/ \E kind \in Kind, key \in Key : Call(t, kind, key)
  PROVE  NoChangeIsMissed'
<1>1. ASSUME NEW kind \in Kind, NEW key \in Key, Call(t, kind, key)
      PROVE  NoChangeIsMissed'
  <2>1. ASSUME NEW w \in Watcher PROVE Carries(w)
    <3>1. \A u \in Thread : InCall(u, w) => InCall(u, w)'
      BY <1>1 DEF Call, InCall, TypeOK
    <3> QED
      BY <1>1, <3>1 DEF Call, Carries, OnItsWay, InChannel
  <2> QED
    BY <2>1, CarriersMissNothing
<1>2. CASE Write(t)
  <2> SUFFICES ASSUME NEW w \in Watcher, handler'[w] = "select", w \in stale'
               PROVE  OnItsWay(w)'
    BY DEF NoChangeIsMissed
  <2>1. CASE op[t].key \in Watched[w]
    <3>1. op[t].kind \in KindsWatched(w)
      BY <1>2, <2>1, WatchedIsHeard DEF Write, CallInv
    <3>2. w \in Audience(op[t].kind)
      BY <1>2, <3>1 DEF Write, Audience, LoopInv
    <3>3. InCall(t, w)'
      BY <1>2, <2>1, <3>2 DEF Write, InCall, TypeOK
    <3> QED
      BY <3>3 DEF OnItsWay
  <2>2. CASE op[t].key \notin Watched[w]
    <3>1. OnItsWay(w)
      BY <1>2, <2>2 DEF Write, NoChangeIsMissed
    <3>2. \A u \in Thread : InCall(u, w) => InCall(u, w)'
      BY <1>2, <2>2 DEF Write, InCall, TypeOK
    <3> QED
      BY <1>2, <3>1, <3>2 DEF Write, OnItsWay, InChannel
  <2> QED
    BY <2>1, <2>2
<1>3. CASE Send(t)
  <2>1. ASSUME NEW w \in Watcher PROVE Carries(w)
    <3>1. at[t] \in Watcher /\ op[t].kind \in Kind /\ op[t].key \in Key
      BY <1>3 DEF Send, CallInv, OpRecord
    <3>2. \A u \in Thread : u # t /\ InCall(u, w) => InCall(u, w)'
      BY <1>3 DEF Send, InCall, TypeOK
    <3>3. ASSUME InCall(t, w)
          PROVE  InCall(t, w)' \/ InChannel(op[t].kind, w)'
      BY <1>3, <3>1, <3>3 DEF Send, InCall, InChannel, TypeOK
    <3>4. \A kind \in Kind : InChannel(kind, w) => InChannel(kind, w)'
      <4>1. None \notin Watched[w]
        BY MemoryAssumption DEF Key
      <4> QED
        BY <1>3, <3>1, <4>1 DEF Send, InChannel, TypeOK
    <3> QED
      BY <1>3, <3>1, <3>2, <3>3, <3>4 DEF Send, Carries, OnItsWay
  <2> QED
    BY <2>1, CarriersMissNothing
<1>4. CASE Done(t)
  <2>1. ASSUME NEW w \in Watcher PROVE Carries(w)
    <3>1. \A u \in Thread : InCall(u, w) => InCall(u, w)'
      BY <1>4 DEF Done, InCall, TypeOK
    <3> QED
      BY <1>4, <3>1 DEF Done, Carries, OnItsWay, InChannel
  <2> QED
    BY <2>1, CarriersMissNothing
<1>5. ASSUME NEW v \in Watcher, Visit(t, v)
      PROVE  NoChangeIsMissed'
  <2>1. ASSUME NEW w \in Watcher PROVE Carries(w)
    <3>1. \A u \in Thread : u # t /\ InCall(u, w) => InCall(u, w)'
      BY <1>5 DEF Visit, InCall, TypeOK
    <3>2. InCall(t, w) => InCall(t, w)'
      BY <1>5 DEF Visit, InCall, TypeOK
    <3> QED
      BY <1>5, <3>1, <3>2 DEF Visit, Carries, OnItsWay, InChannel
  <2> QED
    BY <2>1, CarriersMissNothing
<1> QED
  BY <1>1, <1>2, <1>3, <1>4, <1>5 DEF Continue

LEMMA WatchersMissNothing ==
  ASSUME TypeOK, CallInv, LoopInv, NoChangeIsMissed, NEW v \in Watcher,
         Watch(v) \/ Loop(v) \/ Signalled(v) \/ Goroutine(v)
  PROVE  NoChangeIsMissed'
<1>1. CASE Watch(v)
  <2>1. \A w \in Watcher, u \in Thread : InCall(u, w) => InCall(u, w)'
    BY <1>1 DEF Watch, InCall, TypeOK
  <2>2. \A w \in Watcher : w # v /\ OnItsWay(w) => OnItsWay(w)'
    BY <1>1, <2>1 DEF Watch, OnItsWay, InChannel, TypeOK
  <2> QED
    BY <1>1, <2>2 DEF Watch, NoChangeIsMissed, TypeOK
<1>2. CASE Read(v)
  <2>1. \A w \in Watcher : OnItsWay(w) => OnItsWay(w)'
    BY <1>2 DEF Read, OnItsWay, InChannel, InCall
  <2> QED
    BY <1>2, <2>1 DEF Read, NoChangeIsMissed, TypeOK
<1>3. CASE Triggered(v)
  <2>1. \A w \in Watcher : w # v /\ OnItsWay(w) => OnItsWay(w)'
    BY <1>3 DEF Triggered, OnItsWay, InChannel, InCall
  <2> QED
    BY <1>3, <2>1 DEF Triggered, NoChangeIsMissed, TypeOK
<1>4. CASE Signalled(v)
  <2>1. \A w \in Watcher : OnItsWay(w) => OnItsWay(w)'
    BY <1>4 DEF Signalled, OnItsWay, InChannel, InCall
  <2> QED
    BY <1>4, <2>1 DEF Signalled, NoChangeIsMissed, TypeOK
<1>5. CASE Trigger(v)
  <2>1. \A w \in Watcher : OnItsWay(w) => OnItsWay(w)'
    BY <1>5 DEF Trigger, OnItsWay, InChannel, InCall, TypeOK
  <2> QED
    BY <1>5, <2>1 DEF Trigger, NoChangeIsMissed
<1>6. CASE Quit(v)
  <2>1. handler[v] = "ended"
    BY <1>6 DEF Quit, LoopInv
  <2>2. ASSUME NEW w \in Watcher, w # v
        PROVE  \A u \in Thread : InCall(u, w) => InCall(u, w)'
    BY <1>6, <2>2 DEF Quit, InCall, TypeOK
  <2>3. \A w \in Watcher : w # v /\ OnItsWay(w) => OnItsWay(w)'
    BY <1>6, <2>2 DEF Quit, OnItsWay, InChannel, TypeOK
  <2> QED
    BY <1>6, <2>1, <2>3 DEF Quit, NoChangeIsMissed, TypeOK
<1>7. ASSUME NEW kind \in Kind, Receive(v, kind)
      PROVE  NoChangeIsMissed'
  <2>1. \A w \in Watcher, k \in Kind :
          InChannel(k, w) => InChannel(k, w)' \/ loop'[w] = "callback"
    BY <1>7 DEF Receive, InChannel, TypeOK
  <2>2. \A w \in Watcher : loop[w] = "callback" => loop'[w] = "callback"
    BY <1>7 DEF Receive, TypeOK
  <2>3. \A w \in Watcher, u \in Thread : InCall(u, w) => InCall(u, w)'
    BY <1>7 DEF Receive, InCall
  <2>4. ASSUME NEW w \in Watcher PROVE Carries(w)
    BY <1>7, <2>1, <2>2, <2>3 DEF Receive, Carries, OnItsWay
  <2> QED
    BY <2>4, CarriersMissNothing
<1> QED
  BY <1>1, <1>2, <1>3, <1>4, <1>5, <1>6, <1>7 DEF Loop, Goroutine

\* After the end of the process there is nothing to miss.
LEMMA FatalMemory == ASSUME Fatal PROVE MemoryInv'
<1> USE MemoryAssumption DEF Fatal, NoCall, IdleThreads, NoTargets, EmptyChannels, NoGoroutines, NewLoops
<1>1. TypeOK'
  <2>1. 0 \in 0..MaxCalls
    OBVIOUS
  <2> QED
    BY <2>1 DEF TypeOK
<1>2. CallInv' /\ LoopInv' /\ NoChangeIsMissed'
  BY DEF CallInv, LoopInv, NoChangeIsMissed
<1> QED
  BY <1>1, <1>2 DEF MemoryInv

LEMMA MemoryIsInductive == MemoryInv /\ [Next]_vars => MemoryInv'
<1> SUFFICES ASSUME MemoryInv, [Next]_vars PROVE MemoryInv'
  OBVIOUS
<1> USE DEF MemoryInv, Running
<1>1. ASSUME NEW t \in Thread,
             \/ Running(Continue(t))
             \/ \E kind \in Kind, key \in Key : Running(Call(t, kind, key))
      PROVE  MemoryInv'
  BY <1>1, ThreadTypes, CallsMissNothing
<1>2. ASSUME NEW w \in Watcher,
             Running(Watch(w) \/ Loop(w) \/ Signalled(w) \/ Goroutine(w))
      PROVE  MemoryInv'
  BY <1>2, WatcherTypes, WatchersMissNothing
<1>3. CASE alive /\ Fatal
  BY <1>3, FatalMemory
<1>4. CASE UNCHANGED vars
  <2>1. TypeOK' /\ CallInv' /\ LoopInv'
    BY <1>4 DEF vars, TypeOK, CallInv, LoopInv
  <2>2. NoChangeIsMissed'
    BY <1>4 DEF vars, NoChangeIsMissed, OnItsWay, InChannel, InCall
  <2> QED
    BY <2>1, <2>2
<1> QED
  BY <1>1, <1>2, <1>3, <1>4 DEF Next

-----------------------------------------------------------------------------
(* The theorem.                                                              *)

\* MemoryInv holds in every reachable state.
LEMMA MemoryInvHolds == Spec => []MemoryInv
  BY InitMemory, MemoryIsInductive, PTL DEF Spec

\* Every variable keeps its type; in particular a channel holds one key at most and what a
\* call ranges over are watchers (debug.go:92-205).
THEOREM TypeCorrect == Spec => []TypeOK
<1>1. MemoryInv => TypeOK
  BY DEF MemoryInv
<1> QED
  BY <1>1, MemoryInvHolds, PTL

\* A push loop that waits has been told, or will be, of every change since it read the
\* maps, whoever else watches and whatever is in the channels (debug.go:152-205).
THEOREM NothingIsMissed == Spec => []NoChangeIsMissed
<1>1. MemoryInv => NoChangeIsMissed
  BY DEF MemoryInv
<1> QED
  BY <1>1, MemoryInvHolds, PTL
=============================================================================
