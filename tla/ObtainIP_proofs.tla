--------------------------- MODULE ObtainIP_proofs ---------------------------
(***************************************************************************)
(* A request never misses its answer, for every number of addresses and    *)
(* every number of leases that the controller stores.                      *)
(***************************************************************************)
EXTENDS ObtainIP, SequenceTheorems, TLAPS

-----------------------------------------------------------------------------
(* The invariant.  Waiting for an answer is safe as soon as the controller   *)
(* may store a lease over a record that is gone, since that is a creation,   *)
(* which nobody reports: by then an earlier lease must be on its way.        *)

Offers(s) == \E i \in 1..Len(s) : Sends(s[i])

BeginInv ==
  /\ handler \in {"start", "ready"} => record = Absent /\ controller = "idle"
  /\ handler = "start" => watcher = "off"
  /\ handler \in {"ready", "select"} => watcher # "off"

BatchInv ==
  /\ watcher \in {"off", "select"} => batch = << >>
  /\ watcher = "handle" => batch # << >>

OfferInv ==
  handler = "select" /\ (record \in IP \/ (record = Absent /\ controller # "idle"))
    => Offers(batch) \/ Offers(queue)

RequestInv == TypeOK /\ BeginInv /\ BatchInv /\ OfferInv

-----------------------------------------------------------------------------
(* What the operations on sequences do to the offers. *)

LEMMA AppendOffers ==
  ASSUME NEW s \in Seq(Event), NEW e \in Event
  PROVE  /\ Append(s, e) \in Seq(Event)
         /\ Offers(s) \/ Sends(e) => Offers(Append(s, e))
<1>1. /\ Append(s, e) \in Seq(Event) /\ Len(Append(s, e)) = Len(s) + 1
      /\ Len(s) \in Nat
      /\ \A i \in 1..Len(s) : Append(s, e)[i] = s[i]
      /\ Append(s, e)[Len(s) + 1] = e
  OBVIOUS
<1>2. ASSUME NEW i \in 1..Len(s), Sends(s[i]) PROVE Offers(Append(s, e))
  <2>1. i \in 1..Len(Append(s, e)) /\ Sends(Append(s, e)[i])
    BY <1>1, <1>2
  <2> QED
    BY <2>1 DEF Offers
<1>3. ASSUME Sends(e) PROVE Offers(Append(s, e))
  <2>1. Len(s) + 1 \in 1..Len(Append(s, e)) /\ Sends(Append(s, e)[Len(s) + 1])
    BY <1>1, <1>3
  <2> QED
    BY <2>1 DEF Offers
<1> QED
  BY <1>1, <1>2, <1>3 DEF Offers

LEMMA TailOffers ==
  ASSUME NEW s \in Seq(Event), s # << >>
  PROVE  /\ Head(s) \in Event /\ Tail(s) \in Seq(Event)
         /\ Len(s) = 1 <=> Tail(s) = << >>
         /\ Offers(s) /\ ~Sends(Head(s)) => Offers(Tail(s))
<1>1. /\ Head(s) \in Event /\ Tail(s) \in Seq(Event) /\ Head(s) = s[1]
      /\ Len(Tail(s)) = Len(s) - 1 /\ Len(s) \in Nat /\ Len(s) # 0
      /\ \A i \in 1..Len(Tail(s)) : Tail(s)[i] = s[i + 1]
  OBVIOUS
<1>2. Len(s) = 1 <=> Tail(s) = << >>
  <2>1. Tail(s) = << >> <=> Len(Tail(s)) = 0
    BY <1>1, EmptySeq
  <2> QED
    BY <1>1, <2>1
<1>3. ASSUME NEW i \in 1..Len(s), Sends(s[i]), ~Sends(Head(s)) PROVE Offers(Tail(s))
  <2>1. i # 1
    BY <1>1, <1>3
  <2>2. i - 1 \in 1..Len(Tail(s)) /\ Tail(s)[i - 1] = s[i]
    BY <1>1, <2>1
  <2> QED
    BY <1>3, <2>2 DEF Offers
<1> QED
  BY <1>1, <1>2, <1>3 DEF Offers

LEMMA SplitOffers ==
  ASSUME NEW s \in Seq(Event), NEW n \in 1..Len(s)
  PROVE  /\ SubSeq(s, 1, n) \in Seq(Event) /\ SubSeq(s, 1, n) # << >>
         /\ SubSeq(s, n + 1, Len(s)) \in Seq(Event)
         /\ Offers(s) => Offers(SubSeq(s, 1, n)) \/ Offers(SubSeq(s, n + 1, Len(s)))
<1> DEFINE a == SubSeq(s, 1, n)
           b == SubSeq(s, n + 1, Len(s))
<1>1. Len(s) \in Nat /\ n \in Nat /\ n >= 1 /\ n <= Len(s)
  OBVIOUS
<1>2. a \in Seq(Event) /\ Len(a) = n /\ \A i \in 1..n : a[i] = s[i]
  BY <1>1, SubSeqProperties
<1>3. b \in Seq(Event) /\ Len(b) = Len(s) - n /\ \A i \in 1..(Len(s) - n) : b[i] = s[n + i]
  BY <1>1, SubSeqProperties
<1>4. a # << >>
  BY <1>1, <1>2
<1>5. ASSUME NEW i \in 1..Len(s), Sends(s[i]) PROVE Offers(a) \/ Offers(b)
  <2>1. CASE i <= n
    BY <1>1, <1>2, <1>5, <2>1 DEF Offers
  <2>2. CASE i > n
    <3>1. i - n \in 1..(Len(s) - n) /\ b[i - n] = s[i]
      BY <1>1, <1>3, <2>2
    <3> QED
      BY <1>3, <1>5, <3>1 DEF Offers
  <2> QED
    BY <1>1, <2>1, <2>2
<1> QED
  BY <1>2, <1>3, <1>4, <1>5 DEF Offers

\* What a request to the store does to the queue.
LEMMA NotifyOffers ==
  ASSUME NEW kind \in {"create", "modify", "delete"}, NEW lease \in IP \cup {NoIP},
         queue \in Seq(Event), Notify(kind, lease)
  PROVE  /\ queue' \in Seq(Event)
         /\ Offers(queue) => Offers(queue')
         /\ watcher # "off" /\ kind = "modify" /\ lease # NoIP => Offers(queue')
<1> DEFINE e == [kind |-> kind, lease |-> lease]
<1>1. e \in Event
  BY DEF Event
<1>2. kind = "modify" /\ lease # NoIP => Sends(e)
  BY DEF Sends
<1> QED
  BY <1>1, <1>2, AppendOffers DEF Notify

LEMMA RemoveOffers ==
  ASSUME TypeOK, RemoveRecord
  PROVE  queue' \in Seq(Event) /\ (Offers(queue) => Offers(queue')) /\ record' = Absent
<1>1. CASE record = Absent
  BY <1>1 DEF RemoveRecord, TypeOK
<1>2. CASE record # Absent
  BY <1>2, NotifyOffers DEF RemoveRecord, TypeOK
<1> QED
  BY <1>1, <1>2

-----------------------------------------------------------------------------
(* The invariant is inductive. *)

LEMMA RequestInvIsInductive == RequestInv /\ [Next]_vars => RequestInv'
<1> SUFFICES ASSUME RequestInv, [Next]_vars PROVE RequestInv'
  OBVIOUS
<1> USE RequestAssumption DEF RequestInv
<1>1. ASSUME NEW from, NEW to, StartWatch(from, to), from = "start", to = "ready"
      PROVE  RequestInv'
  <2>1. /\ handler = "start" /\ handler' = "ready" /\ watcher' = "select"
        /\ UNCHANGED <<answer, batch, queue, record, controller, writes>>
    BY <1>1 DEF StartWatch, store
  <2> QED
    BY <2>1 DEF TypeOK, BeginInv, BatchInv, OfferInv
<1>2. ASSUME NEW from, NEW to, Put(from, to), from = "ready", to = "select"
      PROVE  RequestInv'
  <2>1. /\ handler = "ready" /\ handler' = "select"
        /\ UNCHANGED <<answer, watcher, batch, writes>>
    BY <1>2 DEF Put
  <2>2. CASE PutRecord(NoIP) /\ controller' = "bind"
    <3>1. record' = NoIP /\ queue' \in Seq(Event)
      BY <2>2, NotifyOffers DEF PutRecord, TypeOK
    <3> QED
      BY <2>1, <2>2, <3>1 DEF TypeOK, BeginInv, BatchInv, OfferInv
  <2>3. CASE UNCHANGED <<store, controller>>
    BY <2>1, <2>3 DEF store, TypeOK, BeginInv, BatchInv, OfferInv
  <2> QED
    BY <1>2, <2>2, <2>3 DEF Put
<1>3. CASE Receive
  <2>1. batch # << >>
    BY <1>3 DEF Receive, Sending, BatchInv
  <2>2. /\ Head(batch) \in Event /\ Tail(batch) \in Seq(Event)
        /\ Len(batch) = 1 <=> Tail(batch) = << >>
    BY <2>1, TailOffers DEF TypeOK
  <2> QED
    BY <1>3, <2>2
    DEF Receive, AfterThis, store, Event, TypeOK, BeginInv, BatchInv, OfferInv
<1>4. CASE Timeout
  BY <1>4 DEF Timeout, store, TypeOK, BeginInv, BatchInv, OfferInv
<1>5. CASE Remove
  <2>1. queue' \in Seq(Event) /\ record' \in IP \cup {NoIP, Absent}
    BY <1>5, RemoveOffers DEF Remove, store, TypeOK
  <2> QED
    BY <1>5, <2>1 DEF Remove, TypeOK, BeginInv, BatchInv, OfferInv
<1>6. CASE StopWatch
  BY <1>6 DEF StopWatch, store, TypeOK, BeginInv, BatchInv, OfferInv
<1>7. CASE TakeBatch
  <2>1. /\ batch' \in Seq(Event) /\ batch' # << >> /\ queue' \in Seq(Event)
        /\ Offers(queue) => Offers(batch') \/ Offers(queue')
    BY <1>7, SplitOffers DEF TakeBatch, TypeOK
  <2>2. ~Offers(batch)
    BY <1>7 DEF TakeBatch, BatchInv, Offers
  <2> QED
    BY <1>7, <2>1, <2>2 DEF TakeBatch, TypeOK, BeginInv, BatchInv, OfferInv
<1>8. CASE Ignore
  <2>1. batch # << >>
    BY <1>8 DEF Ignore, BatchInv
  <2>2. /\ Tail(batch) \in Seq(Event)
        /\ Len(batch) = 1 <=> Tail(batch) = << >>
        /\ Offers(batch) => Offers(batch')
    BY <1>8, <2>1, TailOffers DEF Ignore, TypeOK
  <2> QED
    BY <1>8, <2>2
    DEF Ignore, AfterThis, store, TypeOK, BeginInv, BatchInv, OfferInv
<1>9. ASSUME NEW ip \in IP, WriteLease(ip) PROVE RequestInv'
  <2>1. /\ controller # "idle" /\ record' = ip /\ controller' = "serve"
        /\ writes' \in 0..MaxWrites
        /\ UNCHANGED <<handler, answer, watcher, batch>>
    BY <1>9 DEF WriteLease, PutRecord, channels, TypeOK
  <2>2. /\ queue' \in Seq(Event) /\ (Offers(queue) => Offers(queue'))
        /\ watcher # "off" /\ record # Absent => Offers(queue')
    BY <1>9, NotifyOffers DEF WriteLease, PutRecord, TypeOK
  <2>3. handler = "select" => Offers(batch') \/ Offers(queue')
    BY <2>1, <2>2 DEF BeginInv, OfferInv
  <2> QED
    BY <2>1, <2>2, <2>3 DEF TypeOK, BeginInv, BatchInv, OfferInv
<1>10. CASE GiveUp
  <2>1. /\ queue' \in Seq(Event) /\ (Offers(queue) => Offers(queue'))
        /\ record' \in {record, Absent}
    BY <1>10, RemoveOffers DEF GiveUp, store, TypeOK
  <2> QED
    BY <1>10, <2>1 DEF GiveUp, channels, TypeOK, BeginInv, BatchInv, OfferInv
<1>11. CASE Release
  <2>1. queue' \in Seq(Event) /\ (Offers(queue) => Offers(queue')) /\ record' = Absent
    BY <1>11, RemoveOffers DEF Release
  <2> QED
    BY <1>11, <2>1 DEF Release, channels, TypeOK, BeginInv, BatchInv, OfferInv
<1>12. CASE OnDelete
  BY <1>12 DEF OnDelete, channels, store, TypeOK, BeginInv, BatchInv, OfferInv
<1>13. CASE UNCHANGED vars
  BY <1>13 DEF vars, channels, store, TypeOK, BeginInv, BatchInv, OfferInv, Offers, Sends
<1> QED
  BY <1>1, <1>2, <1>3, <1>4, <1>5, <1>6, <1>7, <1>8, <1>9, <1>10, <1>11, <1>12, <1>13
  DEF Next, Handler, Begin, Watcher, Environment

\* RequestInv holds in every reachable state.
LEMMA RequestInvHolds == Spec => []RequestInv
<1>1. Init => RequestInv
  BY RequestAssumption
  DEF Init, RequestInv, TypeOK, BeginInv, BatchInv, OfferInv
<1>2. RequestInv /\ [Next]_vars => RequestInv'
  BY RequestInvIsInductive
<1> QED
  BY <1>1, <1>2, PTL DEF Spec

\* Every variable keeps its type; in particular the answer is an address, an empty lease
\* or none, whoever wrote the record last (handler.go:25-77).
THEOREM TypeCorrect == Spec => []TypeOK
<1>1. RequestInv => TypeOK
  BY DEF RequestInv
<1> QED
  BY <1>1, RequestInvHolds, PTL

\* A lease that is stored while the handler waits will be offered to it: the order of
\* WatchAllocation and Put makes up for the events that the watcher ignores, whatever the
\* controller and etcd do to the record meanwhile (handler.go:25-45).
THEOREM AnswerIsNotMissed == Spec => []NoMissedAnswer
<1>1. RequestInv => NoMissedAnswer
  <2> SUFFICES ASSUME RequestInv, handler = "select", record \in IP
               PROVE  \/ \E i \in DOMAIN batch : Sends(batch[i])
                      \/ \E i \in DOMAIN queue : Sends(queue[i])
    BY DEF RequestInv, NoMissedAnswer
  <2>1. Offers(batch) \/ Offers(queue)
    BY DEF RequestInv, OfferInv
  <2>2. DOMAIN batch = 1..Len(batch) /\ DOMAIN queue = 1..Len(queue)
    BY DEF RequestInv, TypeOK
  <2> QED
    BY <2>1, <2>2 DEF Offers
<1> QED
  BY <1>1, RequestInvHolds, PTL
=============================================================================
