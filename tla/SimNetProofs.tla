---------------------------- MODULE SimNetProofs ----------------------------
(***************************************************************************)
(* Theorems about SimNet for any nodes and any delays: no event is late,    *)
(* events run in the order of (due tick, insertion), and with the arguments *)
(* that the groups give, SimNet is the queue of Fifo.                       *)
(***************************************************************************)
EXTENDS SimNet, FiniteSetTheorems, SequenceTheorems, WellFoundedInduction, TLAPS

----------------------------------------------------------------------------
(* The invariant *)

Msg == [id : Nat, src : Node, dst : Node]
Event == [due : Nat, order : Nat, sent : Nat, msg : Msg]

\* The constructor's arguments.
ParametersInv ==
  /\ minDelay \in Nat /\ maxDelay \in Nat /\ minDelay <= maxDelay
  /\ drops \in Outcomes /\ reorders \in Outcomes

\* The heap holds finitely many events, none from the future, and insertion
\* orders follow the clock.
HeapInv ==
  /\ heap \in SUBSET Event /\ IsFiniteSet(heap)
  /\ \A e \in heap : e.sent <= now
  /\ \A e, f \in heap : e.order < f.order => e.sent <= f.sent

\* The event run last comes before all that wait, and before all to come.
LastInv ==
  /\ last \in [due : Nat, order : Int] /\ last.due <= now /\ last.order < nextOrder
  /\ \A e \in heap : Before(last, e)

HandledInv == handled \in Seq(Msg)

\* Each place of the queue is some event's.
PlacesInv == Regular => \A k \in 1..Cardinality(heap) : \E e \in heap : Place(e) = k

SimInv ==
  /\ ParametersInv /\ TypeOK /\ HeapInv /\ LastInv /\ HandledInv /\ OnTime /\ PlacesInv

\* The most that reordering adds to a delay.
MostJitter == IF TRUE \in reorders THEN Larger(1, maxDelay) ELSE 0

\* Every delay is a number of ticks.
LEMMA DelayProperties ==
  ASSUME SimInv
  PROVE  /\ minDelay \in Nat /\ maxDelay \in Nat /\ minDelay <= maxDelay
         /\ MostJitter \in Nat
         /\ \A j \in Jitter : j \in Nat /\ j <= MostJitter
<1>1. minDelay \in Nat /\ maxDelay \in Nat /\ minDelay <= maxDelay
  BY DEF SimInv, ParametersInv
<1>2. Larger(1, maxDelay) \in Nat
  BY <1>1 DEF Larger
<1>3. ASSUME NEW j \in Jitter
      PROVE  j \in Nat /\ j <= MostJitter
  <2>1. CASE TRUE \in reorders
    <3>1. j \in {0} \cup 0..Larger(1, maxDelay) /\ MostJitter = Larger(1, maxDelay)
      BY <1>3, <2>1 DEF Jitter, MostJitter
    <3> QED BY <1>2, <3>1
  <2>2. CASE TRUE \notin reorders
    <3>1. j = 0 /\ MostJitter = 0
      BY <1>3, <2>2 DEF Jitter, MostJitter
    <3> QED BY <3>1
  <2> QED BY <2>1, <2>2
<1> QED BY <1>1, <1>2, <1>3 DEF MostJitter

\* Events are told apart by their orders, and none is due before it was sent.
LEMMA HeapProperties ==
  ASSUME SimInv
  PROVE  /\ now \in Nat /\ nextOrder \in Nat /\ sends \in Nat /\ nextOrder <= sends
         /\ \A e \in heap : /\ e \in Event /\ e.order < nextOrder /\ e.sent <= now
                            /\ e.sent + minDelay <= e.due /\ e.sent <= e.due
         /\ \A e, f \in heap : e.order = f.order => e = f
<1>1. \A e \in heap : e \in Event /\ e.sent <= now
  BY DEF SimInv, HeapInv
<1>2. \A e \in heap : e.order < nextOrder /\ e.due - e.sent >= minDelay
  <2>1. \A e \in heap : e.order \in 0..nextOrder - 1 /\ e.due - e.sent \in minDelay..maxDelay + MostJitter
    BY DEF SimInv, TypeOK, MostJitter
  <2> QED BY <1>1, <2>1, DelayProperties DEF SimInv, TypeOK, Event
<1>3. minDelay \in Nat
  BY DEF SimInv, ParametersInv
<1>4. \A e \in heap : e.sent + minDelay <= e.due /\ e.sent <= e.due
  BY <1>1, <1>2, <1>3 DEF Event
<1> QED BY <1>1, <1>2, <1>4 DEF SimInv, TypeOK

----------------------------------------------------------------------------
(* The scheduler *)

\* Every non-empty set of naturals has a least element.
LEMMA LeastNat ==
  ASSUME NEW S \in SUBSET Nat, S # {}
  PROVE  \E x \in S : \A y \in S : x <= y
<1>1. PICK x \in S : \A y \in S : ~(<<y, x>> \in OpToRel(<, Nat))
  BY NatLessThanWellFounded, WFMin
<1>2. \A y \in S : ~(y < x)
  BY <1>1 DEF OpToRel
<1> QED BY <1>2

\* If anything is due then so is the first event.
LEMMA FirstIsDue ==
  ASSUME SimInv, NEW e \in heap, Due(e)
  PROVE  \E f \in heap : IsFirst(f) /\ Due(f)
<1>1. now \in Nat /\ \A f \in heap : f.due \in Nat /\ f.order \in Nat
  BY HeapProperties DEF Event
<1>2. PICK d \in {f.due : f \in heap} : \A x \in {f.due : f \in heap} : d <= x
  <2>1. {f.due : f \in heap} \in SUBSET Nat /\ {f.due : f \in heap} # {}
    BY <1>1
  <2> QED BY <2>1, LeastNat
<1>3. PICK o \in {f.order : f \in {g \in heap : g.due = d}} :
        \A x \in {f.order : f \in {g \in heap : g.due = d}} : o <= x
  <2>1. {f.order : f \in {g \in heap : g.due = d}} \in SUBSET Nat
    BY <1>1
  <2>2. {f.order : f \in {g \in heap : g.due = d}} # {}
    BY <1>2
  <2> QED BY <2>1, <2>2, LeastNat
<1>4. PICK f \in heap : f.due = d /\ f.order = o
  BY <1>3
<1>5. \A g \in heap : f.due <= g.due /\ (g.due = f.due => f.order <= g.order)
  BY <1>2, <1>3, <1>4
<1>6. IsFirst(f)
  BY <1>1, <1>5 DEF IsFirst, Before
<1>7. Due(f)
  BY <1>1, <1>5 DEF Due
<1> QED BY <1>6, <1>7

\* The first event comes before every other one.
LEMMA FirstIsBefore ==
  ASSUME SimInv, NEW e \in heap, IsFirst(e)
  PROVE  \A f \in heap \ {e} : Before(e, f)
<1>1. \A f \in heap : f.due \in Nat /\ f.order \in Nat /\ (e.order = f.order => e = f)
  BY HeapProperties DEF Event
<1> QED BY <1>1 DEF IsFirst, Before

----------------------------------------------------------------------------
(* The queue of the events in insertion order *)

Queue == [k \in DOMAIN ByInsertion |-> ByInsertion[k].msg]

\* The events up to e in insertion order.
UpTo(e) == {f \in heap : f.order <= e.order}

\* Places are positions, in insertion order, of one event each.
LEMMA PlaceProperties ==
  ASSUME SimInv
  PROVE  /\ Cardinality(heap) \in Nat
         /\ \A e \in heap : Place(e) \in 1..Cardinality(heap)
         /\ \A e, f \in heap : e.order < f.order => Place(e) < Place(f)
         /\ \A e, f \in heap : Place(e) = Place(f) => e = f
<1>1. IsFiniteSet(heap) /\ Cardinality(heap) \in Nat
  BY FS_CardinalityType DEF SimInv, HeapInv
<1>2. \A e, f \in heap : e.order \in Nat /\ (e.order = f.order => e = f)
  BY HeapProperties DEF Event
<1>3. \A e \in heap : /\ UpTo(e) \in SUBSET heap /\ IsFiniteSet(UpTo(e))
                      /\ Place(e) = Cardinality(UpTo(e))
                      /\ Place(e) \in Nat /\ Place(e) <= Cardinality(heap)
  BY <1>1, FS_Subset, FS_CardinalityType DEF UpTo, Place
<1>4. \A e \in heap : e \in UpTo(e)
  BY <1>2 DEF UpTo
<1>5. \A e \in heap : Place(e) >= 1
  BY <1>3, <1>4, FS_EmptySet
<1>6. ASSUME NEW e \in heap, NEW f \in heap, e.order < f.order
      PROVE  Place(e) < Place(f)
  <2>1. UpTo(e) \in SUBSET UpTo(f) /\ f \in UpTo(f) /\ f \notin UpTo(e)
    BY <1>2, <1>6 DEF UpTo
  <2> QED BY <1>3, <2>1, FS_Subset
<1>7. ASSUME NEW e \in heap, NEW f \in heap, Place(e) = Place(f)
      PROVE  e = f
  BY <1>2, <1>3, <1>6, <1>7
<1> QED BY <1>1, <1>3, <1>5, <1>6, <1>7

\* What stands at a place of the queue.
LEMMA QueueAt ==
  ASSUME SimInv
  PROVE  /\ DOMAIN Queue = 1..Cardinality(heap) /\ DOMAIN Queue = DOMAIN ByInsertion
         /\ \A e \in heap : Queue[Place(e)] = e.msg
<1>1. ASSUME NEW e \in heap
      PROVE  ByInsertion[Place(e)] = e
  BY PlaceProperties DEF ByInsertion
<1> QED BY <1>1, PlaceProperties DEF Queue, ByInsertion

\* With the groups' arguments the queue is a sequence of messages.
LEMMA QueueType ==
  ASSUME SimInv, Regular
  PROVE  Queue \in Seq(Msg) /\ Len(Queue) = Cardinality(heap)
<1>1. \A k \in 1..Cardinality(heap) : Queue[k] \in Msg
  BY QueueAt, HeapProperties DEF SimInv, PlacesInv, Event
<1>2. Queue \in [1..Cardinality(heap) -> Msg]
  BY <1>1, QueueAt DEF Queue
<1> QED BY <1>2, PlaceProperties

----------------------------------------------------------------------------
(* Steps.  Each keeps the invariant, and with the groups' arguments it is a *)
(* step of Fifo.                                                            *)

Fifoed == Regular => [F!Next]_(F!vars)

\* The parts of the invariant that do not speak of the queue.
Basics == ParametersInv /\ TypeOK /\ HeapInv /\ LastInv /\ HandledInv /\ OnTime

\* The events of the heap h in insertion order.
Ordered(h) ==
  [k \in 1..Cardinality(h) |-> CHOOSE e \in h : Cardinality({f \in h : f.order <= e.order}) = k]

\* Steps that leave the heap alone leave the queue alone.
LEMMA SameQueue ==
  ASSUME SimInv, UNCHANGED <<parameters, heap>>
  PROVE  PlacesInv' /\ Queue' = Queue
<1>1. heap' = heap /\ UNCHANGED <<minDelay, maxDelay, drops, reorders>>
  BY DEF parameters
<1>2. \A e : Place(e)' = Place(e)
  BY <1>1 DEF Place
<1>3. ByInsertion' = ByInsertion
  <2>1. ByInsertion = Ordered(heap) /\ ByInsertion' = Ordered(heap')
    BY DEF ByInsertion, Place, Ordered
  <2> QED BY <1>1, <2>1
<1>4. PlacesInv'
  BY <1>1, <1>2 DEF SimInv, PlacesInv, Regular
<1>5. Queue' = Queue
  BY <1>3 DEF Queue
<1> QED BY <1>4, <1>5

\* Fifo's actions, in terms of the queue.
LEMMA FifoActions ==
  /\ UNCHANGED <<Queue, cut, handled, sends>> => UNCHANGED F!vars
  /\ /\ cut' \subseteq Node \X Node /\ UNCHANGED <<Queue, handled, sends>>
     => F!Next
  /\ \A s, d \in Node :
       /\ Queue' = IF <<s, d>> \notin cut
                   THEN Append(Queue, [id |-> sends, src |-> s, dst |-> d]) ELSE Queue
       /\ sends' = sends + 1 /\ UNCHANGED <<cut, handled>>
       => F!Next
  /\ /\ Queue # <<>> /\ Queue' = Tail(Queue)
     /\ handled' = IF Whole(Head(Queue)) /\ Head(Queue).dst \in Registered
                   THEN Append(handled, Head(Queue)) ELSE handled
     /\ UNCHANGED <<cut, sends>>
     => F!Next
<1>1. UNCHANGED <<Queue, cut, handled, sends>> => UNCHANGED F!vars
  BY DEF F!vars, Queue
<1>2. /\ cut' \subseteq Node \X Node /\ UNCHANGED <<Queue, handled, sends>>
      => F!Next
  BY DEF F!Next, F!Relink, Queue
<1>3. ASSUME NEW s \in Node, NEW d \in Node,
             Queue' = IF <<s, d>> \notin cut
                      THEN Append(Queue, [id |-> sends, src |-> s, dst |-> d]) ELSE Queue,
             sends' = sends + 1, UNCHANGED <<cut, handled>>
      PROVE  F!Next
  <2>1. F!Send(s, d)
    BY <1>3 DEF F!Send, F!Whole, Queue
  <2> QED BY <2>1 DEF F!Next
<1>4. ASSUME Queue # <<>>, Queue' = Tail(Queue),
             handled' = IF Whole(Head(Queue)) /\ Head(Queue).dst \in Registered
                        THEN Append(handled, Head(Queue)) ELSE handled,
             UNCHANGED <<cut, sends>>
      PROVE  F!Next
  <2>1. F!Deliver
    BY <1>4 DEF F!Deliver, F!Whole, Whole, Queue
  <2> QED BY <2>1 DEF F!Next
<1> QED BY <1>1, <1>2, <1>3, <1>4

\* A call that sends nothing, and the ends of a tick.
LEMMA RelinkStep ==
  ASSUME SimInv, NEW s \in Node, NEW d \in Node, Partition(s, d) \/ Heal(s, d)
  PROVE  SimInv' /\ Fifoed
<1>1. /\ UNCHANGED <<parameters, now, heap, nextOrder, sends, at, handled, last>>
      /\ cut' \subseteq Node \X Node
  BY DEF SimInv, TypeOK, Partition, Heal
<1>2. Basics'
  BY <1>1 DEF SimInv, Basics, ParametersInv, TypeOK, HeapInv, LastInv, HandledInv, OnTime,
              parameters, Before, Event
<1>3. PlacesInv' /\ Queue' = Queue
  BY <1>1, SameQueue
<1>4. F!Next
  BY <1>1, <1>3, FifoActions
<1> QED BY <1>2, <1>3, <1>4 DEF Basics, SimInv, Fifoed

\* A tick begins: the clock advances.
LEMMA BeginStep ==
  ASSUME SimInv, BeginTick
  PROVE  SimInv' /\ Fifoed
<1>1. /\ UNCHANGED <<parameters, heap, nextOrder, cut, sends, handled, last>>
      /\ now' = now + 1 /\ at' = "loop"
  BY DEF BeginTick
<1>2. Basics'
  <2>1. now \in Nat /\ last.due \in Nat /\ \A e \in heap : e.sent \in Nat
    BY HeapProperties DEF Event, SimInv, LastInv
  <2>2. /\ UNCHANGED <<minDelay, maxDelay, drops, reorders>>
        /\ now' \in Nat /\ at' \in {"idle", "loop", "handler"} /\ at' # "idle"
    BY <1>1, <2>1 DEF parameters
  <2>5. TypeOK'
    BY <1>1, <2>2, Zenon DEF SimInv, TypeOK
  <2>6. ParametersInv' /\ HandledInv' /\ OnTime'
    BY <1>1, <2>2 DEF SimInv, ParametersInv, HandledInv, OnTime
  <2>3. HeapInv'
    BY <1>1, <2>1 DEF SimInv, HeapInv
  <2>4. LastInv'
    BY <1>1, <2>1 DEF SimInv, LastInv, Before
  <2> QED BY <2>3, <2>4, <2>5, <2>6 DEF Basics
<1>3. PlacesInv' /\ Queue' = Queue
  BY <1>1, SameQueue
<1>4. UNCHANGED F!vars
  BY <1>1, <1>3, FifoActions
<1> QED BY <1>2, <1>3, <1>4 DEF Basics, SimInv, Fifoed

\* A tick ends: nothing is due any more, because the first event is not.
LEMMA EndStep ==
  ASSUME SimInv, EndTick
  PROVE  SimInv' /\ Fifoed
<1>1. /\ UNCHANGED <<parameters, now, heap, nextOrder, cut, sends, handled, last>>
      /\ at' = "idle"
  BY DEF EndTick
<1>2. \A e \in heap : ~Due(e)
  BY FirstIsDue DEF EndTick
<1>3. OnTime'
  <2>1. now \in Nat /\ \A e \in heap : e.due \in Nat
    BY HeapProperties DEF Event
  <2> QED BY <1>1, <1>2, <2>1 DEF OnTime, Due
<1>4. Basics'
  BY <1>1, <1>3 DEF SimInv, Basics, ParametersInv, TypeOK, HeapInv, LastInv, HandledInv,
                    parameters, Before, Event
<1>5. PlacesInv' /\ Queue' = Queue
  BY <1>1, SameQueue
<1>6. UNCHANGED F!vars
  BY <1>1, <1>5, FifoActions
<1> QED BY <1>4, <1>5, <1>6 DEF Basics, SimInv, Fifoed

\* A new event comes last in the queue.
LEMMA PlacesAfterSend ==
  ASSUME SimInv, NEW n \in Event, n.order = nextOrder, heap' = heap \cup {n},
         UNCHANGED parameters
  PROVE  /\ Cardinality(heap') = Cardinality(heap) + 1
         /\ \A e \in heap : Place(e)' = Place(e)
         /\ Place(n)' = Cardinality(heap) + 1
         /\ PlacesInv'
<1>1. IsFiniteSet(heap) /\ Cardinality(heap) \in Nat /\ n \notin heap
  BY HeapProperties, PlaceProperties DEF SimInv, HeapInv
<1>2. Cardinality(heap') = Cardinality(heap) + 1
  BY <1>1, FS_AddElement
<1>3. \A e \in heap : e.order \in Nat /\ e.order < n.order
  BY HeapProperties DEF Event
<1>4. n.order \in Nat
  BY DEF Event
<1>5. ASSUME NEW e \in heap
      PROVE  Place(e)' = Place(e)
  <2>1. {f \in heap' : f.order <= e.order} = {f \in heap : f.order <= e.order}
    BY <1>3, <1>4
  <2> QED BY <2>1 DEF Place
<1>6. Place(n)' = Cardinality(heap) + 1
  <2>1. {f \in heap' : f.order <= n.order} = heap'
    BY <1>3, <1>4
  <2> QED BY <1>2, <2>1 DEF Place
<1>7. PlacesInv'
  <2> SUFFICES ASSUME Regular', NEW k \in 1..Cardinality(heap')
               PROVE  \E e \in heap' : Place(e)' = k
    BY DEF PlacesInv
  <2>1. Regular
    BY DEF Regular, parameters
  <2>2. CASE k = Cardinality(heap) + 1
    BY <1>6, <2>2
  <2>3. CASE k \in 1..Cardinality(heap)
    BY <1>5, <2>1, <2>3 DEF SimInv, PlacesInv
  <2> QED BY <1>1, <1>2, <2>2, <2>3
<1> QED BY <1>2, <1>5, <1>6, <1>7

\* Where the messages stand in the queue.
QueueInv ==
  /\ DOMAIN Queue = 1..Cardinality(heap)
  /\ \A e \in heap : Queue[Place(e)] = e.msg
  /\ Regular => Queue \in Seq(Msg) /\ Len(Queue) = Cardinality(heap)

\* The heap in its order is a queue of the messages in flight.
LEMMA QueueHolds == SimInv => QueueInv
BY QueueAt, QueueType DEF QueueInv

\* The same in the state after a step.
LEMMA QueueAfter ==
  SimInv' => /\ DOMAIN Queue' = 1..Cardinality(heap')
             /\ \A e \in heap' : Queue'[Place(e)'] = e.msg
             /\ Regular' => Queue' \in Seq(Msg) /\ Len(Queue') = Cardinality(heap')
<1>1. SimInv' => QueueInv'
  BY QueueHolds, PTL
<1> QED BY <1>1 DEF QueueInv

\* A message is sent: lost at once, or scheduled after all others.
LEMMA SendStep ==
  ASSUME SimInv, NEW s \in Node, NEW d \in Node, Send(s, d)
  PROVE  SimInv' /\ Fifoed
<1> DEFINE m == [id |-> sends, src |-> s, dst |-> d]
<1>1. /\ UNCHANGED <<minDelay, maxDelay, drops, reorders, now, cut, at, handled, last>>
      /\ sends' = sends + 1 /\ m \in Msg /\ m.id = sends
  BY HeapProperties DEF Send, parameters, Msg
<1>2. /\ now \in Nat /\ nextOrder \in Nat /\ sends \in Nat /\ nextOrder <= sends
      /\ \A e \in heap : e \in Event /\ e.order < nextOrder /\ e.sent <= now
      /\ \A e, f \in heap : e.order = f.order => e = f
  BY HeapProperties
<1>3. CASE UNCHANGED <<heap, nextOrder>> /\ (~Whole(m) \/ TRUE \in drops)
  <2>1. UNCHANGED <<heap, nextOrder>> /\ (~Whole(m) \/ TRUE \in drops)
    BY <1>3
  <2>2. TypeOK'
    <3>1. \A e \in heap : e.msg.id \in 0..sends' - 1
      <4>1. \A e \in heap : e.msg.id \in 0..sends - 1
        BY DEF SimInv, TypeOK
      <4> QED BY <1>1, <1>2, <4>1
    <3>2. \A k \in DOMAIN handled : handled[k].id \in 0..sends' - 1
      BY <1>1, <1>2 DEF SimInv, TypeOK
    <3>3. sends' \in Nat /\ nextOrder <= sends'
      BY <1>1, <1>2
    <3> QED BY <1>1, <2>1, <3>1, <3>2, <3>3 DEF SimInv, TypeOK
  <2>3. Basics'
    BY <1>1, <2>1, <2>2 DEF SimInv, Basics, ParametersInv, HeapInv, LastInv, HandledInv, OnTime,
                            Before
  <2>4. PlacesInv' /\ Queue' = Queue
    BY <1>1, <2>1, SameQueue DEF parameters
  <2>5. Regular => <<s, d>> \in cut
    BY <2>1 DEF Regular, Whole
  <2>6. Regular => F!Next
    BY <1>1, <2>4, <2>5, FifoActions
  <2> QED BY <2>3, <2>4, <2>6 DEF Basics, SimInv, Fifoed
<1>4. CASE Whole(m) /\ \E delay \in minDelay..maxDelay, jitter \in Jitter : Schedule(delay + jitter, m)
  <2>1. PICK delay \in minDelay..maxDelay, jitter \in Jitter : Schedule(delay + jitter, m)
    BY <1>4
  <2>2. PICK n : n = [due |-> now + (delay + jitter), order |-> nextOrder, sent |-> now, msg |-> m]
    OBVIOUS
  <2>3. heap' = heap \cup {n} /\ nextOrder' = nextOrder + 1
    BY <2>1, <2>2 DEF Schedule
  <2>4. /\ delay \in Nat /\ jitter \in Nat /\ delay \in minDelay..maxDelay /\ jitter <= MostJitter
        /\ minDelay \in Nat /\ maxDelay \in Nat /\ MostJitter \in Nat
    BY DelayProperties
  <2>5. /\ n \in Event /\ n.order = nextOrder /\ n.sent = now /\ n.msg = m
        /\ n.due - n.sent = delay + jitter /\ n.due >= now
    BY <1>1, <1>2, <2>2, <2>4 DEF Event
  <2>6. n.due - n.sent \in minDelay..maxDelay + MostJitter
    BY <2>4, <2>5
  <2> HIDE DEF m
  <2>7. TypeOK'
    <3>1. ASSUME NEW e \in heap'
          PROVE  /\ e.order \in 0..nextOrder' - 1 /\ e.msg.id \in 0..sends' - 1
                 /\ \A f \in heap' : e.order = f.order => e = f
      <4>1. CASE e \in heap
        <5>1. e.order \in 0..nextOrder - 1 /\ e.msg.id \in 0..sends - 1
          BY <4>1 DEF SimInv, TypeOK
        <5>2. e.order \in Nat /\ e.order < nextOrder
          BY <1>2, <4>1 DEF Event
        <5> QED BY <1>1, <1>2, <2>3, <2>5, <4>1, <5>1, <5>2
      <4>2. CASE e = n
        <5>1. \A f \in heap : f.order \in Nat /\ f.order < nextOrder
          BY <1>2 DEF Event
        <5> QED BY <1>1, <1>2, <2>3, <2>5, <4>2, <5>1
      <4> QED BY <2>3, <4>1, <4>2
    <3>2. MostJitter' = MostJitter
      BY <1>1 DEF MostJitter, Larger
    <3>3. ASSUME NEW e \in heap'
          PROVE  e.due - e.sent \in minDelay'..maxDelay' + MostJitter'
      <4>1. CASE e \in heap
        <5>1. e.due - e.sent \in minDelay..maxDelay + MostJitter
          BY <4>1 DEF SimInv, TypeOK, MostJitter
        <5> QED BY <1>1, <3>2, <5>1
      <4>2. CASE e = n
        BY <1>1, <2>6, <3>2, <4>2
      <4> QED BY <2>3, <4>1, <4>2
    <3>4. \A k \in DOMAIN handled' : handled'[k].id \in 0..sends' - 1
      BY <1>1, <1>2 DEF SimInv, TypeOK
    <3>5. /\ now' \in Nat /\ nextOrder' \in Nat /\ sends' \in Nat /\ nextOrder' <= sends'
          /\ cut' \subseteq Node \X Node /\ at' \in {"idle", "loop", "handler"}
      BY <1>1, <1>2, <2>3 DEF SimInv, TypeOK
    <3> QED BY <3>1, <3>3, <3>4, <3>5 DEF TypeOK, MostJitter
  <2>8. HeapInv'
    <3>1. IsFiniteSet(heap')
      BY <2>3, FS_AddElement DEF SimInv, HeapInv
    <3>2. \A e \in heap : e.order \in Nat /\ e.sent \in Nat /\ e.order < n.order /\ e.sent <= n.sent
      BY <1>2, <2>5 DEF Event
    <3>3. n.order \in Nat /\ n.sent \in Nat
      BY <2>5 DEF Event
    <3>4. \A e, f \in heap' : e.order < f.order => e.sent <= f.sent
      BY <2>3, <3>2, <3>3 DEF SimInv, HeapInv
    <3> QED BY <1>1, <1>2, <2>3, <2>5, <3>1, <3>4 DEF HeapInv
  <2>9. LastInv'
    <3>1. last.due \in Nat /\ last.order \in Int /\ last.due <= now /\ last.order < nextOrder
      BY DEF SimInv, LastInv
    <3>2. n.due \in Nat /\ n.order \in Nat
      BY <2>5 DEF Event
    <3>3. Before(last, n)
      BY <1>2, <2>5, <3>1, <3>2 DEF Before
    <3> QED BY <1>1, <1>2, <2>3, <3>1, <3>3 DEF SimInv, LastInv, Before
  <2>10. ParametersInv' /\ HandledInv' /\ OnTime'
    BY <1>1, <2>3, <2>5 DEF SimInv, ParametersInv, HandledInv, OnTime
  <2>11. /\ Cardinality(heap') = Cardinality(heap) + 1
         /\ \A e \in heap : Place(e)' = Place(e)
         /\ Place(n)' = Cardinality(heap) + 1
         /\ PlacesInv'
    BY <1>1, <2>3, <2>5, PlacesAfterSend DEF parameters
  <2>12. SimInv'
    BY <2>7, <2>8, <2>9, <2>10, <2>11 DEF SimInv
  <2>13. ASSUME Regular
         PROVE  Queue' = Append(Queue, m)
    <3>1. Regular' /\ Cardinality(heap) \in Nat
      BY <1>1, <2>13, PlaceProperties DEF Regular
    <3>2. PICK q \in Seq(Msg) : q = Queue
      BY <2>13, QueueType
    <3>3. PICK r \in Seq(Msg) : r = Queue'
      BY <2>12, <3>1, QueueAfter
    <3>4. Len(q) = Cardinality(heap) /\ Len(r) = Cardinality(heap) + 1
      BY <2>11, <2>12, <2>13, <3>1, <3>2, <3>3, QueueType, QueueAfter
    <3>5. ASSUME NEW k \in 1..Len(q)
          PROVE  r[k] = q[k]
      <4>1. PICK e \in heap : Place(e) = k
        BY <2>13, <3>4 DEF SimInv, PlacesInv
      <4>2. q[k] = e.msg
        BY <3>2, <4>1, QueueAt
      <4>3. r[k] = e.msg
        BY <2>3, <2>11, <2>12, <3>3, <4>1, QueueAfter
      <4> QED BY <4>2, <4>3
    <3>6. r[Len(q) + 1] = m
      BY <2>3, <2>5, <2>11, <2>12, <3>3, <3>4, QueueAfter
    <3>7. r = Append(q, m)
      BY <1>1, <3>1, <3>4, <3>5, <3>6
    <3> QED BY <3>2, <3>3, <3>7
  <2>14. <<s, d>> \notin cut
    BY <1>4 DEF Whole, m
  <2>15. Regular => F!Next
    BY <1>1, <2>13, <2>14, FifoActions DEF m
  <2> QED BY <2>12, <2>15 DEF Fifoed
<1> QED BY <1>3, <1>4 DEF Send

\* With the groups' arguments the first event is the one that was scheduled first.
LEMMA FirstIsOldest ==
  ASSUME SimInv, Regular, NEW e \in heap, IsFirst(e)
  PROVE  \A f \in heap \ {e} : e.order < f.order
<1>1. \A f \in heap : /\ f.due \in Nat /\ f.order \in Nat /\ f.sent \in Nat
                      /\ e.order = f.order => e = f
  BY HeapProperties DEF Event
<1>2. minDelay \in Nat /\ maxDelay = minDelay /\ MostJitter = 0
  BY DelayProperties DEF Regular, MostJitter
<1>3. \A f \in heap : f.due - f.sent \in minDelay..maxDelay + MostJitter
  BY DEF SimInv, TypeOK, MostJitter
<1>4. \A f \in heap : f.due = f.sent + minDelay
  BY <1>1, <1>2, <1>3
<1>5. \A f \in heap : f.order < e.order => f.sent <= e.sent
  BY DEF SimInv, HeapInv
<1>6. \A f \in heap \ {e} : Before(e, f)
  BY FirstIsBefore
<1> QED BY <1>1, <1>2, <1>4, <1>5, <1>6 DEF Before

\* It has the first place, and the others move up when it is taken.
LEMMA PlacesAfterRun ==
  ASSUME SimInv, Regular, NEW e \in heap, IsFirst(e), heap' = heap \ {e}
  PROVE  /\ Cardinality(heap') = Cardinality(heap) - 1
         /\ Place(e) = 1
         /\ \A f \in heap' : Place(f)' = Place(f) - 1
<1>1. IsFiniteSet(heap) /\ Cardinality(heap) \in Nat
  BY PlaceProperties DEF SimInv, HeapInv
<1>2. Cardinality(heap') = Cardinality(heap) - 1
  BY <1>1, FS_RemoveElement
<1>3. \A f \in heap : f.order \in Nat
  BY HeapProperties DEF Event
<1>4. \A f \in heap \ {e} : e.order < f.order
  BY FirstIsOldest
<1>5. Place(e) = 1
  <2>1. {f \in heap : f.order <= e.order} = {e}
    BY <1>3, <1>4
  <2>2. Cardinality({e}) = 1
    BY FS_Singleton
  <2> QED BY <2>1, <2>2 DEF Place
<1>6. ASSUME NEW f \in heap'
      PROVE  Place(f)' = Place(f) - 1
  <2>1. {g \in heap' : g.order <= f.order} = UpTo(f) \ {e} /\ e \in UpTo(f)
    BY <1>3, <1>4, <1>6 DEF UpTo
  <2>2. IsFiniteSet(UpTo(f)) /\ Cardinality(UpTo(f)) = Place(f)
    BY <1>1, FS_Subset DEF UpTo, Place
  <2>3. Cardinality(UpTo(f) \ {e}) = Place(f) - 1
    BY <2>1, <2>2, FS_RemoveElement
  <2> QED BY <2>1, <2>3 DEF Place
<1> QED BY <1>2, <1>5, <1>6

\* The first event runs: _deliver hands the message over or loses it.
LEMMA RunStep ==
  ASSUME SimInv, NEW e \in heap, RunNext(e)
  PROVE  SimInv' /\ Fifoed
<1>1. /\ UNCHANGED <<minDelay, maxDelay, drops, reorders, now, nextOrder, cut, sends>>
      /\ heap' = heap \ {e} /\ at' \in {"loop", "handler"} /\ IsFirst(e) /\ Due(e)
      /\ handled' = IF Whole(e.msg) /\ e.msg.dst \in Registered
                    THEN Append(handled, e.msg) ELSE handled
      /\ last' = [due |-> e.due, order |-> e.order]
  BY DEF RunNext, parameters
<1>2. e \in Event /\ e.order < nextOrder /\ nextOrder \in Nat
  BY HeapProperties
<1>3. HandledInv'
  BY <1>1, <1>2 DEF SimInv, HandledInv, Event
<1>4. TypeOK'
  <2>1. \A k \in DOMAIN handled' : handled'[k].id \in 0..sends - 1
    <3>1. PICK h \in Seq(Msg) : h = handled
      BY DEF SimInv, HandledInv
    <3>2. \A k \in DOMAIN h : h[k].id \in 0..sends - 1
      BY <3>1 DEF SimInv, TypeOK
    <3>3. e.msg \in Msg /\ e.msg.id \in 0..sends - 1
      BY <1>2 DEF SimInv, TypeOK, Event
    <3>4. \A k \in DOMAIN Append(h, e.msg) : Append(h, e.msg)[k].id \in 0..sends - 1
      <4>1. \A k \in DOMAIN Append(h, e.msg) :
              (k \in DOMAIN h /\ Append(h, e.msg)[k] = h[k]) \/ Append(h, e.msg)[k] = e.msg
        BY <3>3, AppendProperties, LenProperties
      <4> QED BY <3>2, <3>3, <4>1
    <3> QED BY <1>1, <3>1, <3>2, <3>4
  <2>2. \A f \in heap' : f \in heap
    BY <1>1
  <2>3. MostJitter' = MostJitter
    BY <1>1 DEF MostJitter, Larger
  <2>4. \A f \in heap : /\ f.order \in 0..nextOrder - 1 /\ f.msg.id \in 0..sends - 1
                        /\ f.due - f.sent \in minDelay..maxDelay + MostJitter
                        /\ \A g \in heap : f.order = g.order => f = g
    BY DEF SimInv, TypeOK, MostJitter
  <2>5. \A f \in heap' : /\ f.order \in 0..nextOrder' - 1 /\ f.msg.id \in 0..sends' - 1
                         /\ f.due - f.sent \in minDelay'..maxDelay' + MostJitter'
                         /\ \A g \in heap' : f.order = g.order => f = g
    BY <1>1, <2>2, <2>3, <2>4
  <2>6. /\ now' \in Nat /\ nextOrder' \in Nat /\ sends' \in Nat /\ nextOrder' <= sends'
        /\ cut' \subseteq Node \X Node /\ at' \in {"idle", "loop", "handler"}
    BY <1>1 DEF SimInv, TypeOK
  <2> QED BY <1>1, <2>1, <2>5, <2>6 DEF TypeOK, MostJitter
<1>5. HeapInv'
  BY <1>1, FS_RemoveElement DEF SimInv, HeapInv
<1>6. LastInv'
  <2>1. \A f \in heap' : Before(e, f)
    BY <1>1, FirstIsBefore
  <2>2. e.due \in Nat /\ e.order \in Int /\ e.due <= now
    BY <1>1, <1>2 DEF Event, Due
  <2>3. last'.due = e.due /\ last'.order = e.order
    BY <1>1
  <2>4. \A f \in heap' : Before(last', f)
    BY <2>1, <2>3 DEF Before
  <2> QED BY <1>1, <1>2, <2>2, <2>3, <2>4 DEF LastInv, Before
<1>7. ParametersInv' /\ OnTime'
  BY <1>1 DEF SimInv, ParametersInv, OnTime
<1>8. PlacesInv'
  <2> SUFFICES ASSUME Regular', NEW k \in 1..Cardinality(heap')
               PROVE  \E f \in heap' : Place(f)' = k
    BY DEF PlacesInv
  <2>1. Regular
    BY <1>1 DEF Regular
  <2>2. /\ Cardinality(heap') = Cardinality(heap) - 1 /\ Cardinality(heap) \in Nat
        /\ Place(e) = 1 /\ \A f \in heap' : Place(f)' = Place(f) - 1
    BY <1>1, <2>1, PlacesAfterRun, PlaceProperties
  <2>3. k + 1 \in 1..Cardinality(heap) /\ k \in Nat /\ k >= 1
    BY <2>2
  <2>4. PICK f \in heap : Place(f) = k + 1
    BY <2>1, <2>3 DEF SimInv, PlacesInv
  <2> QED BY <1>1, <2>2, <2>3, <2>4
<1>9. SimInv'
  BY <1>3, <1>4, <1>5, <1>6, <1>7, <1>8 DEF SimInv
<1>10. ASSUME Regular
       PROVE  Queue # <<>> /\ Head(Queue) = e.msg /\ Queue' = Tail(Queue)
  <2>1. Regular' /\ Cardinality(heap) \in Nat
    BY <1>1, <1>10, PlaceProperties DEF Regular
  <2>2. /\ Cardinality(heap') = Cardinality(heap) - 1
        /\ Place(e) = 1 /\ \A f \in heap' : Place(f)' = Place(f) - 1
    BY <1>1, <1>10, PlacesAfterRun
  <2>3. PICK q \in Seq(Msg) : q = Queue
    BY <1>10, QueueType
  <2>4. PICK r \in Seq(Msg) : r = Queue'
    BY <1>9, <2>1, QueueAfter
  <2>5. Len(q) = Cardinality(heap) /\ Len(r) = Len(q) - 1
    BY <1>9, <1>10, <2>1, <2>2, <2>3, <2>4, QueueType, QueueAfter
  <2>6. Len(q) >= 1 /\ q[1] = e.msg
    BY <2>2, <2>3, <2>5, QueueAt, PlaceProperties
  <2>7. ASSUME NEW k \in 1..Len(q) - 1
        PROVE  r[k] = q[k + 1]
    <3>1. k + 1 \in 1..Cardinality(heap) /\ k \in Nat /\ k >= 1
      BY <2>1, <2>5
    <3>2. PICK f \in heap : Place(f) = k + 1
      BY <1>10, <3>1 DEF SimInv, PlacesInv
    <3>3. f \in heap' /\ Place(f)' = k
      BY <1>1, <2>2, <3>1, <3>2
    <3>4. q[k + 1] = f.msg
      BY <2>3, <3>2, QueueAt
    <3>5. r[k] = f.msg
      BY <1>9, <2>4, <3>3, QueueAfter
    <3> QED BY <3>4, <3>5
  <2>8. q # <<>> /\ Head(q) = e.msg /\ r = Tail(q)
    BY <2>5, <2>6, <2>7
  <2> QED BY <2>3, <2>4, <2>8
<1>11. Regular => F!Next
  BY <1>1, <1>10, FifoActions
<1> QED BY <1>9, <1>11 DEF Fifoed

----------------------------------------------------------------------------
(* Theorems *)

\* The network starts empty and in order.
LEMMA InitInv == ASSUME Init PROVE SimInv /\ Queue = <<>>
<1>1. Delays \in SUBSET Nat
  BY SimNetAssumption
<1>2. ParametersInv
  BY <1>1 DEF Init, ParametersInv
<1>3. heap = {} /\ IsFiniteSet(heap) /\ Cardinality(heap) = 0
  BY FS_EmptySet DEF Init
<1>4. TypeOK /\ HeapInv /\ LastInv /\ HandledInv /\ OnTime /\ PlacesInv
  BY <1>3 DEF Init, TypeOK, HeapInv, LastInv, HandledInv, OnTime, PlacesInv
<1>5. Queue = <<>>
  BY <1>3 DEF Queue, ByInsertion
<1> QED BY <1>2, <1>4, <1>5 DEF SimInv

\* Every step keeps the invariant, and with one delay is a step of the queue.
LEMMA NextInv == ASSUME SimInv, [Next]_vars PROVE SimInv' /\ Fifoed
<1>1. CASE UNCHANGED vars
  <2>1. UNCHANGED <<parameters, now, heap, nextOrder, cut, sends, at, handled, last>>
    BY <1>1 DEF vars
  <2>2. Basics'
    BY <2>1 DEF SimInv, Basics, ParametersInv, TypeOK, HeapInv, LastInv, HandledInv, OnTime,
                parameters, Before, Event
  <2>3. PlacesInv' /\ Queue' = Queue
    BY <2>1, SameQueue
  <2>4. UNCHANGED F!vars
    BY <2>1, <2>3, FifoActions
  <2> QED BY <2>2, <2>3, <2>4 DEF Basics, SimInv, Fifoed
<1>2. CASE Next
  BY <1>2, BeginStep, EndStep, RunStep, SendStep, RelinkStep DEF Next, Tick
<1> QED BY <1>1, <1>2

\* The invariant holds in every state of every SimNet.
LEMMA SimInvariant == Spec => []SimInv
<1>1. Init => SimInv
  BY InitInv
<1>2. SimInv /\ [Next]_vars => SimInv'
  BY NextInv
<1> QED BY <1>1, <1>2, PTL DEF Spec

\* The clock, the heap and the messages are of their kinds, an event is due
\* when the delays say, and no two events have one insertion order.
THEOREM TypeCorrect == Spec => []TypeOK
<1>1. SimInv => TypeOK
  BY DEF SimInv
<1> QED BY <1>1, SimInvariant, PTL

\* Scheduler.tick leaves nothing behind that is due, whatever handlers send.
THEOREM OnTimeHolds == Spec => []OnTime
<1>1. SimInv => OnTime
  BY DEF SimInv
<1> QED BY <1>1, SimInvariant, PTL

\* Events run in the order of _ScheduledEvent over a whole behaviour, not only
\* among those that the heap holds at one time.
THEOREM RunsInOrderHolds == Spec => RunsInOrder
<1>1. SimInv /\ [Next]_vars => [last' # last => Before(last, last')]_vars
  <2> SUFFICES ASSUME SimInv, Next, last' # last
               PROVE  Before(last, last')
    OBVIOUS
  <2>1. PICK e \in heap : RunNext(e)
    BY DEF Next, Tick, BeginTick, EndTick, Send, Partition, Heal
  <2>2. last'.due = e.due /\ last'.order = e.order
    BY <2>1 DEF RunNext
  <2>3. Before(last, e)
    BY DEF SimInv, LastInv
  <2> QED BY <2>2, <2>3 DEF Before
<1> QED BY <1>1, SimInvariant, PTL DEF Spec, RunsInOrder

\* With one delay and no rates, the arguments of every group, SimNet is one
\* first-in first-out queue: what module Network takes for granted.
THEOREM ImplementsFifoHolds == Spec => ImplementsFifo
<1>1. Init => F!Init
  BY InitInv DEF Init, F!Init, Queue
<1>2. SimInv /\ [Next]_vars => [Regular => [F!Next]_(F!vars)]_vars
  BY NextInv DEF Fifoed
<1> QED BY <1>1, <1>2, SimInvariant, PTL DEF Spec, ImplementsFifo
=============================================================================
