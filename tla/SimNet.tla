------------------------------- MODULE SimNet -------------------------------
(***************************************************************************)
(* sim/network.py over sim/scheduler.py and sim/clock.py: messages wait in  *)
(* the scheduler's heap of (due_tick, order) for the tick at which they are *)
(* due.  The constructor's arguments are variables that never change: each  *)
(* behaviour has its own.  What the seeded generator returns is any value   *)
(* it can return.  The trace, which nothing reads, is left out.             *)
(***************************************************************************)
EXTENDS Integers, Sequences, FiniteSets

CONSTANTS
  Node, Registered,   \* the node ids; those with a handler
  Delays              \* the values tried for min_delay and max_delay

ASSUME SimNetAssumption == Registered \subseteq Node /\ Delays \subseteq Nat

VARIABLES
  minDelay, maxDelay,  \* SimNet's delays
  drops, reorders,     \* what comparing with drop_rate and reorder_rate can give
  now,                 \* SimClock
  heap, nextOrder,     \* Scheduler
  cut, sends,          \* SimNet: _partitions and _next_message_id
  at,                  \* where the program is: "idle", in tick's "loop", in a "handler"
  handled, last        \* history: messages handled, in order; the event run last

parameters == <<minDelay, maxDelay, drops, reorders>>
vars == <<parameters, now, heap, nextOrder, cut, sends, at, handled, last>>

\* A rate is 0, 1 or between them.
Outcomes == {{FALSE}, {TRUE}, BOOLEAN}

Larger(a, b) == IF a > b THEN a ELSE b

Init ==
  /\ minDelay \in Delays /\ maxDelay \in Delays /\ minDelay <= maxDelay
  /\ drops \in Outcomes /\ reorders \in Outcomes
  /\ now = 0 /\ heap = {} /\ nextOrder = 0
  /\ cut = {} /\ sends = 0
  /\ at = "idle" /\ handled = <<>> /\ last = [due |-> 0, order |-> -1]

----------------------------------------------------------------------------
\* The harness calls between ticks, a handler while it runs.
Calling == at \in {"idle", "handler"}

Whole(m) == <<m.src, m.dst>> \notin cut

\* Scheduler.schedule
Schedule(delay, m) ==
  /\ heap' = heap \cup {[due |-> now + delay, order |-> nextOrder, sent |-> now, msg |-> m]}
  /\ nextOrder' = nextOrder + 1

\* Mutant: the jitter is drawn whatever reorder_rate is.
JitterAlways == 0..Larger(1, maxDelay)

\* The extra delay of a message: 0, or what a reordered message draws.
Jitter ==
  (IF FALSE \in reorders THEN {0} ELSE {}) \cup
  (IF TRUE \in reorders THEN 0..Larger(1, maxDelay) ELSE {})

Send(s, d) ==
  LET m == [id |-> sends, src |-> s, dst |-> d]
  IN  /\ Calling
      /\ sends' = sends + 1
      /\ \/ /\ ~Whole(m) \/ TRUE \in drops
            /\ UNCHANGED <<heap, nextOrder>>
         \/ /\ Whole(m) /\ FALSE \in drops
            /\ \E delay \in minDelay..maxDelay, jitter \in Jitter : Schedule(delay + jitter, m)
      /\ UNCHANGED <<parameters, now, cut, at, handled, last>>

Partition(s, d) ==
  /\ Calling
  /\ cut' = cut \cup {<<s, d>>}
  /\ UNCHANGED <<parameters, now, heap, nextOrder, sends, at, handled, last>>

Heal(s, d) ==
  /\ Calling
  /\ cut' = cut \ {<<s, d>>}
  /\ UNCHANGED <<parameters, now, heap, nextOrder, sends, at, handled, last>>

----------------------------------------------------------------------------
(* Scheduler.tick *)

\* Mutant: equal ticks are not told apart.
BeforeByTick(e, f) == e.due < f.due
\* The order of _ScheduledEvent.
Before(e, f) == e.due < f.due \/ (e.due = f.due /\ e.order < f.order)

\* Mutant: only what is due exactly now is run.
DueNow(e) == e.due = now
Due(e) == e.due <= now

\* The head of the heap is e.
IsFirst(e) == \A f \in heap \ {e} : ~Before(f, e)

BeginTick ==
  /\ at = "idle"
  /\ now' = now + 1
  /\ at' = "loop"
  /\ UNCHANGED <<parameters, heap, nextOrder, cut, sends, handled, last>>

\* One round of tick's loop: _deliver of the first event.
RunNext(e) ==
  LET received == Whole(e.msg) /\ e.msg.dst \in Registered
  IN  /\ at # "idle" /\ IsFirst(e) /\ Due(e)
      /\ heap' = heap \ {e}
      /\ at' = IF received THEN "handler" ELSE "loop"
      /\ handled' = IF received THEN Append(handled, e.msg) ELSE handled
      /\ last' = [due |-> e.due, order |-> e.order]
      /\ UNCHANGED <<parameters, now, nextOrder, cut, sends>>

EndTick ==
  /\ at # "idle"
  /\ \A e \in heap : IsFirst(e) => ~Due(e)
  /\ at' = "idle"
  /\ UNCHANGED <<parameters, now, heap, nextOrder, cut, sends, handled, last>>

Tick == BeginTick \/ EndTick \/ \E e \in heap : RunNext(e)

Next == Tick \/ \E s, d \in Node : Send(s, d) \/ Partition(s, d) \/ Heal(s, d)

Spec == Init /\ [][Next]_vars

----------------------------------------------------------------------------
(* Properties *)

\* The type invariant, with what a delay can be and orders that are unique.
TypeOK ==
  /\ now \in Nat /\ nextOrder \in Nat /\ sends \in Nat /\ nextOrder <= sends
  /\ cut \subseteq Node \X Node
  /\ at \in {"idle", "loop", "handler"}
  /\ \A e \in heap :
       /\ e.order \in 0..nextOrder - 1 /\ e.msg.id \in 0..sends - 1
       /\ e.due - e.sent \in minDelay..maxDelay + (IF TRUE \in reorders
                                                   THEN Larger(1, maxDelay) ELSE 0)
       /\ \A f \in heap : e.order = f.order => e = f
  /\ \A k \in DOMAIN handled : handled[k].id \in 0..sends - 1

\* No message is late: when a tick has returned, all that was due has been
\* run, except what was sent with no delay since the tick returned.
OnTime == at = "idle" => \A e \in heap : e.due > now \/ e.sent = now

\* Events run by due tick, and in insertion order within one, whatever is
\* sent meanwhile; so the result does not depend on the heap's inner order.
RunsInOrder == [][last' # last => Before(last, last')]_vars

\* The heap in insertion order is a first-in first-out queue ...
Place(e) == Cardinality({f \in heap : f.order <= e.order})
ByInsertion == [k \in 1..Cardinality(heap) |-> CHOOSE e \in heap : Place(e) = k]

F == INSTANCE Fifo WITH queue <- [k \in DOMAIN ByInsertion |-> ByInsertion[k].msg]

\* ... with the arguments that every group gives: one delay, no rates.
Regular == minDelay = maxDelay /\ drops = {FALSE} /\ reorders = {FALSE}

\* With those arguments SimNet is the queue of Fifo, on which module Network
\* and the groups' models rely: no message overtakes another, and one is lost
\* on a cut link only.
ImplementsFifo == F!Init /\ [][Regular => [F!Next]_(F!vars)]_vars
=============================================================================
