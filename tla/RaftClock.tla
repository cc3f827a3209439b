------------------------------ MODULE RaftClock ------------------------------
(***************************************************************************)
(* The Raft group of module Raft run by its clock, its scheduler and its    *)
(* timers: tick() of protocols/raft/group.py and the loops of client calls  *)
(* that wait by ticking.  Every action is one of Raft's with its effect on  *)
(* the clock, or a tick in which only time passes, so the group with a      *)
(* clock is one of the behaviours of Raft.                                  *)
(*                                                                          *)
(* Due ticks are kept as the ticks still to go, so nothing grows with time. *)
(* A tick delivers what is due, then lets each node's timer go off in the   *)
(* order of node_ids; while something is due, the tick is not over and the  *)
(* caller (a client, a test, a lab) cannot act.                             *)
(***************************************************************************)
EXTENDS Raft

CONSTANTS
  ElectionLow, ElectionHigh,   \* election_timeout_range
  HeartbeatInterval,           \* heartbeat_interval
  Delay                        \* network_delay

\* What the constructor insists on.
ASSUME ClockAssumption ==
  /\ {ElectionLow, ElectionHigh, HeartbeatInterval, Delay} \subseteq Nat \ {0}
  /\ ElectionLow <= ElectionHigh
  /\ ElectionLow > 2 * Delay + HeartbeatInterval

VARIABLES
  wait,       \* wait[k]: ticks until queue[k] is due
  timer,      \* ticks to a leader's heartbeat_due, to another's election_deadline
  left,       \* ticks the waiting client call may still spend
  heard,      \* history: the leader that i has heard in its term, or None
  solo,       \* history: somebody stood alone, and no fault has come since
  promised    \* history: the call in progress began with an attended leader

clockVars == <<wait, timer, left>>
historyVars == <<heard, solo, promised>>
timedVars == <<vars, clockVars, historyVars>>

----------------------------------------------------------------------------
(* The clock *)

Timeouts == ElectionLow..ElectionHigh

\* _reset_election_deadline: a timeout is drawn from the range.
Redraw(i) == \E d \in Timeouts : timer' = [timer EXCEPT ![i] = d]

\* What was sent in this step, after the messages that w is for, is due in
\* Delay ticks.
Stamp(w) == wait' = w \o [k \in 1..(Len(queue') - Len(w)) |-> Delay]

Due == queue # <<>> /\ Head(wait) = 0
Expired(i) == alive[i] /\ timer[i] = 0

\* tick() has returned: the caller has the turn.
Quiescent == ~Due /\ \A i \in Node : ~Expired(i)

\* The calls wait for at most twice the longest timeout.
Patience == 2 * ElectionHigh

\* The loop's look at what it waits for.
Satisfied ==
  \/ client.op = "write" /\ WriteCommitted
  \/ client.op = "read" /\ ReadConfirmed

----------------------------------------------------------------------------
(* History *)

\* What h says of i still holds after this step: i and that leader are up and
\* in one term, it is in office, and the link between them is whole.
StillHeard(h, i) ==
  /\ h[i] # None
  /\ alive'[i] /\ alive'[h[i]]
  /\ role'[h[i]] = "leader" /\ currentTerm'[i] = currentTerm'[h[i]]
  /\ {<<i, h[i]>>, <<h[i], i>>} \cap cut' = {}

Remember(h) == heard' = [i \in Node |-> IF StillHeard(h, i) THEN h[i] ELSE None]

\* Candidate i stands alone: it is ahead of everybody, nothing else is under
\* way, and its request reaches the others before their own deadlines.
Uncontested(i) ==
  /\ cut = {} /\ queue = <<>>
  /\ \A j \in Node : alive[j] /\ role[j] # "leader"
  /\ \A j \in Node \ {i} :
       /\ currentTerm[j] <= currentTerm[i] /\ timer[j] >= Delay
       /\ UpToDate(RequestVoteMsg(i, j, currentTerm[i] + 1, log[i]), log[j])

\* Leader i is attended: a majority with its own log hears it, and nobody who
\* does not hear it can be heard.
Attended(i) ==
  /\ IsQuorum({j \in Node : j = i \/ (heard[j] = i /\ log[j] = log[i])})
  /\ \A j \in Node \ {i} : heard[j] = i \/ ~alive[j] \/ LinksOf(j) \subseteq cut

----------------------------------------------------------------------------
(* The steps of a tick *)

\* Mutant: only an AppendEntries with entries resets the deadline.
ResetsOnEntries(i, m) ==
  \/ m.term > currentTerm[i]
  \/ m.type = "RequestVote" /\ Grants(i, m, votedFor[i])
  \/ m.type = "Append" /\ m.term = currentTerm[i] /\ m.entries # <<>>
\* Mutant: neither a vote given nor a step down resets it.
ResetsOnAppend(i, m) == m.type = "Append" /\ m.term >= currentTerm[i]

\* The messages on which node i redraws its election deadline: those that make
\* it step down, that it grants its vote, or that come from a leader it accepts.
Resets(i, m) ==
  \/ m.term > currentTerm[i]
  \/ m.type = "RequestVote" /\ Grants(i, m, votedFor[i])
  \/ m.type = "Append" /\ m.term = currentTerm[i]

\* Mutant: heartbeat_due is left as it was.
TakesNoOffice(i) == FALSE
TakesOffice(i) == role[i] # "leader" /\ role'[i] = "leader"

DeliverDue ==
  /\ Due /\ Deliver
  /\ Stamp(Tail(wait))
  /\ LET m == Head(queue)
         i == m.dst
     IN  /\ \/ TakesOffice(i) /\ timer' = [timer EXCEPT ![i] = HeartbeatInterval]
            \/ Resets(i, m) /\ Redraw(i)
            \/ ~TakesOffice(i) /\ ~Resets(i, m) /\ UNCHANGED timer
         /\ Remember(IF m.type = "Append" /\ m.term >= currentTerm[i]
                     THEN [heard EXCEPT ![i] = m.src] ELSE heard)
  /\ UNCHANGED <<left, solo, promised>>

DiscardDue ==
  /\ Due /\ Discard
  /\ Stamp(Tail(wait))
  /\ UNCHANGED <<timer, left, historyVars>>

\* Node i is the next of node_ids whose timer goes off in this tick.
GoesOff(i) == ~Due /\ Expired(i) /\ \A j \in Node : j < i => ~Expired(j)

Beat(i) ==
  /\ GoesOff(i) /\ Heartbeat(i)
  /\ Stamp(wait)
  /\ timer' = [timer EXCEPT ![i] = HeartbeatInterval]
  /\ UNCHANGED <<left, historyVars>>

Stand(i) ==
  /\ GoesOff(i) /\ Timeout(i)
  /\ Stamp(wait) /\ Redraw(i)
  /\ solo' = (solo \/ Uncontested(i))
  /\ Remember(heard)
  /\ UNCHANGED <<left, promised>>

\* The clock advances: by the caller, or by a client call that has looked in
\* vain and has ticks left.
Tick ==
  /\ Quiescent
  /\ client = Idle \/ (left > 0 /\ ~Satisfied)
  /\ wait' = [k \in DOMAIN wait |-> wait[k] - 1]
  /\ timer' = [i \in Node |-> IF alive[i] THEN timer[i] - 1 ELSE 0]
  /\ left' = IF client = Idle THEN left ELSE left - 1
  /\ UNCHANGED <<vars, historyVars>>

----------------------------------------------------------------------------
(* The caller, between two ticks *)

Begin(A, i) ==
  /\ Quiescent /\ A
  /\ Stamp(wait)
  /\ left' = Patience
  /\ promised' = Attended(i)
  /\ Remember(heard)
  /\ UNCHANGED <<timer, solo>>

Write(i) == \E k \in Key, v \in Value : Begin(ClientWrite(i, k, v), i)
Read(i) == Begin(ReadStart(i), i)

\* A call returns: with success at a look, without when no tick is left.
Returns ==
  /\ Quiescent
  /\ \/ left > 0 /\ (WriteAccepted \/ ReadAnswered)
     \/ left = 0 /\ (WriteUnknown \/ ReadFailed)
  /\ left' = 0 /\ promised' = FALSE
  /\ UNCHANGED <<wait, timer, heard, solo>>

Fault(A) ==
  /\ Quiescent /\ A
  /\ solo' = FALSE
  /\ Remember(heard)
  /\ UNCHANGED <<wait, left, promised>>

CrashNow(i) == Fault(Crash(i)) /\ timer' = [timer EXCEPT ![i] = 0]
IsolateNow(i) == Fault(Isolate(i)) /\ UNCHANGED timer
RestartNow(i) == Fault(Restart(i)) /\ Redraw(i)
HealNow(i) == Fault(Heal(i)) /\ UNCHANGED timer

----------------------------------------------------------------------------
ClockInit ==
  /\ Init
  /\ wait = <<>> /\ left = 0
  /\ timer \in [Node -> Timeouts]
  /\ heard = [i \in Node |-> None] /\ solo = FALSE /\ promised = FALSE

\* What the program does by itself once a tick or a call has begun, and the
\* ticks: a caller that drives the group never stops calling them.
Running ==
  \/ DeliverDue \/ DiscardDue \/ Tick \/ Returns
  \/ \E i \in Node : Beat(i) \/ Stand(i)

ClockNext ==
  \/ Running
  \/ \E i \in Node : \/ Write(i) \/ Read(i)
                     \/ CrashNow(i) \/ RestartNow(i) \/ IsolateNow(i) \/ HealNow(i)

ClockSpec == ClockInit /\ [][ClockNext]_timedVars

\* The caller keeps driving the group, tick after tick.
Fairness == WF_timedVars(Running)

----------------------------------------------------------------------------
(* Properties *)

\* The type invariant of the clock: due ticks go with the messages they are
\* for, in order, and no timer is set beyond what its owner's role allows.
ClockTypeOK ==
  /\ wait \in Seq(0..Delay) /\ Len(wait) = Len(queue)
  /\ \A a, b \in DOMAIN wait : a < b => wait[a] <= wait[b]
  /\ timer \in [Node -> 0..ElectionHigh]
  /\ \A i \in Node : role[i] = "leader" => timer[i] <= HeartbeatInterval
  /\ left \in 0..Patience /\ (client = Idle => left = 0)
  /\ heard \in [Node -> Node \cup {None}]
  /\ solo \in BOOLEAN /\ promised \in BOOLEAN

\* A follower that has heard its term's leader stands for no election while
\* both are up, in that term and linked: the deadline is redrawn on every
\* AppendEntries, one that does not fit the log included, and the constructor's
\* bound on the lowest timeout leaves room for the heartbeat to arrive.
HeardLeaderStays ==
  [][\A i \in Node : heard[i] # None => role'[i] # "candidate"]_timedVars

\* Elections end: once a candidate has stood alone, nobody starts another
\* election before the next fault.  Its voters wait until its heartbeats come,
\* however their deadlines are drawn.
ElectionsEnd ==
  [][solo => \A i \in Node : role'[i] = "candidate" => currentTerm'[i] = currentTerm[i]]_timedVars

\* A call to an attended leader needs one round trip: when the ticks it has
\* spent are 2 * Delay, the next look ends it, whatever was in flight.
CallsAnswered ==
  promised => left >= Patience - 2 * Delay

Calm ==
  \/ solo
  \/ \E i \in Node : role[i] = "leader" /\ \A j \in Node \ {i} : heard[j] = i

\* Once no fault comes any more and the group is calm, with no call in
\* progress, one leader's log becomes everybody's and is committed to its end:
\* each refused AppendEntries moves next_index on to where the logs agree.
Settled ==
  \E i \in Node : role[i] = "leader" /\ \A j \in Node : log[j] = log[i] /\ commitIndex[j] = Len(log[i])
Convergence == <>[](Calm /\ client = Idle) => <>[]Settled
=============================================================================
