-------------------------------- MODULE Isr --------------------------------
(***************************************************************************)
(* protocols/isr/group.py: a leader, followers that copy its log, a dynamic *)
(* in-sync set, a high watermark and an in-process controller.              *)
(*                                                                          *)
(* Time is kept relative to now: lag[n] is now - _last_caught_up[n] (capped *)
(* at the lag timeout), lease is _lease_expiry - now (-1 once expired), and *)
(* a message's `wait` the ticks until it is due.  A tick is an advance of   *)
(* the clock and then, one by one, the deliveries that are due; nothing     *)
(* else runs in between.  The ALL_ISR call drives the group by ticks, so    *)
(* while `client` waits nothing but ticks happens.                          *)
(*                                                                          *)
(* Offsets are positions: log[n][k] is the entry at offset k, told apart by *)
(* the number of its write.  applied[n] is the prefix that committed_data   *)
(* replays, so Len(applied[n]) is applied_hw; data is the replay of the     *)
(* whole log and is not kept, nor is catch_up_mode, which nothing reads.    *)
(* The controller epoch always equals the leader epoch.                     *)
(***************************************************************************)
EXTENDS Network, SequencesExt

CONSTANTS MinInsync, LagTimeout, Retention, Delay, LeaseDuration

ASSUME IsrAssumption ==
  /\ N \in Nat /\ N >= 2
  /\ MinInsync \in 1..N
  /\ {LagTimeout, Retention, Delay} \subseteq Nat \ {0}
  /\ LeaseDuration \in Nat

VARIABLES
  alive, log, applied, durable,        \* the nodes
  leader, epoch, isr, hw, lag, lease,  \* the controller
  slow, retained,                      \* slow replicas; the retained entries
  queue, cut,                          \* SimNet
  client,                              \* the ALL_ISR call in progress
  written, accepted                    \* history: writes made; ALL_ISR writes accepted

nodeVars == <<alive, log, durable>>
viewVars == <<isr, hw, lag, lease, applied>>
ctlVars  == <<leader, epoch>>
cliVars  == <<client, written, accepted>>
vars == <<nodeVars, viewVars, ctlVars, slow, retained, queue, cut, cliVars>>

Entry == [epoch : Nat, id : Nat]
Idle == [op |-> "idle"]
Lower(a, b) == IF a < b THEN a ELSE b
Upper(a, b) == IF a < b THEN b ELSE a

Init ==
  /\ alive = [n \in Node |-> TRUE]
  /\ log = [n \in Node |-> <<>>]
  /\ applied = [n \in Node |-> <<>>]
  /\ durable = [n \in Node |-> <<>>]
  /\ leader = 1 /\ epoch = 1
  /\ isr = Node /\ hw = 0
  /\ lag = [n \in Node |-> 0] /\ lease = LeaseDuration
  /\ slow = {} /\ retained = <<>>
  /\ queue = <<>> /\ cut = {}
  /\ client = Idle /\ written = 0 /\ accepted = {}

----------------------------------------------------------------------------
(* The controller's view: what _refresh_isr_and_hw reads and writes *)

View == [isr |-> isr, hw |-> hw, lag |-> lag, lease |-> lease, applied |-> applied]

Becomes(v) ==
  /\ isr' = v.isr /\ hw' = v.hw /\ lag' = v.lag /\ lease' = v.lease
  /\ applied' = v.applied

\* The entries of l that are applied once the watermark is `mark`.
Apply(done, l, mark) == done \o SubSeq(l, Len(done) + 1, Lower(mark, Len(l)))

\* The view v refreshed, with the nodes `up` alive, the logs l and leader ld:
\* who caught up joins unless slow, who is late leaves, and the watermark
\* rises to the least log end in the ISR.  Nothing happens while ld is down.
Refreshed(v, up, l, ld) ==
  LET followers == Node \ {ld}
      caughtUp  == {n \in followers : up[n] /\ Len(l[n]) >= Len(l[ld])}
      late      == {n \in followers \ caughtUp : v.lag[n] >= LagTimeout}
      members   == (v.isr \ ({n \in followers : ~up[n]} \cup late)) \cup (caughtUp \ slow) \cup {ld}
      mark      == Upper(v.hw, Min({Len(l[n]) : n \in members}))
  IN  IF ~up[ld] THEN v
      ELSE [isr |-> members, hw |-> mark,
            lag |-> [n \in Node |-> IF n \in caughtUp THEN 0 ELSE v.lag[n]],
            lease |-> IF Cardinality(members) >= MinInsync THEN LeaseDuration ELSE v.lease,
            applied |-> [n \in Node |-> Apply(v.applied[n], l[n], mark)]]

----------------------------------------------------------------------------
(* Messages and catch-up *)

AppendMsg(ld, ep, f, r) ==
  [type |-> "append", src |-> ld, dst |-> f, epoch |-> ep, wait |-> Delay,
   offset |-> r.offset, entry |-> r.entry]

SnapshotMsg(ld, ep, f, l, mark) ==
  [type |-> "snapshot", src |-> ld, dst |-> f, epoch |-> ep, wait |-> Delay,
   log |-> l, hw |-> mark]

\* The retained entries beyond the end of the log l.
Missing(l) == Kept(retained, {k \in DOMAIN retained : retained[k].offset > Len(l)})

\* Mutant: no snapshot is ever sent.
SyncFromRetained(f, ld, ep, l, slowNow) ==
  IF f \in slowNow THEN <<>>
  ELSE [k \in DOMAIN Missing(l[f]) |-> AppendMsg(ld, ep, f, Missing(l[f])[k])]

\* _synchronize: the retained entries that f lacks, if they reach back to its
\* log end (a slow replica is sent none), and a snapshot otherwise.
Sync(f, ld, ep, l, slowNow) ==
  LET end == Len(l[f])
  IN  IF end = Len(l[ld]) \/ (retained # <<>> /\ end >= Head(retained).offset - 1)
      THEN IF f \in slowNow THEN <<>>
           ELSE [k \in DOMAIN Missing(l[f]) |-> AppendMsg(ld, ep, f, Missing(l[f])[k])]
      ELSE <<SnapshotMsg(ld, ep, f, l[ld], hw)>>

----------------------------------------------------------------------------
(* Ticks *)

\* Deliveries of this tick are still to run.
Due(q) == q # <<>> /\ Head(q).wait = 0
Ticking == Due(queue)

\* Has the ALL_ISR call seen enough to return?
BelowMinimum == Cardinality(isr) < MinInsync
AllCaughtUp == \A n \in isr : Len(log[n]) >= client.offset
Decided == client # Idle /\ (BelowMinimum \/ AllCaughtUp)

\* The clock advances.  With nothing due, the tick ends here in a refresh.
Tick ==
  LET q == [k \in DOMAIN queue |-> [queue[k] EXCEPT !.wait = @ - 1]]
      v == [View EXCEPT !.lag = [n \in Node |-> Lower(@[n] + 1, LagTimeout)],
                        !.lease = Upper(@ - 1, -1)]
  IN  /\ ~Ticking /\ ~Decided
      /\ queue' = q
      /\ Becomes(IF Due(q) THEN v ELSE Refreshed(v, alive, log, leader))
      /\ UNCHANGED <<nodeVars, ctlVars, slow, retained, cut, cliVars>>

\* A packet counts only on a whole link, between live nodes, in the current
\* leader epoch and from the current leader.
Acceptable(m) ==
  /\ <<m.src, m.dst>> \notin cut /\ alive[m.dst] /\ alive[m.src]
  /\ m.epoch = epoch /\ m.src = leader

\* The refresh that ends a tick, when q holds nothing more that is due.
EndTick(q) ==
  IF Due(q) THEN UNCHANGED viewVars ELSE Becomes(Refreshed(View, alive, log, leader))

Ignore ==
  /\ Ticking /\ ~Acceptable(Head(queue))
  /\ queue' = Tail(queue)
  /\ EndTick(Tail(queue))
  /\ UNCHANGED <<nodeVars, ctlVars, slow, retained, cut, cliVars>>

\* Mutant: whatever offset comes is appended.
FollowsAnyLonger(m) == m.offset > Len(log[m.dst])

Follows(m) == m.offset = Len(log[m.dst]) + 1

ReceiveAppend ==
  LET m == Head(queue)
      l == [log EXCEPT ![m.dst] = Append(@, m.entry)]
  IN  /\ Ticking /\ Acceptable(m) /\ m.type = "append" /\ Follows(m)
      /\ queue' = Tail(queue)
      /\ log' = l
      /\ Becomes(Refreshed(View, alive, l, leader))
      /\ UNCHANGED <<alive, durable, ctlVars, slow, retained, cut, cliVars>>

\* An entry out of order makes the leader synchronize the follower again.
ReceiveOutOfOrder ==
  LET m == Head(queue)
      q == Tail(queue) \o Wired(Sync(m.dst, leader, epoch, log, slow), cut)
  IN  /\ Ticking /\ Acceptable(m) /\ m.type = "append" /\ ~Follows(m)
      /\ queue' = q
      /\ EndTick(q)
      /\ UNCHANGED <<nodeVars, ctlVars, slow, retained, cut, cliVars>>

ReceiveSnapshot ==
  LET m == Head(queue)
      l == [log EXCEPT ![m.dst] = m.log]
      v == [View EXCEPT !.applied[m.dst] = Apply(<<>>, m.log, m.hw)]
  IN  /\ Ticking /\ Acceptable(m) /\ m.type = "snapshot"
      /\ queue' = Tail(queue)
      /\ log' = l
      /\ Becomes(Refreshed(v, alive, l, leader))
      /\ UNCHANGED <<alive, durable, ctlVars, slow, retained, cut, cliVars>>

----------------------------------------------------------------------------
(* Client calls *)

Quiet == ~Ticking /\ client = Idle

\* Mutant: one entry more than the retention is kept.
RetainOneMore(s) == SubSeq(s, Upper(1, Len(s) - Retention), Len(s))

\* The last entries of s, as many as are retained.
Retain(s) == SubSeq(s, Upper(1, Len(s) - Retention + 1), Len(s))

\* What every admitted write does: the entry is appended, retained and sent.
Record ==
  LET r == [offset |-> Len(log[leader]) + 1, entry |-> [epoch |-> epoch, id |-> written + 1]]
      fs == NodesInOrder((Node \ {leader}) \ slow)
  IN  /\ log' = [log EXCEPT ![leader] = Append(@, r.entry)]
      /\ retained' = Retain(Append(retained, r))
      /\ queue' = queue \o Wired([k \in DOMAIN fs |-> AppendMsg(leader, epoch, fs[k], r)], cut)
      /\ written' = written + 1
      /\ UNCHANGED <<alive, durable, ctlVars, slow, cut, accepted>>

WriteLeader ==
  /\ Quiet /\ alive[leader]
  /\ Record
  /\ Becomes(Refreshed(View, alive, log, leader))
  /\ UNCHANGED client

\* The refresh before the append, and the first one of the waiting loop.
WriteAllIsr ==
  LET v == Refreshed(View, alive, log, leader)
  IN  /\ Quiet /\ alive[leader] /\ Cardinality(v.isr) >= MinInsync
      /\ Record
      /\ Becomes(Refreshed(v, alive, log', leader))
      /\ client' = [op |-> "write", offset |-> Len(log'[leader]), entry |-> Last(log'[leader])]

WriteRefused ==
  LET v == Refreshed(View, alive, log, leader)
  IN  /\ Quiet /\ alive[leader] /\ Cardinality(v.isr) < MinInsync
      /\ Becomes(v)
      /\ UNCHANGED <<nodeVars, ctlVars, slow, retained, queue, cut, cliVars>>

\* run_until_idle, once nothing is pending: a refresh after the last tick's.
LastRefresh ==
  /\ Quiet /\ queue = <<>>
  /\ Becomes(Refreshed(View, alive, log, leader))
  /\ UNCHANGED <<nodeVars, ctlVars, slow, retained, queue, cut, cliVars>>

WriteReturns ==
  /\ client' = Idle
  /\ UNCHANGED <<nodeVars, viewVars, ctlVars, slow, retained, queue, cut, written>>

\* Mutant: the call returns without waiting for the members of the ISR.
AcceptsAtOnce == client # Idle /\ ~Ticking /\ ~BelowMinimum

\* Every member of the current ISR holds the offset and the watermark covers it.
Accepts == client # Idle /\ ~Ticking /\ ~BelowMinimum /\ AllCaughtUp /\ hw >= client.offset

WriteAccepted ==
  /\ Accepts
  /\ accepted' = accepted \cup {[offset |-> client.offset, entry |-> client.entry]}
  /\ WriteReturns

\* The minimum was lost, the watermark is short of it, or the ticks ran out:
\* the last one is not followed by another look.
WriteUnknown ==
  /\ client # Idle /\ ~Ticking
  /\ UNCHANGED accepted
  /\ WriteReturns

----------------------------------------------------------------------------
(* Replica speed, faults and elections.  A step that synchronizes while the *)
(* leader is down raises after its other effects: nothing is sent.          *)

Synchronize(f, slowNow, up, c) ==
  queue' = IF f # leader /\ up[leader]
           THEN queue \o Wired(Sync(f, leader, epoch, log, slowNow), c) ELSE queue

SetSlow(n) ==
  /\ Quiet /\ n # leader /\ alive[n]
  /\ slow' = slow \cup {n}
  /\ UNCHANGED <<nodeVars, viewVars, ctlVars, retained, queue, cut, cliVars>>

ClearSlow(n) ==
  /\ Quiet /\ n # leader /\ alive[n]
  /\ slow' = slow \ {n}
  /\ Synchronize(n, slow', alive, cut)
  /\ UNCHANGED <<nodeVars, viewVars, ctlVars, retained, cut, cliVars>>

Fsync(n) ==
  /\ Quiet /\ alive[n]
  /\ durable' = [durable EXCEPT ![n] = log[n]]
  /\ UNCHANGED <<alive, log, viewVars, ctlVars, slow, retained, queue, cut, cliVars>>

\* Node n goes down with the log l and the view v: it leaves the ISR.
GoesDown(n, l, v) ==
  /\ Quiet /\ alive[n]
  /\ alive' = [alive EXCEPT ![n] = FALSE]
  /\ cut' = cut \cup LinksOf(n)
  /\ log' = [log EXCEPT ![n] = l]
  /\ Becomes(Refreshed([v EXCEPT !.isr = @ \ {n}], alive', log', leader))
  /\ UNCHANGED <<durable, ctlVars, slow, retained, queue, cliVars>>

Crash(n) == GoesDown(n, log[n], View)

\* Mutant: committed_data is not rebuilt from what the disk gave back.
RestoredLogOnly(n) == View

\* The view once node n has its durable log back.
Restored(n) == [View EXCEPT !.applied[n] = Apply(<<>>, durable[n], hw)]

\* A crash with lose_unfsynced: the log is what was last fsynced.
PowerLoss(n) == GoesDown(n, durable[n], Restored(n))

Restart(n) ==
  /\ Quiet /\ ~alive[n]
  /\ alive' = [alive EXCEPT ![n] = TRUE]
  /\ cut' = cut \ LinksOf(n)
  /\ Synchronize(n, slow, alive', cut')
  /\ UNCHANGED <<log, durable, viewVars, ctlVars, slow, retained, cliVars>>

Isolate(n) ==
  /\ Quiet /\ alive[n]
  /\ cut' = cut \cup LinksOf(n)
  /\ Becomes(Refreshed([View EXCEPT !.isr = @ \ {n}], alive, log, leader))
  /\ UNCHANGED <<nodeVars, ctlVars, slow, retained, queue, cliVars>>

Heal(n) ==
  /\ Quiet /\ alive[n]
  /\ cut' = cut \ LinksOf(n)
  /\ Synchronize(n, slow, alive, cut')
  /\ UNCHANGED <<nodeVars, viewVars, ctlVars, slow, retained, cliVars>>

\* Mutant: one committed entry too many is discarded.
SeedTooShort(n) == SubSeq(log[n], 1, Upper(0, Lower(hw, Len(log[n])) - 1))

\* The log that an elected node starts its epoch with.
Seed(n) == SubSeq(log[n], 1, Lower(hw, Len(log[n])))

\* Mutant: any live follower will do.
ElectableOutOfIsr(n) == alive[n] /\ n # leader

Electable(n) == alive[n] /\ n \in isr /\ n # leader

\* controller_elect: a clean election of a live member of the ISR.
Elect(n) ==
  LET l  == [log EXCEPT ![n] = Seed(n)]
      fs == NodesInOrder({f \in Node \ {n} : alive[f]})
  IN  /\ Quiet /\ Electable(n)
      /\ epoch' = epoch + 1 /\ leader' = n
      /\ log' = l
      /\ isr' = isr \ {leader}
      /\ lease' = LeaseDuration
      /\ queue' = queue \o Wired(FlattenSeq([k \in DOMAIN fs |->
                                   Sync(fs[k], n, epoch + 1, l, slow)]), cut)
      /\ UNCHANGED <<alive, durable, hw, lag, applied, slow, retained, cut, cliVars>>

----------------------------------------------------------------------------
Deliver == Ignore \/ ReceiveAppend \/ ReceiveOutOfOrder \/ ReceiveSnapshot
Returns == WriteAccepted \/ WriteUnknown

Next ==
  \/ Tick \/ LastRefresh \/ Deliver
  \/ WriteLeader \/ WriteAllIsr \/ WriteRefused \/ Returns
  \/ \E n \in Node : \/ SetSlow(n) \/ ClearSlow(n) \/ Fsync(n) \/ Crash(n) \/ PowerLoss(n)
                     \/ Restart(n) \/ Isolate(n) \/ Heal(n) \/ Elect(n)

Spec == Init /\ [][Next]_vars

\* Ticks go on, every tick runs what is due, and a call that can return does.
Fairness == WF_vars(Tick) /\ WF_vars(Deliver) /\ WF_vars(Returns)

----------------------------------------------------------------------------
(* Properties *)

Message ==
  [type : {"append"}, src : Node, dst : Node, epoch : Nat, wait : Nat,
   offset : Nat, entry : Entry]
  \cup
  [type : {"snapshot"}, src : Node, dst : Node, epoch : Nat, wait : Nat,
   log : Seq(Entry), hw : Nat]

\* The type invariant of the group: the fields of _Node and IsrGroup, and the
\* bounded retained log, stay of their kinds.
TypeOK ==
  /\ alive \in [Node -> BOOLEAN]
  /\ log \in [Node -> Seq(Entry)] /\ durable \in [Node -> Seq(Entry)]
  /\ applied \in [Node -> Seq(Entry)]
  /\ leader \in Node /\ epoch \in Nat
  /\ isr \subseteq Node /\ slow \subseteq Node
  /\ hw \in Nat /\ lag \in [Node -> 0..LagTimeout] /\ lease \in -1..LeaseDuration
  /\ retained \in Seq([offset : Nat, entry : Entry]) /\ Len(retained) <= Retention
  /\ queue \in Seq(Message)
  /\ cut \subseteq Node \X Node
  /\ client \in {Idle} \cup [op : {"write"}, offset : Nat, entry : Entry]
  /\ written \in Nat
  /\ accepted \subseteq [offset : Nat, entry : Entry]

Holds(n, a) == a.offset <= Len(log[n]) /\ log[n][a.offset] = a.entry

\* committed_data is always the replay of the node's own log up to applied_hw:
\* no truncation, snapshot or power loss takes back an applied entry.
AppliedIsPrefix ==
  \A n \in Node : Len(applied[n]) <= Len(log[n])
                  /\ applied[n] = SubSeq(log[n], 1, Len(applied[n]))

\* Every live member of the ISR holds the leader's log up to the watermark,
\* entry by entry: what makes any of them fit to be elected.
IsrHoldsCommitted ==
  \A n \in isr : alive[n] =>
    /\ hw <= Len(log[n])
    /\ SubSeq(log[n], 1, hw) = SubSeq(log[leader], 1, hw)

\* An accepted ALL_ISR write is below the watermark and in the log of every
\* live member of the ISR, however the ISR has changed since.
AcceptedOnIsr ==
  \A a \in accepted : a.offset <= hw /\ \A n \in isr : alive[n] => Holds(n, a)

\* An accepted ALL_ISR write is in the log of whichever node leads.
AcceptedSurvives == \A a \in accepted : Holds(leader, a)

\* When a LINEARIZABLE read (or lease_read) is answered, by its three guards,
\* the committed data it reads reflect every accepted ALL_ISR write.
AuthorityRead ==
  /\ ~Ticking /\ client = Idle /\ alive[leader]
  /\ Len(log[leader]) <= hw /\ lease >= 0 /\ ~BelowMinimum
AuthorityReadIsFresh ==
  AuthorityRead =>
    \A a \in accepted : a.offset <= Len(applied[leader]) /\ applied[leader][a.offset] = a.entry

\* The watermark never falls, and an entry that is once below it in the leader's
\* log stays at its offset in the log of whoever leads, through elections that
\* cut the new leader's log.
CommittedStays ==
  [][/\ hw' >= hw
     /\ \A k \in 1..Lower(hw, Len(log[leader])) :
          k <= Len(log'[leader']) /\ log'[leader'][k] = log[leader][k]]_vars

\* Once all nodes stay up and linked, none is slow and no call is running, a
\* follower that fell behind while it was down, cut off or slow catches up by
\* the retained log or a snapshot and is in the ISR again.
Calm == cut = {} /\ slow = {} /\ client = Idle /\ \A n \in Node : alive[n]
Rejoined == isr = Node /\ hw = Len(log[leader]) /\ \A n \in Node : log[n] = log[leader]
Rejoins == <>[]Calm => <>[]Rejoined
=============================================================================
