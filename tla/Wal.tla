-------------------------------- MODULE Wal --------------------------------
(***************************************************************************)
(* protocols/wal_shipping/group.py: a primary that ships its write-ahead    *)
(* log to standbys, some of them synchronous, and a manual promotion.       *)
(*                                                                          *)
(* A QUORUM call drives the group by ticks: while `client` waits only       *)
(* deliveries happen.  LSNs are positions: records[n][k] is the record of   *)
(* LSN k, so Len(records[n]) is applied_lsn; records are told apart by      *)
(* their timeline and the number of their write, and data and wal_bytes are *)
(* the replay and the concatenation of records.  durable[n] stands for all  *)
(* the durable_ fields (and flushed_lsn, which always equals durable_lsn).  *)
(* sync_mode, which nothing reads, is left out.                             *)
(***************************************************************************)
EXTENDS Network, SequencesExt

CONSTANTS Synchronous, Retention

ASSUME WalAssumption ==
  /\ N \in Nat /\ N >= 2
  /\ Synchronous \subseteq Node \ {1}
  /\ Retention \in Nat \ {0}

VARIABLES
  alive, records, nodeTimeline, durable,     \* the nodes
  primary, timeline, retained, flushAcks,    \* the group
  queue, cut,                                \* SimNet
  client,                                    \* the QUORUM call in progress
  written, accepted                          \* history: writes made; QUORUM writes accepted

nodeVars == <<alive, records, nodeTimeline, durable>>
groupVars == <<primary, timeline>>
vars == <<nodeVars, groupVars, retained, flushAcks, queue, cut, client, written, accepted>>

Record == [timeline : Nat, id : Nat]
Idle == [op |-> "idle"]

Init ==
  /\ alive = [n \in Node |-> TRUE]
  /\ records = [n \in Node |-> <<>>]
  /\ nodeTimeline = [n \in Node |-> 1]
  /\ durable = [n \in Node |-> <<>>]
  /\ primary = 1 /\ timeline = 1
  /\ retained = <<>> /\ flushAcks = {}
  /\ queue = <<>> /\ cut = {}
  /\ client = Idle /\ written = 0 /\ accepted = {}

----------------------------------------------------------------------------
(* Messages and catch-up *)

RecordMsg(p, s, r) ==
  [type |-> "record", src |-> p, dst |-> s, timeline |-> r.record.timeline,
   lsn |-> r.lsn, id |-> r.record.id]

BackupMsg(p, s, tl, rs) ==
  [type |-> "backup", src |-> p, dst |-> s, timeline |-> tl, records |-> rs]

FlushAckMsg(s, p, tl, lsn) ==
  [type |-> "ack", src |-> s, dst |-> p, timeline |-> tl, lsn |-> lsn]

\* The retained records that s lacks.
Missing(s, kept) == Kept(kept, {k \in DOMAIN kept : kept[k].lsn > Len(records[s])})

\* Mutant: no base backup is ever taken.
SyncFromRetained(s, p, tl, kept) ==
  [k \in DOMAIN Missing(s, kept) |-> RecordMsg(p, s, Missing(s, kept)[k])]

\* _synchronize: on the same timeline, the retained records that s lacks if
\* they reach back to its position; a base backup otherwise.
Sync(s, p, tl, kept) ==
  LET at == Len(records[s])
  IN  IF /\ nodeTimeline[s] = tl
         /\ at = Len(records[p]) \/ (kept # <<>> /\ at >= Head(kept).lsn - 1)
      THEN [k \in DOMAIN Missing(s, kept) |-> RecordMsg(p, s, Missing(s, kept)[k])]
      ELSE <<BackupMsg(p, s, tl, records[p])>>

----------------------------------------------------------------------------
(* Deliveries *)

\* The message at the head is due: its link is whole and both ends are live.
Arrives ==
  /\ queue # <<>>
  /\ LET m == Head(queue)
     IN  <<m.src, m.dst>> \notin cut /\ alive[m.dst] /\ alive[m.src]

\* WAL counts only on the current timeline and from the current primary.
Current(m) == m.timeline = timeline /\ m.src = primary

\* A flush acknowledgement counts at the current primary on its timeline.
Counts(m) == m.dst = primary /\ m.timeline = timeline

\* Mutant: a synchronous standby acknowledges what it has not flushed.
FlushedAsync(s, rs) == durable

\* What is durable once s holds the records rs: synchronous standbys flush.
Flushed(s, rs) == IF s \in Synchronous THEN [durable EXCEPT ![s] = rs] ELSE durable

Discard ==
  /\ queue # <<>>
  /\ \/ ~Arrives
     \/ Head(queue).type # "ack" /\ ~Current(Head(queue))
     \/ Head(queue).type = "ack" /\ ~Counts(Head(queue))
  /\ queue' = Tail(queue)
  /\ UNCHANGED <<nodeVars, groupVars, retained, flushAcks, cut, client, written, accepted>>

ReceiveAck ==
  LET m == Head(queue)
  IN  /\ Arrives /\ m.type = "ack" /\ Counts(m)
      /\ flushAcks' = flushAcks \cup {<<m.lsn, m.src>>}
      /\ queue' = Tail(queue)
      /\ UNCHANGED <<nodeVars, groupVars, retained, cut, client, written, accepted>>

\* Mutant: any later record is applied.
FollowsAnyLater(m) == m.lsn > Len(records[m.dst])

Follows(m) == m.lsn = Len(records[m.dst]) + 1

ReceiveRecord ==
  LET m == Head(queue)
      rs == Append(records[m.dst], [timeline |-> m.timeline, id |-> m.id])
  IN  /\ Arrives /\ m.type = "record" /\ Current(m) /\ Follows(m)
      /\ records' = [records EXCEPT ![m.dst] = rs]
      /\ nodeTimeline' = [nodeTimeline EXCEPT ![m.dst] = m.timeline]
      /\ durable' = Flushed(m.dst, rs)
      /\ queue' = Tail(queue) \o Wired(<<FlushAckMsg(m.dst, primary, timeline, m.lsn)>>, cut)
      /\ UNCHANGED <<alive, groupVars, retained, flushAcks, cut, client, written, accepted>>

\* A gap or a duplicate: the primary synchronizes the standby again.
ReceiveOutOfOrder ==
  LET m == Head(queue)
  IN  /\ Arrives /\ m.type = "record" /\ Current(m) /\ ~Follows(m)
      /\ queue' = Tail(queue) \o Wired(Sync(m.dst, primary, timeline, retained), cut)
      /\ UNCHANGED <<nodeVars, groupVars, retained, flushAcks, cut, client, written, accepted>>

\* A base backup replaces everything, and is not acknowledged.
ReceiveBackup ==
  LET m == Head(queue)
  IN  /\ Arrives /\ m.type = "backup" /\ Current(m)
      /\ records' = [records EXCEPT ![m.dst] = m.records]
      /\ nodeTimeline' = [nodeTimeline EXCEPT ![m.dst] = timeline]
      /\ durable' = Flushed(m.dst, m.records)
      /\ queue' = Tail(queue)
      /\ UNCHANGED <<alive, groupVars, retained, flushAcks, cut, client, written, accepted>>

----------------------------------------------------------------------------
(* Client calls *)

\* Mutant: one record too many is retained.
RetainOneMore(kept) ==
  SubSeq(kept, IF Len(kept) > Retention + 1 THEN 2 ELSE 1, Len(kept))

\* The WAL that stays retained when a record has been added to it.
Retain(kept) == SubSeq(kept, IF Len(kept) > Retention THEN 2 ELSE 1, Len(kept))

\* The primary appends, retains and flushes a record and ships it.
Write ==
  LET p   == primary
      lsn == Len(records[p]) + 1
      r   == [lsn |-> lsn, record |-> [timeline |-> timeline, id |-> written + 1]]
      rs  == Append(records[p], r.record)
      out == [k \in DOMAIN PeersOf(p) |-> RecordMsg(p, PeersOf(p)[k], r)]
  IN  /\ client = Idle /\ alive[p]
      /\ records' = [records EXCEPT ![p] = rs]
      /\ nodeTimeline' = [nodeTimeline EXCEPT ![p] = timeline]
      /\ durable' = [durable EXCEPT ![p] = rs]
      /\ retained' = Retain(Append(retained, r))
      /\ flushAcks' = {a \in flushAcks : a[1] # lsn}
      /\ queue' = queue \o Wired(out, cut)
      /\ written' = written + 1
      /\ UNCHANGED <<alive, groupVars, cut, accepted>>

WriteLeader == Write /\ UNCHANGED client

WriteQuorum ==
  /\ Write
  /\ client' = [op |-> "write", lsn |-> Len(records'[primary]),
                record |-> Last(records'[primary])]

Acknowledged == \A s \in Synchronous : <<client.lsn, s>> \in flushAcks

WriteAccepted ==
  /\ client # Idle /\ Acknowledged
  /\ client' = Idle
  /\ accepted' = accepted \cup {[lsn |-> client.lsn, record |-> client.record]}
  /\ UNCHANGED <<nodeVars, groupVars, retained, flushAcks, queue, cut, written>>

\* The ticks ran out; the last one is not followed by another look.
WriteTimesOut ==
  /\ client # Idle
  /\ client' = Idle
  /\ UNCHANGED <<nodeVars, groupVars, retained, flushAcks, queue, cut, written, accepted>>

----------------------------------------------------------------------------
(* Faults and promotion.  A step that synchronizes while the primary is     *)
(* down raises after its other effects: nothing is sent.                    *)

Synchronize(s, up, c) ==
  queue' = IF s # primary /\ up[primary]
           THEN queue \o Wired(Sync(s, primary, timeline, retained), c) ELSE queue

Fsync(n) ==
  /\ client = Idle /\ alive[n]
  /\ durable' = [durable EXCEPT ![n] = records[n]]
  /\ UNCHANGED <<alive, records, nodeTimeline, groupVars, retained, flushAcks, queue, cut,
                 client, written, accepted>>

GoesDown(n, rs) ==
  /\ client = Idle /\ alive[n]
  /\ alive' = [alive EXCEPT ![n] = FALSE]
  /\ records' = [records EXCEPT ![n] = rs]
  /\ cut' = cut \cup LinksOf(n)
  /\ UNCHANGED <<nodeTimeline, durable, groupVars, retained, flushAcks, queue,
                 client, written, accepted>>

Crash(n) == GoesDown(n, records[n])
\* A crash with lose_unfsynced.  The node's timeline is not rolled back.
PowerLoss(n) == GoesDown(n, durable[n])

Restart(n) ==
  /\ client = Idle /\ ~alive[n]
  /\ alive' = [alive EXCEPT ![n] = TRUE]
  /\ cut' = cut \ LinksOf(n)
  /\ Synchronize(n, alive', cut')
  /\ UNCHANGED <<records, nodeTimeline, durable, groupVars, retained, flushAcks,
                 client, written, accepted>>

Isolate(n) ==
  /\ client = Idle /\ alive[n]
  /\ cut' = cut \cup LinksOf(n)
  /\ UNCHANGED <<nodeVars, groupVars, retained, flushAcks, queue, client, written, accepted>>

Heal(n) ==
  /\ client = Idle /\ alive[n]
  /\ cut' = cut \ LinksOf(n)
  /\ Synchronize(n, alive, cut')
  /\ UNCHANGED <<nodeVars, groupVars, retained, flushAcks, client, written, accepted>>

\* Mutant: the new primary's log is not flushed before it takes over.
SecuredLazily(n) == durable

\* What is durable once n is promoted: all that n holds.
Secured(n) == [durable EXCEPT ![n] = records[n]]

\* promote: a new timeline starts at n; every live standby is synchronized.
Promote(n) ==
  LET ss == NodesInOrder({s \in Node \ {n} : alive[s]})
  IN  /\ client = Idle /\ alive[n] /\ n # primary
      /\ timeline' = timeline + 1 /\ primary' = n
      /\ nodeTimeline' = [nodeTimeline EXCEPT ![n] = timeline + 1]
      /\ retained' = <<>>
      /\ durable' = Secured(n)
      /\ queue' = queue \o Wired(FlattenSeq([k \in DOMAIN ss |->
                                    Sync(ss[k], n, timeline + 1, <<>>)]), cut)
      /\ UNCHANGED <<alive, records, flushAcks, cut, client, written, accepted>>

----------------------------------------------------------------------------
Deliver == Discard \/ ReceiveAck \/ ReceiveRecord \/ ReceiveOutOfOrder \/ ReceiveBackup
Returns == WriteAccepted \/ WriteTimesOut

Next ==
  \/ Deliver \/ WriteLeader \/ WriteQuorum \/ Returns
  \/ \E n \in Node : \/ Fsync(n) \/ Crash(n) \/ PowerLoss(n) \/ Restart(n)
                     \/ Isolate(n) \/ Heal(n) \/ Promote(n)

Spec == Init /\ [][Next]_vars

\* Ticks go on and deliver what is due; a QUORUM call ends with its ticks.
Fairness == WF_vars(Deliver) /\ WF_vars(Returns)

----------------------------------------------------------------------------
(* Properties *)

Message ==
  [type : {"record"}, src : Node, dst : Node, timeline : Nat, lsn : Nat, id : Nat]
  \cup
  [type : {"backup"}, src : Node, dst : Node, timeline : Nat, records : Seq(Record)]
  \cup
  [type : {"ack"}, src : Node, dst : Node, timeline : Nat, lsn : Nat]

\* The type invariant of the group, with the bound on the retained WAL.
TypeOK ==
  /\ alive \in [Node -> BOOLEAN]
  /\ records \in [Node -> Seq(Record)] /\ durable \in [Node -> Seq(Record)]
  /\ nodeTimeline \in [Node -> Nat] /\ timeline \in Nat /\ primary \in Node
  /\ retained \in Seq([lsn : Nat, record : Record]) /\ Len(retained) <= Retention
  /\ flushAcks \subseteq Nat \X Node
  /\ queue \in Seq(Message)
  /\ cut \subseteq Node \X Node
  /\ client \in {Idle} \cup [op : {"write"}, lsn : Nat, record : Record]
  /\ written \in Nat
  /\ accepted \subseteq [lsn : Nat, record : Record]

HoldsIn(rs, a) == a.lsn <= Len(rs) /\ rs[a.lsn] = a.record

\* Nothing that the primary has acknowledged, and nothing that a promoted
\* standby takes over, is lost with its power.
PrimaryIsFlushed == durable[primary] = records[primary]

\* A QUORUM write accepted on the current timeline is durable on every
\* configured synchronous standby, whichever of them is promoted next: no stale
\* acknowledgement, power loss or later base backup undoes it.
QuorumOnCandidates ==
  \A a \in accepted : a.record.timeline = timeline =>
    \A s \in Synchronous : HoldsIn(durable[s], a)

\* A promoted synchronous standby brings every QUORUM write of the timeline
\* that ends to the new one.
PromotionKeepsQuorum ==
  [][primary' # primary /\ primary' \in Synchronous =>
       \A a \in accepted : a.record.timeline = timeline => HoldsIn(records'[primary'], a)]_vars

\* No record is applied over an unknown prefix: a standby whose log grows
\* held a prefix of the primary's log and holds one afterwards.
AppliesOverPrefix ==
  [][\A s \in Node :
       alive'[s] /\ records'[s] # records[s] /\ IsPrefix(records[s], records'[s])
         => IsPrefix(records'[s], records'[primary])]_vars

\* Until the first promotion every node holds a prefix of the primary's log,
\* through crashes, power losses of standbys, isolations and dropped records.
PrefixBeforePromotion ==
  timeline = 1 => \A s \in Node : IsPrefix(records[s], records[primary])

\* Every node up, every link whole, no call running and no promotion so far.
Calm == timeline = 1 /\ cut = {} /\ client = Idle /\ \A n \in Node : alive[n]
=============================================================================
