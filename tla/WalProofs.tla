----------------------------- MODULE WalProofs -----------------------------
(***************************************************************************)
(* Theorems about Wal for any number of nodes, any set of synchronous       *)
(* standbys and any retention: through crashes, power losses, cut links and *)
(* promotions, what an accepted QUORUM write claims stays true of every     *)
(* standby that may be promoted.                                            *)
(***************************************************************************)
EXTENDS Wal, NetworkProofs

RetainedRecord == [lsn : Nat, record : Record]

----------------------------------------------------------------------------
(* Types *)

\* What _synchronize sends: retained records, or one base backup.
LEMMA SyncProperties ==
  ASSUME records \in [Node -> Seq(Record)],
         NEW s \in Node, NEW p \in Node, NEW tl \in Nat, NEW kept \in Seq(RetainedRecord)
  PROVE  /\ Sync(s, p, tl, kept) \in Seq(Message)
         /\ \/ \A j \in DOMAIN Sync(s, p, tl, kept) :
                 \E k \in DOMAIN kept : Sync(s, p, tl, kept)[j] = RecordMsg(p, s, kept[k])
            \/ \A j \in DOMAIN Sync(s, p, tl, kept) :
                 Sync(s, p, tl, kept)[j] = BackupMsg(p, s, tl, records[p])
<1> DEFINE out == Sync(s, p, tl, kept)
<1>1. CASE out = <<BackupMsg(p, s, tl, records[p])>>
  <2>1. BackupMsg(p, s, tl, records[p]) \in Message
    BY DEF BackupMsg, Message
  <2> HIDE DEF out
  <2>2. out \in Seq(Message) /\ \A j \in DOMAIN out : out[j] = BackupMsg(p, s, tl, records[p])
    BY <1>1, <2>1
  <2> QED BY <2>2 DEF out
<1>2. CASE out = [k \in DOMAIN Missing(s, kept) |-> RecordMsg(p, s, Missing(s, kept)[k])]
  <2> DEFINE I == {k \in DOMAIN kept : kept[k].lsn > Len(records[s])}
  <2>1. I \in SUBSET DOMAIN kept /\ Missing(s, kept) = Kept(kept, I)
    BY DEF Missing
  <2> HIDE DEF I, out
  <2>2. PICK ms \in Seq(RetainedRecord) : ms = Missing(s, kept)
    BY <2>1, KeptProperties
  <2>3. \A j \in DOMAIN ms : \E k \in DOMAIN kept : ms[j] = kept[k]
    BY <2>1, <2>2, KeptProperties
  <2>4. /\ Len(ms) \in Nat /\ DOMAIN ms = 1..Len(ms)
        /\ \A j \in DOMAIN ms : ms[j] \in RetainedRecord
    BY LenProperties, ElementOfSeq
  <2>5. \A j \in DOMAIN ms : RecordMsg(p, s, ms[j]) \in Message
    BY <2>4 DEF RecordMsg, Message, RetainedRecord, Record
  <2>6. out = [k \in 1..Len(ms) |-> RecordMsg(p, s, ms[k])]
    BY <1>2, <2>2, <2>4
  <2>7. out \in Seq(Message)
    <3>1. out \in [1..Len(ms) -> Message]
      BY <2>4, <2>5, <2>6
    <3> QED BY <2>4, <3>1, FunctionIsSeq
  <2>8. \A j \in DOMAIN out : \E k \in DOMAIN kept : out[j] = RecordMsg(p, s, kept[k])
    BY <2>3, <2>4, <2>6
  <2> QED BY <2>7, <2>8 DEF out
<1>3. \/ out = <<BackupMsg(p, s, tl, records[p])>>
      \/ out = [k \in DOMAIN Missing(s, kept) |-> RecordMsg(p, s, Missing(s, kept)[k])]
  BY DEF Sync
<1> QED BY <1>1, <1>2, <1>3

----------------------------------------------------------------------------
(* The invariant *)

\* What the primary and every synchronous standby hold is durable.
SecuredInv == \A n \in Synchronous \cup {primary} : durable[n] = records[n]

\* Timelines start at 1, and no record and no message is of a later timeline
\* than the group's.
TimelineInv ==
  /\ timeline >= 1
  /\ \A n \in Node : /\ \A k \in 1..Len(records[n]) : records[n][k].timeline <= timeline
                     /\ \A k \in 1..Len(durable[n]) : durable[n][k].timeline <= timeline
  /\ \A m \in InFlight(queue) : m.timeline <= timeline

\* What is retained is what the primary holds, written on this timeline.
RetainedInv ==
  \A r \in InFlight(retained) :
    Has(records[primary], r.lsn, r.record) /\ r.record.timeline = timeline

\* The messages in flight of one type that are of this timeline.
Now(type) == {m \in InFlight(queue) : m.type = type /\ m.timeline = timeline}

\* Records and base backups on their way are the primary's.
ShippedInv ==
  /\ \A m \in Now("record") :
       /\ m.src = primary /\ m.dst # primary
       /\ Has(records[primary], m.lsn, [timeline |-> m.timeline, id |-> m.id])
  /\ \A m \in Now("backup") :
       m.src = primary /\ m.dst # primary /\ Begins(m.records, records[primary])

\* A base backup holds the records that are delivered before it.
OrderInv ==
  \A a \in Now("record"), b \in Now("backup") :
    Precedes(queue, a, b) => a.lsn <= Len(b.records)

\* Node s holds the primary's record of LSN l, and no base backup on its way
\* will take it back.
Confirmed(s, l) ==
  /\ l \in 1..Len(records[primary])
  /\ Has(records[s], l, records[primary][l])
  /\ \A m \in Now("backup") : m.dst = s => l <= Len(m.records)

\* Acknowledgements tell the truth as long as they count.  Those that were
\* received for an LSN that this timeline has not reached do not.
AcksInv ==
  /\ \A m \in Now("ack") : m.src \in Synchronous => Confirmed(m.src, m.lsn)
  /\ \A l \in Nat, s \in Synchronous :
       <<l, s>> \in flushAcks /\ l \in 1..Len(records[primary])
         /\ records[primary][l].timeline = timeline => Confirmed(s, l)

\* The QUORUM call that waits is for a record of this timeline.
ClientInv ==
  client # Idle =>
    Has(records[primary], client.lsn, client.record) /\ client.record.timeline = timeline

\* What was accepted on this timeline is confirmed by every synchronous standby.
AcceptedInv ==
  \A a \in accepted :
    /\ a.record.timeline <= timeline
    /\ a.record.timeline = timeline =>
         /\ Has(records[primary], a.lsn, a.record)
         /\ \A s \in Synchronous : Confirmed(s, a.lsn)

\* Before the first promotion all logs, on disk too, begin the primary's.
FirstInv ==
  timeline = 1 =>
    \A n \in Node : Begins(records[n], records[primary]) /\ Begins(durable[n], records[primary])

WalInv ==
  /\ TypeOK /\ SecuredInv /\ TimelineInv /\ RetainedInv /\ ShippedInv /\ OrderInv
  /\ AcksInv /\ ClientInv /\ AcceptedInv /\ FirstInv

----------------------------------------------------------------------------
(* What a step does that starts no timeline *)

Heading(h) == queue # <<>> /\ h = Head(queue)

\* The message h is a record that its standby applies, or a base backup.
Applied(h) == Heading(h) /\ h.type = "record" /\ Current(h) /\ Follows(h)
Restored(h) == Heading(h) /\ h.type = "backup" /\ Current(h)

SentRecord(m) ==
  \E s \in Node \ {primary}, r \in InFlight(retained') : m = RecordMsg(primary, s, r)
SentBackup(m) ==
  \E s \in Node \ {primary} : m = BackupMsg(primary, s, timeline, records[primary])
SentAck(m) ==
  \E h : /\ Applied(h) /\ m = FlushAckMsg(h.dst, primary, timeline, h.lsn)
         /\ records'[h.dst] = Append(records[h.dst], [timeline |-> h.timeline, id |-> h.id])

QueueStep ==
  /\ \A m \in InFlight(queue') :
       m \in InFlight(queue) \/ SentRecord(m) \/ SentBackup(m) \/ SentAck(m)
  /\ \A a, b : Precedes(queue', a, b) /\ a.type = "record" /\ b.type = "backup" =>
       Precedes(queue, a, b) \/ (a \in InFlight(queue) /\ SentBackup(b))

NodesStep ==
  /\ Begins(records[primary], records'[primary])
  /\ \A k \in 1..Len(records'[primary]) :
       \/ k <= Len(records[primary])
       \/ /\ records'[primary][k].timeline = timeline
          /\ \A s \in Node : <<k, s>> \notin flushAcks'
  /\ \A s \in Node \ {primary} :
       \/ records'[s] = records[s] \/ records'[s] = durable[s]
       \/ \E h : /\ Applied(h) /\ h.dst = s
                 /\ records'[s] = Append(records[s], [timeline |-> h.timeline, id |-> h.id])
       \/ \E h : Restored(h) /\ h.dst = s /\ records'[s] = h.records
  /\ \A s \in Node : durable'[s] \in {durable[s], records'[s]}
  /\ \A s \in Synchronous \cup {primary} :
       durable[s] = records[s] => durable'[s] = records'[s]

CountsStep ==
  /\ \A l \in Nat, s \in Node : <<l, s>> \in flushAcks' =>
       \/ <<l, s>> \in flushAcks
       \/ \E h : Heading(h) /\ h.type = "ack" /\ Counts(h) /\ h.src = s /\ h.lsn = l
  /\ \A r \in InFlight(retained') :
       \/ r \in InFlight(retained)
       \/ Has(records'[primary], r.lsn, r.record) /\ r.record.timeline = timeline
  /\ \/ client' = client \/ client' = Idle
     \/ /\ Has(records'[primary], client'.lsn, client'.record)
        /\ client'.record.timeline = timeline
  /\ \A a \in accepted' :
       \/ a \in accepted
       \/ client # Idle /\ Acknowledged /\ a = [lsn |-> client.lsn, record |-> client.record]

Summary ==
  /\ timeline' = timeline /\ primary' = primary
  /\ QueueStep /\ NodesStep /\ CountsStep

\* The messages out that a step adds, at the end of the queue or of its tail.
LEMMA Queued ==
  ASSUME TypeOK, NEW out \in Seq(Message),
         \/ queue' = queue \o out
         \/ queue # <<>> /\ queue' = Tail(queue) \o out,
         \/ \A m \in InFlight(out) : SentRecord(m) \/ SentAck(m)
         \/ \A m \in InFlight(out) : SentBackup(m)
  PROVE  queue' \in Seq(Message) /\ QueueStep
<1>1. PICK q \in Seq(Message) : queue' = q \o out /\ (q = queue \/ (queue # <<>> /\ q = Tail(queue)))
  BY QueueParts DEF TypeOK
<1>2. queue' \in Seq(Message)
  BY <1>1, ConcatProperties
<1>3. /\ InFlight(q) \subseteq InFlight(queue)
      /\ \A a, b : Precedes(q, a, b) => Precedes(queue, a, b)
  BY <1>1, TailOrder DEF TypeOK
<1>4. /\ InFlight(queue') \subseteq InFlight(q) \cup InFlight(out)
      /\ \A a, b : Precedes(queue', a, b) =>
           \/ Precedes(q, a, b)
           \/ a \in InFlight(q) /\ b \in InFlight(out)
           \/ Precedes(out, a, b)
  BY <1>1, ConcatOrder
<1>5. ASSUME NEW m
      PROVE  /\ SentRecord(m) => m.type = "record"
             /\ SentAck(m) => m.type = "ack"
             /\ SentBackup(m) => m.type = "backup"
  <2>1. SentRecord(m) => m.type = "record"
    BY DEF SentRecord, RecordMsg
  <2>2. SentAck(m) => m.type = "ack"
    BY DEF SentAck, FlushAckMsg
  <2>3. SentBackup(m) => m.type = "backup"
    BY DEF SentBackup, BackupMsg
  <2> QED BY <2>1, <2>2, <2>3
<1>6. \A a, b : Precedes(out, a, b) => a \in InFlight(out) /\ b \in InFlight(out)
  BY DEF Precedes, InFlight
<1>7. ASSUME NEW a, NEW b, Precedes(queue', a, b), a.type = "record", b.type = "backup"
      PROVE  Precedes(queue, a, b) \/ (a \in InFlight(queue) /\ SentBackup(b))
  BY <1>3, <1>4, <1>5, <1>6, <1>7
<1>8. \A m \in InFlight(queue') :
        m \in InFlight(queue) \/ SentRecord(m) \/ SentBackup(m) \/ SentAck(m)
  BY <1>3, <1>4
<1> QED BY <1>2, <1>7, <1>8 DEF QueueStep

\* What is sent over whole links, when all that is sent is of one kind.
LEMMA WiredQueued ==
  ASSUME TypeOK, NEW ms \in Seq(Message), NEW c,
         \/ queue' = queue \o Wired(ms, c)
         \/ queue # <<>> /\ queue' = Tail(queue) \o Wired(ms, c),
         \/ \A j \in DOMAIN ms : SentRecord(ms[j]) \/ SentAck(ms[j])
         \/ \A j \in DOMAIN ms : SentBackup(ms[j])
  PROVE  queue' \in Seq(Message) /\ QueueStep
<1>1. PICK out \in Seq(Message) :
        out = Wired(ms, c) /\ \A j \in DOMAIN out : \E i \in DOMAIN ms : out[j] = ms[i]
  BY WiredProperties
<1>2. \/ \A m \in InFlight(out) : SentRecord(m) \/ SentAck(m)
      \/ \A m \in InFlight(out) : SentBackup(m)
  BY <1>1 DEF InFlight
<1> QED BY <1>1, <1>2, Queued

\* Nothing is sent.
LEMMA NothingQueued ==
  ASSUME TypeOK, queue' = queue \/ (queue # <<>> /\ queue' = Tail(queue))
  PROVE  queue' \in Seq(Message) /\ QueueStep
<1>1. <<>> \in Seq(Message) /\ InFlight(<<>>) = {}
  BY DEF InFlight
<1>2. queue \in Seq(Message) /\ (queue # <<>> => Tail(queue) \in Seq(Message))
  BY QueueParts, <1>1 DEF TypeOK
<1>3. queue \o <<>> = queue /\ (queue # <<>> => Tail(queue) \o <<>> = Tail(queue))
  BY <1>2, ConcatEmptySeq
<1> QED BY <1>1, <1>3, Queued

----------------------------------------------------------------------------
(* The summary and the types, action by action *)

\* The deque keeps some of what is put into it, the last of it in any case.
LEMMA RetainProperties ==
  ASSUME NEW S, NEW kept \in Seq(S), Len(kept) <= Retention, NEW r \in S
  PROVE  /\ Retain(Append(kept, r)) \in Seq(S) /\ Len(Retain(Append(kept, r))) <= Retention
         /\ r \in InFlight(Retain(Append(kept, r)))
         /\ InFlight(Retain(Append(kept, r))) \subseteq InFlight(kept) \cup {r}
<1>1. Retain(Append(kept, r)) = Deque(Append(kept, r), Retention)
  BY DEF Retain, Deque
<1>2. Retention \in Nat \ {0}
  BY WalAssumption
<1> QED BY <1>1, <1>2, DequeProperties

\* A record is shipped to every standby.
LEMMA ShipProperties ==
  ASSUME NEW p \in Node, NEW r \in RetainedRecord,
         NEW out, out = [k \in DOMAIN PeersOf(p) |-> RecordMsg(p, PeersOf(p)[k], r)]
  PROVE  /\ out \in Seq(Message)
         /\ \A j \in DOMAIN out : \E s \in Node \ {p} : out[j] = RecordMsg(p, s, r)
<1>1. PICK ps \in Seq(Node \ {p}) : ps = PeersOf(p)
  BY WalAssumption, NodesInOrderProperties DEF PeersOf
<1>2. Len(ps) \in Nat /\ DOMAIN ps = 1..Len(ps) /\ \A k \in DOMAIN ps : ps[k] \in Node \ {p}
  BY LenProperties, ElementOfSeq
<1>3. out = [k \in 1..Len(ps) |-> RecordMsg(p, ps[k], r)]
  BY <1>1, <1>2
<1>4. \A k \in 1..Len(ps) : RecordMsg(p, ps[k], r) \in Message
  BY <1>2 DEF RecordMsg, Message, RetainedRecord, Record
<1>5. out \in [1..Len(ps) -> Message]
  BY <1>3, <1>4
<1>6. out \in Seq(Message)
  BY <1>2, <1>5, FunctionIsSeq
<1> QED BY <1>2, <1>3, <1>6

\* Messages as they arrive.
LEMMA HeadProperties ==
  ASSUME TypeOK, queue # <<>>
  PROVE  /\ Head(queue) \in Message /\ Head(queue) \in InFlight(queue)
         /\ Head(queue).dst \in Node /\ Head(queue).src \in Node /\ Head(queue).timeline \in Nat
         /\ Head(queue).type = "record" => Head(queue).lsn \in Nat /\ Head(queue).id \in Nat
         /\ Head(queue).type = "ack" => Head(queue).lsn \in Nat
         /\ Head(queue).type = "backup" => Head(queue).records \in Seq(Record)
<1>1. Head(queue) \in Message /\ Head(queue) \in InFlight(queue)
  BY QueueParts, EmptySeq DEF TypeOK
<1> QED BY <1>1 DEF Message

\* What the summary says of a step that leaves the nodes and the calls alone.
LEMMA SameNodes ==
  ASSUME TypeOK, UNCHANGED <<records, durable, primary, timeline>>
  PROVE  NodesStep
<1>1. PICK R \in Seq(Record) : R = records[primary]
  BY DEF TypeOK
<1>2. Begins(R, R) /\ Len(R) \in Nat
  BY LenProperties DEF Begins
<1> QED BY <1>1, <1>2 DEF NodesStep

\* The same of a step that leaves the calls and their counters alone.
LEMMA SameCounts ==
  ASSUME UNCHANGED <<flushAcks, retained, client, accepted>>
  PROVE  CountsStep
BY DEF CountsStep

\* A message that is dropped.
LEMMA DiscardSummary == ASSUME WalInv, Discard PROVE Summary /\ TypeOK'
<1>1. TypeOK /\ UNCHANGED <<nodeVars, groupVars, retained, flushAcks, cut, client, written, accepted>>
  BY DEF Discard, WalInv
<1>2. queue' \in Seq(Message) /\ QueueStep
  BY <1>1, NothingQueued DEF Discard
<1>3. NodesStep /\ CountsStep
  BY <1>1, SameNodes, SameCounts DEF nodeVars, groupVars
<1>4. TypeOK'
  BY <1>1, <1>2 DEF TypeOK, nodeVars, groupVars
<1> QED BY <1>1, <1>2, <1>3, <1>4 DEF Summary, groupVars

\* An acknowledgement.
LEMMA AckSummary == ASSUME WalInv, ReceiveAck PROVE Summary /\ TypeOK'
<1> DEFINE m == Head(queue)
<1>1. /\ TypeOK /\ queue # <<>> /\ m.type = "ack" /\ Counts(m) /\ queue' = Tail(queue)
      /\ flushAcks' = flushAcks \cup {<<m.lsn, m.src>>}
      /\ UNCHANGED <<nodeVars, groupVars, retained, cut, client, written, accepted>>
  BY DEF ReceiveAck, WalInv, Arrives
<1>2. queue' \in Seq(Message) /\ QueueStep
  BY <1>1, NothingQueued
<1>3. NodesStep
  BY <1>1, SameNodes DEF nodeVars, groupVars
<1>4. CountsStep
  BY <1>1 DEF CountsStep, Heading
<1>5. m.lsn \in Nat /\ m.src \in Node
  BY <1>1, HeadProperties
<1>6. flushAcks' \subseteq Nat \X Node
  BY <1>1, <1>5 DEF TypeOK
<1>7. TypeOK'
  BY <1>1, <1>2, <1>6 DEF TypeOK, nodeVars, groupVars
<1> QED BY <1>1, <1>2, <1>3, <1>4, <1>7 DEF Summary, groupVars

\* A record that follows.
LEMMA RecordSummary == ASSUME WalInv, ReceiveRecord PROVE Summary /\ TypeOK'
<1> DEFINE m == Head(queue)
           r == [timeline |-> m.timeline, id |-> m.id]
           s == m.dst
           rs == Append(records[s], r)
           ack == FlushAckMsg(m.dst, primary, timeline, m.lsn)
<1>1. /\ TypeOK /\ queue # <<>> /\ m.type = "record" /\ Current(m) /\ Follows(m)
      /\ records' = [records EXCEPT ![s] = rs]
      /\ nodeTimeline' = [nodeTimeline EXCEPT ![s] = m.timeline]
      /\ durable' = Flushed(s, rs)
      /\ queue' = Tail(queue) \o Wired(<<ack>>, cut)
      /\ UNCHANGED <<alive, groupVars, retained, flushAcks, cut, client, written, accepted>>
  BY DEF ReceiveRecord, WalInv, Arrives
<1>2. /\ m \in Message /\ m \in InFlight(queue) /\ s \in Node /\ m.src \in Node
      /\ m.timeline \in Nat /\ m.lsn \in Nat /\ m.id \in Nat
  BY <1>1, HeadProperties
<1>3. s # primary
  BY <1>1, <1>2 DEF WalInv, ShippedInv, Now, Current
<1>4. Applied(m)
  BY <1>1 DEF Applied, Heading
<1>5. primary \in Node /\ timeline \in Nat /\ records \in [Node -> Seq(Record)]
      /\ durable \in [Node -> Seq(Record)] /\ nodeTimeline \in [Node -> Nat]
  BY <1>1 DEF TypeOK
<1>6. r \in Record
  BY <1>2 DEF Record
<1>7. rs \in Seq(Record)
  BY <1>2, <1>5, <1>6, AppendProperties
<1>8. ack \in Message
  BY <1>2, <1>5 DEF FlushAckMsg, Message
<1>9. queue' \in Seq(Message) /\ QueueStep
  <2>0. records'[s] = rs
    BY <1>1, <1>2, <1>5
  <2>1. SentAck(ack)
    BY <1>4, <2>0 DEF SentAck
  <2> HIDE DEF ack
  <2>2. PICK ms \in Seq(Message) : ms = <<ack>> /\ \A j \in DOMAIN ms : ms[j] = ack
    BY <1>8, OneProperties
  <2>3. \A j \in DOMAIN ms : SentRecord(ms[j]) \/ SentAck(ms[j])
    BY <2>1, <2>2
  <2>4. queue' = Tail(queue) \o Wired(ms, cut)
    BY <1>1, <2>2
  <2> QED BY <1>1, <2>3, <2>4, WiredQueued
<1> HIDE DEF r, rs, ack
<1>10. NodesStep
  <2>1. PICK R \in Seq(Record) : R = records[primary] /\ R = records'[primary]
    BY <1>1, <1>3, <1>5
  <2>2. Begins(R, R) /\ Len(R) \in Nat
    BY LenProperties DEF Begins
  <2>3. \A n \in Node \ {s} : records'[n] = records[n] /\ durable'[n] = durable[n]
    BY <1>1, <1>2, <1>5 DEF Flushed
  <2>4. records'[s] = rs /\ durable'[s] = (IF s \in Synchronous THEN rs ELSE durable[s])
    BY <1>1, <1>2, <1>5 DEF Flushed
  <2>5. \E h : /\ Applied(h) /\ h.dst = s
               /\ records'[s] = Append(records[s], [timeline |-> h.timeline, id |-> h.id])
    BY <1>4, <2>4 DEF r, rs
  <2>6. Synchronous \subseteq Node
    BY WalAssumption DEF Node
  <2> HIDE DEF s, m
  <2>7. \A n \in Node : durable'[n] \in {durable[n], records'[n]}
    BY <1>2, <2>3, <2>4
  <2>8. \A n \in Synchronous \cup {primary} : durable[n] = records[n] => durable'[n] = records'[n]
    BY <1>3, <1>5, <2>3, <2>4, <2>6
  <2>9. \A n \in Node \ {primary} : n = s \/ records'[n] = records[n]
    BY <2>3
  <2> QED BY <2>1, <2>2, <2>5, <2>7, <2>8, <2>9 DEF NodesStep
<1>11. CountsStep
  BY <1>1, SameCounts DEF groupVars
<1>12. TypeOK'
  <2>1. records' \in [Node -> Seq(Record)] /\ nodeTimeline' \in [Node -> Nat]
        /\ durable' \in [Node -> Seq(Record)]
    BY <1>1, <1>2, <1>5, <1>7 DEF Flushed
  <2> QED BY <1>1, <1>9, <2>1 DEF TypeOK, groupVars
<1> QED BY <1>1, <1>9, <1>10, <1>11, <1>12 DEF Summary, groupVars

\* A base backup.
LEMMA BackupSummary == ASSUME WalInv, ReceiveBackup PROVE Summary /\ TypeOK'
<1> DEFINE m == Head(queue)
           s == m.dst
<1>1. /\ TypeOK /\ queue # <<>> /\ m.type = "backup" /\ Current(m)
      /\ records' = [records EXCEPT ![s] = m.records]
      /\ nodeTimeline' = [nodeTimeline EXCEPT ![s] = timeline]
      /\ durable' = Flushed(s, m.records)
      /\ queue' = Tail(queue)
      /\ UNCHANGED <<alive, groupVars, retained, flushAcks, cut, client, written, accepted>>
  BY DEF ReceiveBackup, WalInv, Arrives
<1>2. /\ m \in InFlight(queue) /\ s \in Node /\ m.records \in Seq(Record)
  BY <1>1, HeadProperties
<1>3. s # primary
  BY <1>1, <1>2 DEF WalInv, ShippedInv, Now, Current
<1>4. Restored(m)
  BY <1>1 DEF Restored, Heading
<1>5. primary \in Node /\ timeline \in Nat /\ records \in [Node -> Seq(Record)]
      /\ durable \in [Node -> Seq(Record)] /\ nodeTimeline \in [Node -> Nat]
  BY <1>1 DEF TypeOK
<1>9. queue' \in Seq(Message) /\ QueueStep
  BY <1>1, NothingQueued
<1>10. NodesStep
  <2>1. PICK R \in Seq(Record) : R = records[primary] /\ R = records'[primary]
    BY <1>1, <1>3, <1>5
  <2>2. Begins(R, R) /\ Len(R) \in Nat
    BY LenProperties DEF Begins
  <2>3. \A n \in Node \ {s} : records'[n] = records[n] /\ durable'[n] = durable[n]
    BY <1>1, <1>2, <1>5 DEF Flushed
  <2>4. records'[s] = m.records
        /\ durable'[s] = (IF s \in Synchronous THEN m.records ELSE durable[s])
    BY <1>1, <1>2, <1>5 DEF Flushed
  <2>5. \E h : Restored(h) /\ h.dst = s /\ records'[s] = h.records
    BY <1>4, <2>4
  <2>6. Synchronous \subseteq Node
    BY WalAssumption DEF Node
  <2> HIDE DEF s, m
  <2> QED BY <1>3, <1>5, <2>1, <2>2, <2>3, <2>4, <2>5, <2>6 DEF NodesStep
<1>11. CountsStep
  BY <1>1, SameCounts DEF groupVars
<1>12. TypeOK'
  <2>1. records' \in [Node -> Seq(Record)] /\ nodeTimeline' \in [Node -> Nat]
        /\ durable' \in [Node -> Seq(Record)]
    BY <1>1, <1>2, <1>5 DEF Flushed
  <2> QED BY <1>1, <1>9, <2>1 DEF TypeOK, groupVars
<1> QED BY <1>1, <1>9, <1>10, <1>11, <1>12 DEF Summary, groupVars

\* What _synchronize sends to a standby from the retained records.
LEMMA SyncQueued ==
  ASSUME TypeOK, UNCHANGED retained, NEW s \in Node \ {primary}, NEW c,
         \/ queue' = queue \o Wired(Sync(s, primary, timeline, retained), c)
         \/ /\ queue # <<>>
            /\ queue' = Tail(queue) \o Wired(Sync(s, primary, timeline, retained), c)
  PROVE  queue' \in Seq(Message) /\ QueueStep
<1>1. PICK ms \in Seq(Message) :
        /\ ms = Sync(s, primary, timeline, retained)
        /\ \/ \A j \in DOMAIN ms : \E k \in DOMAIN retained : ms[j] = RecordMsg(primary, s, retained[k])
           \/ \A j \in DOMAIN ms : ms[j] = BackupMsg(primary, s, timeline, records[primary])
  <2>1. records \in [Node -> Seq(Record)] /\ primary \in Node /\ timeline \in Nat
        /\ retained \in Seq(RetainedRecord)
    BY DEF TypeOK, RetainedRecord
  <2> QED BY <2>1, SyncProperties
<1>2. \/ \A j \in DOMAIN ms : SentRecord(ms[j])
      \/ \A j \in DOMAIN ms : SentBackup(ms[j])
  BY <1>1 DEF SentRecord, SentBackup, InFlight
<1> QED BY <1>1, <1>2, WiredQueued

\* A gap or a duplicate.
LEMMA OutOfOrderSummary == ASSUME WalInv, ReceiveOutOfOrder PROVE Summary /\ TypeOK'
<1> DEFINE m == Head(queue)
<1>1. /\ TypeOK /\ queue # <<>> /\ m.type = "record" /\ Current(m)
      /\ queue' = Tail(queue) \o Wired(Sync(m.dst, primary, timeline, retained), cut)
      /\ UNCHANGED <<nodeVars, groupVars, retained, flushAcks, cut, client, written, accepted>>
  BY DEF ReceiveOutOfOrder, WalInv, Arrives
<1>2. m \in InFlight(queue) /\ m.dst \in Node
  BY <1>1, HeadProperties
<1>3. m.dst \in Node \ {primary}
  BY <1>1, <1>2 DEF WalInv, ShippedInv, Now, Current
<1>4. queue' \in Seq(Message) /\ QueueStep
  BY <1>1, <1>3, SyncQueued
<1>5. NodesStep /\ CountsStep
  BY <1>1, SameNodes, SameCounts DEF nodeVars, groupVars
<1>6. TypeOK'
  BY <1>1, <1>4 DEF TypeOK, nodeVars, groupVars
<1> QED BY <1>1, <1>4, <1>5, <1>6 DEF Summary, groupVars

\* A write, whether its caller waits or not.
LEMMA WriteSummary ==
  ASSUME WalInv, WriteLeader \/ WriteQuorum
  PROVE  Summary /\ TypeOK'
<1> DEFINE p == primary
           lsn == Len(records[p]) + 1
           rec == [timeline |-> timeline, id |-> written + 1]
           r == [lsn |-> lsn, record |-> rec]
           rs == Append(records[p], rec)
           out == [k \in DOMAIN PeersOf(p) |-> RecordMsg(p, PeersOf(p)[k], r)]
<1>1. /\ TypeOK /\ client = Idle
      /\ records' = [records EXCEPT ![p] = rs]
      /\ nodeTimeline' = [nodeTimeline EXCEPT ![p] = timeline]
      /\ durable' = [durable EXCEPT ![p] = rs]
      /\ retained' = Retain(Append(retained, r))
      /\ flushAcks' = {a \in flushAcks : a[1] # lsn}
      /\ queue' = queue \o Wired(out, cut)
      /\ written' = written + 1
      /\ UNCHANGED <<alive, groupVars, cut, accepted>>
      /\ \/ client' = client
         \/ client' = [op |-> "write", lsn |-> Len(records'[p]), record |-> Last(records'[p])]
  BY DEF WriteLeader, WriteQuorum, Write, WalInv
<1>2. p \in Node /\ timeline \in Nat /\ records \in [Node -> Seq(Record)] /\ written \in Nat
      /\ durable \in [Node -> Seq(Record)] /\ nodeTimeline \in [Node -> Nat]
      /\ retained \in Seq(RetainedRecord) /\ Len(retained) <= Retention
      /\ flushAcks \subseteq Nat \X Node
  BY <1>1 DEF TypeOK, RetainedRecord
<1>3. rec \in Record
  BY <1>2 DEF Record
<1> HIDE DEF rec
<1>4. PICK R \in Seq(Record) : R = records[p]
  BY <1>2
<1>5. /\ Len(R) \in Nat /\ lsn = Len(R) + 1 /\ rs = Append(R, rec)
      /\ rs \in Seq(Record) /\ Len(rs) = Len(R) + 1 /\ rs[Len(R) + 1] = rec /\ Begins(R, rs)
  BY <1>3, <1>4, BeginsProperties
<1>6. r \in RetainedRecord /\ r.lsn = lsn /\ r.record = rec
  BY <1>3, <1>5 DEF RetainedRecord
<1> HIDE DEF lsn, rs
<1>7. /\ retained' \in Seq(RetainedRecord) /\ Len(retained') <= Retention
      /\ r \in InFlight(retained') /\ InFlight(retained') \subseteq InFlight(retained) \cup {r}
  <2> HIDE DEF r
  <2> QED BY <1>1, <1>2, <1>6, RetainProperties
<1>8. out \in Seq(Message) /\ \A j \in DOMAIN out : \E s \in Node \ {p} : out[j] = RecordMsg(p, s, r)
  <2> HIDE DEF r
  <2> QED BY <1>2, <1>6, ShipProperties
<1>9. queue' \in Seq(Message) /\ QueueStep
  <2> HIDE DEF r, out
  <2>1. \A j \in DOMAIN out : SentRecord(out[j])
    BY <1>7, <1>8 DEF SentRecord
  <2> QED BY <1>1, <1>8, <2>1, WiredQueued
<1> HIDE DEF out
<1>10. records'[p] = rs /\ durable'[p] = rs
       /\ \A n \in Node \ {p} : records'[n] = records[n] /\ durable'[n] = durable[n]
  BY <1>1, <1>2
<1>11. Has(rs, lsn, rec) /\ rec.timeline = timeline
  BY <1>5 DEF Has, rec
<1>12. NodesStep
  <2>1. \A k \in 1..Len(rs) : k <= Len(R) \/ k = lsn
    BY <1>5
  <2>2. \A s \in Node : <<lsn, s>> \notin flushAcks'
    BY <1>1
  <2>3. \A k \in 1..Len(rs) :
          k <= Len(R) \/ (rs[k].timeline = timeline /\ \A s \in Node : <<k, s>> \notin flushAcks')
    BY <1>5, <1>11, <2>1, <2>2
  <2>4. \A n \in Node : durable'[n] \in {durable[n], records'[n]}
    BY <1>10
  <2>5. Synchronous \subseteq Node
    BY WalAssumption DEF Node
  <2>6. \A n \in Synchronous \cup {primary} : durable[n] = records[n] => durable'[n] = records'[n]
    BY <1>2, <1>10, <2>5
  <2> QED BY <1>4, <1>5, <1>10, <2>3, <2>4, <2>6 DEF NodesStep
<1>13. CountsStep
  <2>1. flushAcks' \subseteq flushAcks
    BY <1>1
  <2>2. \A x \in InFlight(retained') :
          x \in InFlight(retained) \/ (Has(rs, x.lsn, x.record) /\ x.record.timeline = timeline)
    BY <1>6, <1>7, <1>11
  <2>3. \/ client' = client
        \/ Has(rs, client'.lsn, client'.record) /\ client'.record.timeline = timeline
    <3>1. Last(rs) = rec /\ Len(rs) = lsn
      BY <1>5 DEF Last
    <3> QED BY <1>1, <1>10, <1>11, <3>1
  <2> QED BY <1>1, <1>10, <2>1, <2>2, <2>3 DEF CountsStep
<1>14. TypeOK'
  <2>1. records' \in [Node -> Seq(Record)] /\ nodeTimeline' \in [Node -> Nat]
        /\ durable' \in [Node -> Seq(Record)] /\ flushAcks' \subseteq Nat \X Node
        /\ written' \in Nat
    BY <1>1, <1>2, <1>5
  <2>2. client' \in {Idle} \cup [op : {"write"}, lsn : Nat, record : Record]
    <3>1. Last(rs) = rec /\ Len(rs) \in Nat
      BY <1>5 DEF Last
    <3> QED BY <1>1, <1>3, <1>10, <3>1
  <2> QED BY <1>1, <1>7, <1>9, <2>1, <2>2 DEF TypeOK, groupVars, RetainedRecord
<1> QED BY <1>1, <1>9, <1>12, <1>13, <1>14 DEF Summary, groupVars

\* The end of a QUORUM call.
LEMMA ReturnsSummary == ASSUME WalInv, Returns PROVE Summary /\ TypeOK'
<1>1. /\ TypeOK /\ client # Idle /\ client' = Idle
      /\ UNCHANGED <<nodeVars, groupVars, retained, flushAcks, queue, cut, written>>
      /\ \/ accepted' = accepted
         \/ /\ Acknowledged
            /\ accepted' = accepted \cup {[lsn |-> client.lsn, record |-> client.record]}
  BY DEF Returns, WriteAccepted, WriteTimesOut, WalInv
<1>2. queue' \in Seq(Message) /\ QueueStep
  BY <1>1, NothingQueued
<1>3. NodesStep
  BY <1>1, SameNodes DEF nodeVars, groupVars
<1>4. CountsStep
  BY <1>1 DEF CountsStep
<1>5. client \in [op : {"write"}, lsn : Nat, record : Record]
  BY <1>1 DEF TypeOK
<1>6. TypeOK'
  <2>1. client.lsn \in Nat /\ client.record \in Record
    BY <1>5
  <2>2. [lsn |-> client.lsn, record |-> client.record] \in [lsn : Nat, record : Record]
    BY <2>1
  <2>3. accepted' \subseteq [lsn : Nat, record : Record]
    BY <1>1, <2>2 DEF TypeOK
  <2> QED BY <1>1, <1>2, <2>3 DEF TypeOK, nodeVars, groupVars
<1> QED BY <1>1, <1>2, <1>3, <1>4, <1>6 DEF Summary, groupVars

\* An fsync.
LEMMA FsyncSummary == ASSUME WalInv, NEW n \in Node, Fsync(n) PROVE Summary /\ TypeOK'
<1>1. /\ TypeOK /\ durable' = [durable EXCEPT ![n] = records[n]]
      /\ UNCHANGED <<alive, records, nodeTimeline, groupVars, retained, flushAcks, queue, cut,
                     client, written, accepted>>
  BY DEF Fsync, WalInv
<1>2. queue' \in Seq(Message) /\ QueueStep
  BY <1>1, NothingQueued
<1>3. durable \in [Node -> Seq(Record)] /\ records \in [Node -> Seq(Record)] /\ primary \in Node
  BY <1>1 DEF TypeOK
<1>4. durable'[n] = records'[n] /\ \A s \in Node \ {n} : durable'[s] = durable[s]
  BY <1>1, <1>3
<1>5. NodesStep
  <2>1. PICK R \in Seq(Record) : R = records[primary]
    BY <1>3
  <2>2. Begins(R, R) /\ Len(R) \in Nat
    BY LenProperties DEF Begins
  <2>3. \A s \in Node : durable'[s] \in {durable[s], records'[s]}
    BY <1>4
  <2>4. Synchronous \subseteq Node
    BY WalAssumption DEF Node
  <2>5. \A s \in Synchronous \cup {primary} : durable[s] = records[s] => durable'[s] = records'[s]
    BY <1>1, <1>3, <1>4, <2>4
  <2> QED BY <1>1, <2>1, <2>2, <2>3, <2>5 DEF NodesStep
<1>6. CountsStep
  BY <1>1, SameCounts
<1>7. TypeOK'
  BY <1>1, <1>2, <1>3 DEF TypeOK, groupVars
<1> QED BY <1>1, <1>2, <1>5, <1>6, <1>7 DEF Summary, groupVars

\* A node goes down, with its power or without.
LEMMA DownSummary ==
  ASSUME WalInv, NEW n \in Node, Crash(n) \/ PowerLoss(n)
  PROVE  Summary /\ TypeOK'
<1>1. PICK rs : /\ rs = records[n] \/ rs = durable[n]
                /\ GoesDown(n, rs)
  BY DEF Crash, PowerLoss
<1>2. /\ TypeOK /\ alive' = [alive EXCEPT ![n] = FALSE]
      /\ records' = [records EXCEPT ![n] = rs]
      /\ cut' = cut \cup LinksOf(n)
      /\ UNCHANGED <<nodeTimeline, durable, groupVars, retained, flushAcks, queue,
                     client, written, accepted>>
  BY <1>1 DEF GoesDown, WalInv
<1>3. queue' \in Seq(Message) /\ QueueStep
  BY <1>2, NothingQueued
<1>4. durable \in [Node -> Seq(Record)] /\ records \in [Node -> Seq(Record)] /\ primary \in Node
      /\ alive \in [Node -> BOOLEAN] /\ cut \subseteq Node \X Node
  BY <1>2 DEF TypeOK
<1>5. records'[n] = rs /\ \A s \in Node \ {n} : records'[s] = records[s]
  BY <1>2, <1>4
<1>6. \A s \in Synchronous \cup {primary} : durable[s] = records[s]
  BY DEF WalInv, SecuredInv
<1>7. records'[primary] = records[primary]
  BY <1>1, <1>4, <1>5, <1>6
<1>8. NodesStep
  <2>1. PICK R \in Seq(Record) : R = records[primary]
    BY <1>4
  <2>2. Begins(R, R) /\ Len(R) \in Nat
    BY LenProperties DEF Begins
  <2>3. \A s \in Node : durable'[s] = durable[s] /\ (records'[s] = records[s] \/ records'[s] = durable[s])
    BY <1>1, <1>2, <1>5
  <2>4. Synchronous \subseteq Node
    BY WalAssumption DEF Node
  <2>5. \A s \in Synchronous \cup {primary} : durable'[s] = records'[s]
    BY <1>4, <1>6, <2>3, <2>4
  <2> QED BY <1>7, <2>1, <2>2, <2>3, <2>5 DEF NodesStep
<1>9. CountsStep
  BY <1>2, SameCounts
<1>10. TypeOK'
  <2>1. records' \in [Node -> Seq(Record)]
    BY <1>1, <1>2, <1>4
  <2>2. alive' \in [Node -> BOOLEAN]
    BY <1>2, <1>4
  <2>3. cut' \subseteq Node \X Node
    BY <1>2, <1>4 DEF LinksOf
  <2> QED BY <1>2, <1>3, <2>1, <2>2, <2>3 DEF TypeOK, groupVars
<1> QED BY <1>2, <1>3, <1>8, <1>9, <1>10 DEF Summary, groupVars

\* A node comes up again, or its links are cut or restored.
LEMMA LinkSummary ==
  ASSUME WalInv, NEW n \in Node, Restart(n) \/ Isolate(n) \/ Heal(n)
  PROVE  Summary /\ TypeOK'
<1>1. /\ TypeOK
      /\ UNCHANGED <<records, nodeTimeline, durable, groupVars, retained, flushAcks,
                     client, written, accepted>>
      /\ alive' = alive \/ alive' = [alive EXCEPT ![n] = TRUE]
      /\ cut' = cut \cup LinksOf(n) \/ cut' = cut \ LinksOf(n)
      /\ queue' = queue \/ \E up : Synchronize(n, up, cut')
  BY DEF Restart, Isolate, Heal, WalInv, nodeVars
<1>2. queue' \in Seq(Message) /\ QueueStep
  <2>1. CASE queue' = queue
    BY <1>1, <2>1, NothingQueued
  <2>2. CASE queue' # queue
    <3>1. n # primary /\ queue' = queue \o Wired(Sync(n, primary, timeline, retained), cut')
      BY <1>1, <2>2 DEF Synchronize
    <3> DEFINE c == cut'
    <3>2. queue' = queue \o Wired(Sync(n, primary, timeline, retained), c)
      BY <3>1
    <3> HIDE DEF c
    <3> QED BY <1>1, <3>1, <3>2, SyncQueued
  <2> QED BY <2>1, <2>2
<1>3. NodesStep /\ CountsStep
  BY <1>1, SameNodes, SameCounts DEF groupVars
<1>4. TypeOK'
  <2>1. alive' \in [Node -> BOOLEAN]
    BY <1>1 DEF TypeOK
  <2>2. cut' \subseteq Node \X Node
    BY <1>1 DEF TypeOK, LinksOf
  <2> QED BY <1>1, <1>2, <2>1, <2>2 DEF TypeOK, groupVars
<1> QED BY <1>1, <1>2, <1>3, <1>4 DEF Summary, groupVars

\* Every step that starts no timeline is summed up.
LEMMA StepSummary ==
  ASSUME WalInv, [Next]_vars
  PROVE  (Summary /\ TypeOK') \/ \E n \in Node : Promote(n)
<1>1. CASE UNCHANGED vars
  <2>1. TypeOK /\ TypeOK' /\ queue' = queue
    BY <1>1 DEF WalInv, TypeOK, vars, nodeVars, groupVars
  <2>2. QueueStep
    BY <2>1, NothingQueued
  <2>3. NodesStep /\ CountsStep
    BY <1>1, <2>1, SameNodes, SameCounts DEF vars, nodeVars, groupVars
  <2> QED BY <1>1, <2>1, <2>2, <2>3 DEF Summary, vars, groupVars
<1>2. CASE Deliver
  BY <1>2, DiscardSummary, AckSummary, RecordSummary, OutOfOrderSummary, BackupSummary DEF Deliver
<1>3. CASE WriteLeader \/ WriteQuorum
  BY <1>3, WriteSummary
<1>4. CASE Returns
  BY <1>4, ReturnsSummary
<1>5. ASSUME NEW n \in Node,
             \/ Fsync(n) \/ Crash(n) \/ PowerLoss(n) \/ Restart(n)
             \/ Isolate(n) \/ Heal(n) \/ Promote(n)
      PROVE  (Summary /\ TypeOK') \/ \E k \in Node : Promote(k)
  BY <1>5, FsyncSummary, DownSummary, LinkSummary
<1> QED BY <1>1, <1>2, <1>3, <1>4, <1>5 DEF Next

----------------------------------------------------------------------------
(* The invariant is kept by a step that starts no timeline *)

\* The primary's log before and after the step.
LEMMA PrimaryLog ==
  ASSUME WalInv, Summary, TypeOK'
  PROVE  /\ primary \in Node /\ timeline \in Nat
         /\ records[primary] \in Seq(Record) /\ Len(records[primary]) \in Nat
         /\ records'[primary] \in Seq(Record) /\ Len(records'[primary]) \in Nat
         /\ Begins(records[primary], records'[primary])
         /\ \A l, r : Has(records[primary], l, r) => Has(records'[primary], l, r)
         /\ \A u : Len(u) \in Nat /\ Begins(u, records[primary]) => Begins(u, records'[primary])
<1>1. primary \in Node /\ timeline \in Nat /\ records \in [Node -> Seq(Record)]
      /\ records' \in [Node -> Seq(Record)]
  BY DEF WalInv, TypeOK, Summary
<1>2. PICK s, t \in Seq(Record) : s = records[primary] /\ t = records'[primary]
  BY <1>1
<1>3. Len(s) \in Nat /\ Len(t) \in Nat /\ Begins(s, t)
  BY <1>2, LenProperties DEF Summary, NodesStep
<1>4. /\ \A l, r : Has(s, l, r) => Has(t, l, r)
      /\ \A u : Len(u) \in Nat /\ Begins(u, s) => Begins(u, t)
  BY <1>3, HasBegins
<1> QED BY <1>1, <1>2, <1>3, <1>4

\* The messages in flight, old and new.
LEMMA InFlightTypes ==
  ASSUME TypeOK
  PROVE  \A m \in InFlight(queue) :
           /\ m \in Message /\ m.src \in Node /\ m.dst \in Node /\ m.timeline \in Nat
           /\ m.type = "record" => m.lsn \in Nat /\ m.id \in Nat
           /\ m.type = "ack" => m.lsn \in Nat
           /\ m.type = "backup" => m.records \in Seq(Record) /\ Len(m.records) \in Nat
<1>1. \A m \in InFlight(queue) : m \in Message
  BY ElementOfSeq, LenProperties DEF TypeOK, InFlight
<1>2. \A m \in Message : m.type = "backup" => m.records \in Seq(Record)
  BY DEF Message
<1> QED BY <1>1, <1>2, LenProperties DEF Message

\* A head that is applied or restored is the primary's.
LEMMA AppliedIsShipped ==
  ASSUME WalInv
  PROVE  /\ \A h : Applied(h) => h \in Now("record") /\ h.lsn = Len(records[h.dst]) + 1
         /\ \A h : Restored(h) => h \in Now("backup")
<1>1. ASSUME NEW h, Heading(h) PROVE h \in InFlight(queue)
  BY <1>1, HeadProperties DEF WalInv, Heading
<1> QED BY <1>1 DEF Applied, Restored, Now, Current, Follows

\* SecuredInv and RetainedInv are kept.
LEMMA SecuredStep ==
  ASSUME WalInv, Summary, TypeOK'
  PROVE  SecuredInv' /\ RetainedInv' /\ ClientInv'
<1>1. SecuredInv'
  BY DEF WalInv, SecuredInv, Summary, NodesStep
<1>2. RetainedInv'
  <2> SUFFICES ASSUME NEW r \in InFlight(retained')
               PROVE  Has(records'[primary], r.lsn, r.record) /\ r.record.timeline = timeline
    BY DEF RetainedInv, Summary
  <2> QED BY PrimaryLog DEF WalInv, RetainedInv, Summary, CountsStep
<1>3. ClientInv'
  <2> SUFFICES ASSUME client' # Idle
               PROVE  /\ Has(records'[primary], client'.lsn, client'.record)
                      /\ client'.record.timeline = timeline
    BY DEF ClientInv, Summary
  <2> QED BY PrimaryLog DEF WalInv, ClientInv, Summary, CountsStep
<1> QED BY <1>1, <1>2, <1>3

\* New messages, once the retained records are known to be the primary's.
LEMMA NewMessages ==
  ASSUME WalInv, Summary, TypeOK', RetainedInv', NEW m
  PROVE  /\ SentRecord(m) =>
              /\ m.type = "record" /\ m.src = primary /\ m.dst # primary /\ m.timeline = timeline
              /\ Has(records'[primary], m.lsn, [timeline |-> m.timeline, id |-> m.id])
         /\ SentBackup(m) =>
              /\ m.type = "backup" /\ m.src = primary /\ m.dst # primary
              /\ m.timeline = timeline /\ m.records = records[primary]
         /\ SentAck(m) => m.type = "ack" /\ m.timeline = timeline
<1>1. ASSUME SentRecord(m)
      PROVE  /\ m.type = "record" /\ m.src = primary /\ m.dst # primary /\ m.timeline = timeline
             /\ Has(records'[primary], m.lsn, [timeline |-> m.timeline, id |-> m.id])
  <2>1. PICK s \in Node \ {primary}, r \in InFlight(retained') : m = RecordMsg(primary, s, r)
    BY <1>1 DEF SentRecord
  <2>2. Has(records'[primary], r.lsn, r.record) /\ r.record.timeline = timeline
    BY <2>1 DEF RetainedInv, Summary
  <2>3. r.record \in Record
    <3>1. retained' \in Seq(RetainedRecord)
      BY DEF TypeOK, RetainedRecord
    <3>2. r \in RetainedRecord
      BY <3>1, ElementOfSeq, LenProperties DEF InFlight
    <3> QED BY <3>2 DEF RetainedRecord
  <2>4. r.record = [timeline |-> r.record.timeline, id |-> r.record.id]
    BY <2>3 DEF Record
  <2>5. /\ m.type = "record" /\ m.src = primary /\ m.dst = s /\ m.timeline = r.record.timeline
        /\ m.lsn = r.lsn /\ m.id = r.record.id
    BY <2>1 DEF RecordMsg
  <2> QED BY <2>2, <2>4, <2>5
<1>2. ASSUME SentBackup(m)
      PROVE  /\ m.type = "backup" /\ m.src = primary /\ m.dst # primary
             /\ m.timeline = timeline /\ m.records = records[primary]
  BY <1>2 DEF SentBackup, BackupMsg
<1>3. ASSUME SentAck(m) PROVE m.type = "ack" /\ m.timeline = timeline
  BY <1>3 DEF SentAck, FlushAckMsg
<1> QED BY <1>1, <1>2, <1>3

\* ShippedInv is kept.
LEMMA ShippedStep ==
  ASSUME WalInv, Summary, TypeOK', RetainedInv'
  PROVE  ShippedInv'
<1> SUFFICES ASSUME NEW m \in InFlight(queue'), m.timeline = timeline
             PROVE  /\ m.type = "record" =>
                         /\ m.src = primary /\ m.dst # primary
                         /\ Has(records'[primary], m.lsn, [timeline |-> m.timeline, id |-> m.id])
                    /\ m.type = "backup" =>
                         m.src = primary /\ m.dst # primary /\ Begins(m.records, records'[primary])
  BY DEF ShippedInv, Now, Summary
<1>1. CASE m \in InFlight(queue)
  <2>1. m.type = "backup" => Len(m.records) \in Nat
    BY <1>1, InFlightTypes DEF WalInv
  <2>2. /\ m.type = "record" =>
             /\ m.src = primary /\ m.dst # primary
             /\ Has(records[primary], m.lsn, [timeline |-> m.timeline, id |-> m.id])
        /\ m.type = "backup" =>
             m.src = primary /\ m.dst # primary /\ Begins(m.records, records[primary])
    BY <1>1 DEF WalInv, ShippedInv, Now
  <2> QED BY <2>1, <2>2, PrimaryLog
<1>2. CASE m \notin InFlight(queue)
  <2>1. SentRecord(m) \/ SentBackup(m) \/ SentAck(m)
    BY <1>2 DEF Summary, QueueStep
  <2> QED BY <2>1, NewMessages, PrimaryLog
<1> QED BY <1>1, <1>2

\* OrderInv is kept.
LEMMA OrderStep ==
  ASSUME WalInv, Summary, TypeOK', RetainedInv'
  PROVE  OrderInv'
<1> SUFFICES ASSUME NEW a, NEW b, Precedes(queue', a, b),
                    a.type = "record", a.timeline = timeline,
                    b.type = "backup", b.timeline = timeline
             PROVE  a.lsn <= Len(b.records)
  BY DEF OrderInv, Now, Summary
<1>1. CASE Precedes(queue, a, b)
  <2>1. a \in InFlight(queue) /\ b \in InFlight(queue)
    BY <1>1 DEF Precedes, InFlight
  <2> QED BY <1>1, <2>1 DEF WalInv, OrderInv, Now
<1>2. CASE a \in InFlight(queue) /\ SentBackup(b)
  <2>1. Has(records[primary], a.lsn, [timeline |-> a.timeline, id |-> a.id])
    BY <1>2 DEF WalInv, ShippedInv, Now
  <2>2. b.records = records[primary]
    BY <1>2, NewMessages
  <2> QED BY <2>1, <2>2, PrimaryLog DEF Has
<1> QED BY <1>1, <1>2 DEF Summary, QueueStep

\* What a synchronous standby has confirmed stays confirmed.
LEMMA ConfirmedKept ==
  ASSUME WalInv, Summary, TypeOK', RetainedInv', NEW s \in Synchronous, NEW l, Confirmed(s, l)
  PROVE  Confirmed(s, l)'
<1>1. PICK r : r = records[primary][l]
  OBVIOUS
<1>2. Has(records[primary], l, r) /\ Has(records'[primary], l, r) /\ Has(records[s], l, r)
  BY <1>1, PrimaryLog DEF Confirmed, Has
<1>3. s \in Node /\ records[s] \in Seq(Record)
  BY WalAssumption DEF WalInv, TypeOK, Node
<1>4. Has(records'[s], l, r)
  <2>1. CASE s = primary
    BY <1>2, <2>1
  <2>2. CASE records'[s] = records[s] \/ records'[s] = durable[s]
    BY <1>2, <2>2 DEF WalInv, SecuredInv
  <2>3. ASSUME NEW h, Applied(h), h.dst = s,
               records'[s] = Append(records[s], [timeline |-> h.timeline, id |-> h.id])
        PROVE  Has(records'[s], l, r)
    <3>1. h \in InFlight(queue)
      BY <2>3, AppliedIsShipped DEF Now
    <3>2. [timeline |-> h.timeline, id |-> h.id] \in Record
      BY <2>3, <3>1, InFlightTypes DEF WalInv, Record, Applied
    <3>3. PICK e \in Record : e = [timeline |-> h.timeline, id |-> h.id]
      BY <3>2
    <3>4. records'[s] = Append(records[s], e)
      BY <2>3, <3>3
    <3>5. /\ Len(records[s]) \in Nat /\ Len(records'[s]) = Len(records[s]) + 1
          /\ \A j \in 1..Len(records[s]) : records'[s][j] = records[s][j]
      BY <1>3, <3>4, AppendProperties, LenProperties
    <3> QED BY <1>2, <3>5 DEF Has
  <2>4. ASSUME NEW h, Restored(h), h.dst = s, records'[s] = h.records
        PROVE  Has(records'[s], l, r)
    <3>1. h \in Now("backup")
      BY <2>4, AppliedIsShipped
    <3>2. l <= Len(h.records) /\ Begins(h.records, records[primary])
      BY <2>4, <3>1 DEF Confirmed, WalInv, ShippedInv
    <3>3. Len(h.records) \in Nat
      BY <3>1, InFlightTypes DEF WalInv, Now
    <3> QED BY <1>2, <2>4, <3>2, <3>3, PrimaryLog DEF Has, Begins
  <2> QED BY <1>3, <2>1, <2>2, <2>3, <2>4 DEF Summary, NodesStep
<1>5. ASSUME NEW m \in InFlight(queue'), m.type = "backup", m.timeline = timeline, m.dst = s
      PROVE  l <= Len(m.records)
  <2>1. CASE m \in InFlight(queue)
    BY <1>5, <2>1 DEF Confirmed, Now
  <2>2. CASE SentBackup(m)
    <3>1. m.records = records[primary]
      BY <2>2, NewMessages
    <3>2. l \in 1..Len(records[primary]) /\ Len(records[primary]) \in Nat
      BY <1>2, PrimaryLog DEF Has
    <3> QED BY <3>1, <3>2
  <2>3. m \in InFlight(queue) \/ SentBackup(m)
    BY <1>5, NewMessages DEF Summary, QueueStep
  <2> QED BY <2>1, <2>2, <2>3
<1> QED BY <1>2, <1>4, <1>5 DEF Confirmed, Now, Summary, Has

\* A record that has just been applied is confirmed: a base backup that is
\* still to come was sent after the record.
LEMMA AppliedIsConfirmed ==
  ASSUME WalInv, Summary, TypeOK', RetainedInv', NEW h, Applied(h),
         records'[h.dst] = Append(records[h.dst], [timeline |-> h.timeline, id |-> h.id])
  PROVE  Confirmed(h.dst, h.lsn)'
<1>1. h \in Now("record") /\ h.lsn = Len(records[h.dst]) + 1 /\ h = Head(queue) /\ queue # <<>>
  BY AppliedIsShipped DEF Applied, Heading
<1>2. h \in InFlight(queue) /\ h.dst \in Node /\ h.timeline \in Nat /\ h.id \in Nat
  BY <1>1, InFlightTypes DEF WalInv, Now
<1>3. PICK e \in Record : e = [timeline |-> h.timeline, id |-> h.id]
  BY <1>2 DEF Record
<1>4. Has(records[primary], h.lsn, e) /\ Has(records'[primary], h.lsn, e)
  BY <1>1, <1>3, PrimaryLog DEF WalInv, ShippedInv
<1>5. PICK s \in Seq(Record) : s = records[h.dst]
  BY <1>2 DEF WalInv, TypeOK
<1>6. Has(records'[h.dst], h.lsn, e)
  <2>1. Len(s) \in Nat /\ Len(Append(s, e)) = Len(s) + 1 /\ Append(s, e)[Len(s) + 1] = e
    BY BeginsProperties
  <2> QED BY <1>1, <1>3, <1>5, <2>1 DEF Has
<1>7. ASSUME NEW m \in InFlight(queue'), m.type = "backup", m.timeline = timeline
      PROVE  h.lsn <= Len(m.records)
  <2>1. CASE m \in InFlight(queue)
    <3>1. m # Head(queue)
      BY <1>1, <1>7 DEF Now
    <3>2. queue \in Seq(Message)
      BY DEF WalInv, TypeOK
    <3>3. Precedes(queue, h, m)
      <4>1. Head(queue) = queue[1] /\ Len(queue) \in Nat /\ DOMAIN queue = 1..Len(queue)
            /\ Len(queue) # 0
        BY <1>1, <3>2, EmptySeq, LenProperties, HeadTailProperties
      <4>2. PICK v \in DOMAIN queue : queue[v] = m
        BY <2>1 DEF InFlight
      <4>3. 1 \in DOMAIN queue /\ 1 < v
        BY <3>1, <4>1, <4>2
      <4> QED BY <1>1, <4>1, <4>2, <4>3 DEF Precedes
    <3> QED BY <1>1, <1>7, <2>1, <3>3 DEF WalInv, OrderInv, Now
  <2>2. CASE SentBackup(m)
    <3>1. m.records = records[primary]
      BY <2>2, NewMessages
    <3>2. h.lsn \in 1..Len(records[primary]) /\ Len(records[primary]) \in Nat
      BY <1>4, PrimaryLog DEF Has
    <3> QED BY <3>1, <3>2
  <2>3. m \in InFlight(queue) \/ SentBackup(m)
    BY <1>7, NewMessages DEF Summary, QueueStep
  <2> QED BY <2>1, <2>2, <2>3
<1> QED BY <1>4, <1>6, <1>7 DEF Confirmed, Now, Summary, Has

\* AcksInv is kept.
LEMMA AcksStep ==
  ASSUME WalInv, Summary, TypeOK', RetainedInv'
  PROVE  AcksInv'
<1>1. ASSUME NEW m \in InFlight(queue'), m.type = "ack", m.timeline = timeline,
             m.src \in Synchronous
      PROVE  Confirmed(m.src, m.lsn)'
  <2>1. CASE m \in InFlight(queue)
    <3>1. Confirmed(m.src, m.lsn)
      BY <1>1, <2>1 DEF WalInv, AcksInv, Now
    <3> QED BY <1>1, <3>1, ConfirmedKept
  <2>2. CASE SentAck(m)
    <3>1. PICK h : /\ Applied(h) /\ m = FlushAckMsg(h.dst, primary, timeline, h.lsn)
                   /\ records'[h.dst]
                        = Append(records[h.dst], [timeline |-> h.timeline, id |-> h.id])
      BY <2>2 DEF SentAck
    <3>2. m.src = h.dst /\ m.lsn = h.lsn
      BY <3>1 DEF FlushAckMsg
    <3>3. Confirmed(h.dst, h.lsn)'
      BY <3>1, AppliedIsConfirmed
    <3> QED BY <3>2, <3>3
  <2>3. m \in InFlight(queue) \/ SentAck(m)
    BY <1>1, NewMessages DEF Summary, QueueStep
  <2> QED BY <2>1, <2>2, <2>3
<1>2. ASSUME NEW l \in Nat, NEW s \in Synchronous, <<l, s>> \in flushAcks',
             l \in 1..Len(records'[primary]), records'[primary][l].timeline = timeline
      PROVE  Confirmed(s, l)'
  <2>0. s \in Node
    BY WalAssumption DEF Node
  <2>1. l <= Len(records[primary])
    BY <1>2, <2>0 DEF Summary, NodesStep
  <2>2. l \in 1..Len(records[primary]) /\ records[primary][l] = records'[primary][l]
    BY <1>2, <2>1, PrimaryLog DEF Begins
  <2>3. CASE <<l, s>> \in flushAcks
    <3>1. Confirmed(s, l)
      BY <1>2, <2>2, <2>3 DEF WalInv, AcksInv
    <3> QED BY <3>1, ConfirmedKept
  <2>4. ASSUME NEW h, Heading(h), h.type = "ack", Counts(h), h.src = s, h.lsn = l
        PROVE  Confirmed(s, l)'
    <3>1. h \in Now("ack")
      BY <2>4, HeadProperties DEF WalInv, Heading, Now, Counts
    <3>2. Confirmed(s, l)
      BY <2>4, <3>1 DEF WalInv, AcksInv
    <3> QED BY <3>2, ConfirmedKept
  <2> QED BY <1>2, <2>0, <2>3, <2>4 DEF Summary, CountsStep
<1> QED BY <1>1, <1>2 DEF AcksInv, Now, Summary

\* AcceptedInv is kept: the call that returns had every acknowledgement.
LEMMA AcceptedStep ==
  ASSUME WalInv, Summary, TypeOK', RetainedInv'
  PROVE  AcceptedInv'
<1> SUFFICES ASSUME NEW a \in accepted'
             PROVE  /\ a.record.timeline <= timeline
                    /\ a.record.timeline = timeline =>
                         /\ Has(records'[primary], a.lsn, a.record)
                         /\ \A s \in Synchronous : Confirmed(s, a.lsn)'
  BY DEF AcceptedInv, Summary
<1>1. CASE a \in accepted
  BY <1>1, ConfirmedKept, PrimaryLog DEF WalInv, AcceptedInv
<1>2. CASE client # Idle /\ Acknowledged /\ a = [lsn |-> client.lsn, record |-> client.record]
  <2>1. a.lsn = client.lsn /\ a.record = client.record
    BY <1>2
  <2>2. Has(records[primary], a.lsn, a.record) /\ a.record.timeline = timeline
    BY <1>2, <2>1 DEF WalInv, ClientInv
  <2>3. ASSUME NEW s \in Synchronous PROVE Confirmed(s, a.lsn)
    <3>1. <<a.lsn, s>> \in flushAcks
      BY <1>2, <2>1 DEF Acknowledged
    <3>2. a.lsn \in Nat /\ a.lsn \in 1..Len(records[primary])
          /\ records[primary][a.lsn].timeline = timeline
      BY <2>2, PrimaryLog DEF Has
    <3> QED BY <3>1, <3>2 DEF WalInv, AcksInv
  <2>4. timeline <= timeline
    BY PrimaryLog
  <2> QED BY <2>2, <2>3, <2>4, ConfirmedKept, PrimaryLog
<1> QED BY <1>1, <1>2 DEF Summary, CountsStep

\* What a node's log is after the step: an old log of its own, one more
\* record of the primary's, or a base backup.
LEMMA LogsAfter ==
  ASSUME WalInv, Summary, TypeOK', RetainedInv', NEW n \in Node
  PROVE  /\ records'[n] \in Seq(Record) /\ durable'[n] \in {durable[n], records'[n]}
         /\ \/ n = primary
            \/ records'[n] = records[n] \/ records'[n] = durable[n]
            \/ \E e \in Record : /\ records'[n] = Append(records[n], e) /\ e.timeline = timeline
                                 /\ Has(records'[primary], Len(records[n]) + 1, e)
            \/ Begins(records'[n], records[primary])
<1>1. records'[n] \in Seq(Record) /\ durable'[n] \in {durable[n], records'[n]}
  BY DEF TypeOK, Summary, NodesStep
<1>2. ASSUME NEW h, Applied(h), h.dst = n,
             records'[n] = Append(records[n], [timeline |-> h.timeline, id |-> h.id])
      PROVE  \E e \in Record : /\ records'[n] = Append(records[n], e) /\ e.timeline = timeline
                               /\ Has(records'[primary], Len(records[n]) + 1, e)
  <2>1. h \in Now("record") /\ h.lsn = Len(records[n]) + 1
    BY <1>2, AppliedIsShipped
  <2>2. h.timeline \in Nat /\ h.id \in Nat /\ h.timeline = timeline
    BY <2>1, InFlightTypes DEF WalInv, Now
  <2>3. PICK e \in Record : e = [timeline |-> h.timeline, id |-> h.id]
    BY <2>2 DEF Record
  <2>4. e.timeline = timeline
    BY <2>2, <2>3
  <2>5. Has(records'[primary], h.lsn, e)
    BY <2>1, <2>3, PrimaryLog DEF WalInv, ShippedInv
  <2> QED BY <1>2, <2>1, <2>3, <2>4, <2>5
<1>3. ASSUME NEW h, Restored(h), h.dst = n, records'[n] = h.records
      PROVE  Begins(records'[n], records[primary])
  BY <1>3, AppliedIsShipped DEF WalInv, ShippedInv
<1> QED BY <1>1, <1>2, <1>3 DEF Summary, NodesStep

\* TimelineInv is kept.
LEMMA TimelineStep ==
  ASSUME WalInv, Summary, TypeOK', RetainedInv'
  PROVE  TimelineInv'
<1>1. /\ \A n \in Node : /\ \A k \in 1..Len(records[n]) : records[n][k].timeline <= timeline
                         /\ \A k \in 1..Len(durable[n]) : durable[n][k].timeline <= timeline
      /\ \A m \in InFlight(queue) : m.timeline <= timeline
      /\ timeline' = timeline /\ timeline <= timeline /\ timeline >= 1
  BY PrimaryLog DEF WalInv, TimelineInv, Summary
<1>2. ASSUME NEW n \in Node
      PROVE  /\ \A k \in 1..Len(records'[n]) : records'[n][k].timeline <= timeline
             /\ \A k \in 1..Len(durable'[n]) : durable'[n][k].timeline <= timeline
  <2>1. \A k \in 1..Len(records'[primary]) : records'[primary][k].timeline <= timeline
    BY <1>1, PrimaryLog DEF Begins, Summary, NodesStep
  <2>2. ASSUME NEW e \in Record, records'[n] = Append(records[n], e), e.timeline = timeline
        PROVE  \A k \in 1..Len(records'[n]) : records'[n][k].timeline <= timeline
    <3>1. PICK s \in Seq(Record) : s = records[n]
      BY DEF WalInv, TypeOK
    <3>2. /\ Len(s) \in Nat /\ Len(Append(s, e)) = Len(s) + 1 /\ Append(s, e)[Len(s) + 1] = e
          /\ \A j \in 1..Len(s) : Append(s, e)[j] = s[j]
      BY AppendProperties, LenProperties
    <3> QED BY <1>1, <2>2, <3>1, <3>2
  <2>3. ASSUME Begins(records'[n], records[primary])
        PROVE  \A k \in 1..Len(records'[n]) : records'[n][k].timeline <= timeline
    <3>1. Len(records'[n]) \in Nat
      BY LogsAfter, LenProperties
    <3> QED BY <1>1, <2>3, <3>1, PrimaryLog DEF Begins
  <2>4. \A k \in 1..Len(records'[n]) : records'[n][k].timeline <= timeline
    BY <1>1, <2>1, <2>2, <2>3, LogsAfter
  <2> QED BY <1>1, <2>4, LogsAfter
<1>3. ASSUME NEW m \in InFlight(queue') PROVE m.timeline <= timeline
  <2>1. m \in InFlight(queue) \/ m.timeline = timeline
    BY NewMessages DEF Summary, QueueStep
  <2> QED BY <1>1, <2>1
<1> QED BY <1>1, <1>2, <1>3 DEF TimelineInv

\* FirstInv is kept.
LEMMA FirstStep ==
  ASSUME WalInv, Summary, TypeOK', RetainedInv'
  PROVE  FirstInv'
<1> SUFFICES ASSUME timeline = 1, NEW n \in Node
             PROVE  /\ Begins(records'[n], records'[primary])
                    /\ Begins(durable'[n], records'[primary])
  BY DEF FirstInv, Summary
<1>1. PICK s, d \in Seq(Record) : s = records[n] /\ d = durable[n]
  BY DEF WalInv, TypeOK
<1>2. Len(s) \in Nat /\ Len(d) \in Nat /\ Len(records'[n]) \in Nat
  BY LogsAfter, LenProperties
<1>3. Begins(s, records'[primary]) /\ Begins(d, records'[primary])
  BY <1>1, <1>2, PrimaryLog DEF WalInv, FirstInv
<1>4. Begins(records'[n], records'[primary])
  <2>1. CASE n = primary
    BY <2>1, PrimaryLog DEF Begins
  <2>2. ASSUME NEW e \in Record, records'[n] = Append(s, e),
               Has(records'[primary], Len(s) + 1, e)
        PROVE  Begins(records'[n], records'[primary])
    <3>1. /\ Len(Append(s, e)) = Len(s) + 1 /\ Append(s, e)[Len(s) + 1] = e
          /\ \A j \in 1..Len(s) : Append(s, e)[j] = s[j]
      BY AppendProperties
    <3> QED BY <1>2, <1>3, <2>2, <3>1, PrimaryLog DEF Begins, Has
  <2>3. CASE Begins(records'[n], records[primary])
    BY <1>2, <2>3, PrimaryLog
  <2> QED BY <1>1, <1>3, <2>1, <2>2, <2>3, LogsAfter
<1> QED BY <1>1, <1>3, <1>4, LogsAfter

\* The invariant is kept by every step that starts no timeline.
LEMMA SummaryStep == ASSUME WalInv, Summary, TypeOK' PROVE WalInv'
<1>1. SecuredInv' /\ RetainedInv' /\ ClientInv'
  BY SecuredStep
<1>2. TimelineInv' /\ ShippedInv' /\ OrderInv' /\ AcksInv' /\ AcceptedInv' /\ FirstInv'
  BY <1>1, TimelineStep, ShippedStep, OrderStep, AcksStep, AcceptedStep, FirstStep
<1> QED BY <1>1, <1>2 DEF WalInv

----------------------------------------------------------------------------
(* A promotion *)

\* Its only messages of the new timeline are base backups of the new primary.
LEMMA PromoteParts ==
  ASSUME WalInv, NEW n \in Node, Promote(n)
  PROVE  /\ TypeOK'
         /\ \A m \in InFlight(queue') :
              \/ m \in InFlight(queue)
              \/ \E s \in Node \ {n} : m = BackupMsg(n, s, timeline + 1, records[n])
<1> DEFINE S == {s \in Node \ {n} : alive[s]}
           ss == NodesInOrder(S)
           outs == [k \in DOMAIN ss |-> Sync(ss[k], n, timeline + 1, <<>>)]
<1>1. /\ TypeOK
      /\ client = Idle /\ timeline' = timeline + 1 /\ primary' = n
      /\ nodeTimeline' = [nodeTimeline EXCEPT ![n] = timeline + 1]
      /\ retained' = <<>>
      /\ durable' = Secured(n)
      /\ queue' = queue \o Wired(FlattenSeq(outs), cut)
      /\ UNCHANGED <<alive, records, flushAcks, cut, client, written, accepted>>
  BY DEF Promote, WalInv
<1>2. /\ records \in [Node -> Seq(Record)] /\ timeline + 1 \in Nat /\ queue \in Seq(Message)
      /\ durable \in [Node -> Seq(Record)] /\ nodeTimeline \in [Node -> Nat]
  BY <1>1 DEF TypeOK
<1>3. ss \in Seq(S) /\ S \subseteq Node \ {n}
  BY WalAssumption, NodesInOrderProperties
<1> HIDE DEF ss, S
<1>4. Len(ss) \in Nat /\ DOMAIN ss = 1..Len(ss) /\ \A k \in DOMAIN ss : ss[k] \in Node \ {n}
  BY <1>3, LenProperties, ElementOfSeq
<1>5. ASSUME NEW s \in Node \ {n}
      PROVE  /\ Sync(s, n, timeline + 1, <<>>) \in Seq(Message)
             /\ \A j \in DOMAIN Sync(s, n, timeline + 1, <<>>) :
                  Sync(s, n, timeline + 1, <<>>)[j] = BackupMsg(n, s, timeline + 1, records[n])
  <2>0. <<>> \in Seq(RetainedRecord) /\ DOMAIN <<>> = {}
    OBVIOUS
  <2>1. PICK kept \in Seq(RetainedRecord) : kept = <<>> /\ DOMAIN kept = {}
    BY <2>0
  <2>2. /\ Sync(s, n, timeline + 1, kept) \in Seq(Message)
        /\ \/ \A j \in DOMAIN Sync(s, n, timeline + 1, kept) :
                \E k \in DOMAIN kept :
                  Sync(s, n, timeline + 1, kept)[j] = RecordMsg(n, s, kept[k])
           \/ \A j \in DOMAIN Sync(s, n, timeline + 1, kept) :
                Sync(s, n, timeline + 1, kept)[j] = BackupMsg(n, s, timeline + 1, records[n])
    BY <1>2, SyncProperties
  <2> QED BY <2>1, <2>2
<1>6. /\ outs \in Seq(Seq(Message)) /\ DOMAIN outs = DOMAIN ss
      /\ \A k \in DOMAIN outs : outs[k] = Sync(ss[k], n, timeline + 1, <<>>)
  <2>1. outs \in [1..Len(ss) -> Seq(Message)]
    BY <1>4, <1>5
  <2> QED BY <1>4, <2>1, FunctionIsSeq
<1> HIDE DEF outs
<1>7. PICK all \in Seq(Message) :
        /\ all = FlattenSeq(outs)
        /\ \A j \in DOMAIN all : \E i \in DOMAIN outs : \E k \in DOMAIN outs[i] :
             all[j] = outs[i][k]
  BY <1>6, FlattenProperties DEF Gathers
<1>8. \A j \in DOMAIN all : \E s \in Node \ {n} :
        all[j] = BackupMsg(n, s, timeline + 1, records[n])
  BY <1>4, <1>5, <1>6, <1>7
<1>9. PICK wired \in Seq(Message) :
        wired = Wired(all, cut) /\ \A j \in DOMAIN wired : \E i \in DOMAIN all : wired[j] = all[i]
  BY <1>7, WiredProperties
<1>10. queue' = queue \o wired /\ queue' \in Seq(Message)
  BY <1>1, <1>2, <1>7, <1>9, ConcatProperties
<1>11. InFlight(queue') \subseteq InFlight(queue) \cup InFlight(wired)
  BY <1>2, <1>10, ConcatOrder
<1>12. \A m \in InFlight(wired) : \E s \in Node \ {n} :
         m = BackupMsg(n, s, timeline + 1, records[n])
  BY <1>8, <1>9 DEF InFlight
<1>13. TypeOK'
  <2>1. durable' \in [Node -> Seq(Record)] /\ nodeTimeline' \in [Node -> Nat]
    BY <1>1, <1>2 DEF Secured
  <2>2. retained' \in Seq(RetainedRecord) /\ Len(retained') <= Retention
    BY <1>1, WalAssumption
  <2> QED BY <1>1, <1>2, <1>10, <2>1, <2>2 DEF TypeOK, RetainedRecord
<1> QED BY <1>11, <1>12, <1>13

\* The invariant is kept: nothing in the logs, in the queue or accepted is of
\* the new timeline, but for the base backups.
LEMMA PromoteStep == ASSUME WalInv, NEW n \in Node, Promote(n) PROVE WalInv'
<1>1. /\ TypeOK /\ TypeOK'
      /\ client = Idle /\ timeline' = timeline + 1 /\ primary' = n
      /\ retained' = <<>>
      /\ durable' = [durable EXCEPT ![n] = records[n]]
      /\ UNCHANGED <<alive, records, flushAcks, cut, client, written, accepted>>
  BY PromoteParts DEF Promote, WalInv, Secured
<1>2. /\ timeline \in Nat /\ timeline >= 1 /\ records \in [Node -> Seq(Record)]
      /\ durable \in [Node -> Seq(Record)] /\ Synchronous \subseteq Node
  BY <1>1, WalAssumption DEF WalInv, TimelineInv, TypeOK, Node
<1>3. durable'[n] = records[n] /\ \A s \in Node \ {n} : durable'[s] = durable[s]
  BY <1>1, <1>2
<1>4. /\ \A s \in Node : \A k \in 1..Len(records[s]) :
           records[s][k].timeline \in Nat /\ records[s][k].timeline <= timeline
      /\ \A s \in Node : \A k \in 1..Len(durable[s]) :
           durable[s][k].timeline \in Nat /\ durable[s][k].timeline <= timeline
  <2>0. \A rs \in Seq(Record) : \A k \in 1..Len(rs) : rs[k] \in Record
    BY ElementOfSeq
  <2>1. \A rs \in Seq(Record) : \A k \in 1..Len(rs) : rs[k].timeline \in Nat
    BY <2>0 DEF Record
  <2> QED BY <1>2, <2>1 DEF WalInv, TimelineInv
<1>5. ASSUME NEW m \in InFlight(queue')
      PROVE  \/ m.timeline \in Nat /\ m.timeline <= timeline
             \/ /\ m.type = "backup" /\ m.src = n /\ m.dst # n /\ m.timeline = timeline + 1
                /\ m.records = records[n]
  <2>1. CASE m \in InFlight(queue)
    BY <1>1, <2>1, InFlightTypes DEF WalInv, TimelineInv
  <2>2. CASE \E s \in Node \ {n} : m = BackupMsg(n, s, timeline + 1, records[n])
    BY <2>2 DEF BackupMsg
  <2> QED BY <2>1, <2>2, PromoteParts
<1>6. \A m \in Now("record")' \cup Now("ack")' : FALSE
  BY <1>1, <1>2, <1>5 DEF Now
<1>7. SecuredInv'
  BY <1>1, <1>2, <1>3 DEF WalInv, SecuredInv
<1>8. TimelineInv'
  <2>1. \A s \in Node : /\ \A k \in 1..Len(records'[s]) : records'[s][k].timeline <= timeline'
                        /\ \A k \in 1..Len(durable'[s]) : durable'[s][k].timeline <= timeline'
    <3>1. \A i \in Nat : i <= timeline => i <= timeline'
      BY <1>1, <1>2
    <3>2. \A s \in Node : records'[s] = records[s] /\ durable'[s] \in {durable[s], records[s]}
      BY <1>1, <1>3
    <3> QED BY <1>4, <3>1, <3>2
  <2>2. \A m \in InFlight(queue') : m.timeline <= timeline'
    BY <1>1, <1>2, <1>5
  <2> QED BY <1>1, <1>2, <2>1, <2>2 DEF TimelineInv
<1>9. RetainedInv' /\ ClientInv'
  BY <1>1 DEF RetainedInv, ClientInv, InFlight
<1>10. ShippedInv' /\ OrderInv'
  <2>1. Begins(records[n], records[n])
    BY <1>2, LenProperties DEF Begins
  <2>2. \A m \in Now("backup")' :
          m.src = primary' /\ m.dst # primary' /\ Begins(m.records, records'[primary'])
    BY <1>1, <1>2, <1>5, <2>1 DEF Now
  <2> QED BY <1>6, <2>2 DEF ShippedInv, OrderInv
<1>11. AcksInv'
  <2>1. \A l \in 1..Len(records'[primary']) : records'[primary'][l].timeline # timeline'
    BY <1>1, <1>2, <1>4
  <2> QED BY <1>6, <2>1 DEF AcksInv
<1>12. AcceptedInv'
  <2>1. \A a \in accepted : a.record.timeline \in Nat /\ a.record.timeline <= timeline
    BY <1>1 DEF WalInv, AcceptedInv, TypeOK, Record
  <2> QED BY <1>1, <1>2, <2>1 DEF AcceptedInv
<1>13. FirstInv'
  BY <1>1, <1>2 DEF FirstInv
<1> QED BY <1>1, <1>7, <1>8, <1>9, <1>10, <1>11, <1>12, <1>13 DEF WalInv

----------------------------------------------------------------------------
(* The theorems *)

\* The invariant holds of the first state: every log is empty.
LEMMA InitInv == ASSUME Init PROVE WalInv
<1>1. /\ <<>> \in Seq(Record) /\ <<>> \in Seq(Message) /\ <<>> \in Seq(RetainedRecord)
      /\ Len(<<>>) = 0 /\ InFlight(<<>>) = {} /\ 1..0 = {}
  BY DEF InFlight
<1>2. TypeOK
  BY <1>1, WalAssumption DEF Init, TypeOK, Node, RetainedRecord
<1>3. SecuredInv /\ TimelineInv /\ RetainedInv /\ ClientInv /\ AcceptedInv
  <2>1. Synchronous \subseteq Node /\ primary \in Node
    BY WalAssumption DEF Init, Node
  <2> QED BY <1>1, <2>1 DEF Init, SecuredInv, TimelineInv, RetainedInv, ClientInv, AcceptedInv
<1>4. ShippedInv /\ OrderInv /\ AcksInv
  BY <1>1 DEF Init, ShippedInv, OrderInv, AcksInv, Now
<1>5. FirstInv
  BY <1>1, WalAssumption DEF Init, FirstInv, Begins, Node
<1> QED BY <1>2, <1>3, <1>4, <1>5 DEF WalInv

\* Every step keeps the invariant.
LEMMA NextInv == ASSUME WalInv, [Next]_vars PROVE WalInv'
BY StepSummary, SummaryStep, PromoteStep

\* WalInv is an invariant of the group.
THEOREM WalInvHolds == Spec => []WalInv
<1>1. Init => WalInv
  BY InitInv
<1>2. WalInv /\ [Next]_vars => WalInv'
  BY NextInv
<1> QED BY <1>1, <1>2, PTL DEF Spec

\* The group's state keeps its types, and the deque its bound.
THEOREM TypeCorrect == Spec => []TypeOK
<1>1. WalInv => TypeOK
  BY DEF WalInv
<1> QED BY <1>1, WalInvHolds, PTL

\* Nothing that the primary has acknowledged is lost with its power.
THEOREM PrimaryIsFlushedHolds == Spec => []PrimaryIsFlushed
<1>1. WalInv => PrimaryIsFlushed
  BY DEF WalInv, SecuredInv, PrimaryIsFlushed
<1> QED BY <1>1, WalInvHolds, PTL

\* What was accepted on this timeline, seen from a synchronous standby.
LEMMA AcceptedIsHeld ==
  ASSUME WalInv, NEW a \in accepted, a.record.timeline = timeline, NEW s \in Synchronous
  PROVE  HoldsIn(durable[s], a) /\ HoldsIn(records[s], a)
<1>1. Has(records[primary], a.lsn, a.record) /\ Confirmed(s, a.lsn)
  BY DEF WalInv, AcceptedInv
<1>2. durable[s] = records[s] /\ s \in Node
  BY WalAssumption DEF WalInv, SecuredInv, Node
<1>3. Len(records[s]) \in Nat
  BY <1>2, LenProperties DEF WalInv, TypeOK
<1> QED BY <1>1, <1>2, <1>3 DEF Confirmed, Has, HoldsIn

\* A QUORUM write accepted on the current timeline is durable on every
\* synchronous standby: FlushAcknowledgement counts for what it says.
THEOREM QuorumOnCandidatesHolds == Spec => []QuorumOnCandidates
<1>1. WalInv => QuorumOnCandidates
  BY AcceptedIsHeld DEF QuorumOnCandidates
<1> QED BY <1>1, WalInvHolds, PTL

\* promote of a synchronous standby takes every QUORUM write along.
THEOREM PromotionKeepsQuorumHolds == Spec => PromotionKeepsQuorum
<1>1. ASSUME WalInv, [Next]_vars, primary' # primary, primary' \in Synchronous,
             NEW a \in accepted, a.record.timeline = timeline
      PROVE  HoldsIn(records'[primary'], a)
  <2>1. PICK n \in Node : Promote(n)
    BY <1>1, StepSummary DEF Summary
  <2>2. records' = records
    BY <2>1 DEF Promote
  <2> QED BY <1>1, <2>2, AcceptedIsHeld
<1>2. WalInv /\ [Next]_vars =>
        [primary' # primary /\ primary' \in Synchronous =>
           \A a \in accepted : a.record.timeline = timeline => HoldsIn(records'[primary'], a)]_vars
  BY <1>1
<1> QED BY <1>2, WalInvHolds, PTL DEF Spec, PromotionKeepsQuorum

\* Until the first promote call every log is a prefix of the primary's.
THEOREM PrefixBeforePromotionHolds == Spec => []PrefixBeforePromotion
<1>1. ASSUME WalInv, timeline = 1, NEW s \in Node
      PROVE  IsPrefix(records[s], records[primary])
  <2>1. records[s] \in Seq(Record) /\ records[primary] \in Seq(Record)
    BY <1>1 DEF WalInv, TypeOK
  <2>2. Begins(records[s], records[primary])
    BY <1>1 DEF WalInv, FirstInv
  <2> QED BY <2>1, <2>2, PrefixProperties
<1>2. WalInv => PrefixBeforePromotion
  BY <1>1 DEF PrefixBeforePromotion
<1> QED BY <1>2, WalInvHolds, PTL

=============================================================================
