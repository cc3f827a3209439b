------------------------------ MODULE IsrProofs ------------------------------
(***************************************************************************)
(* Theorems about Isr for any number of nodes, any timeouts and any         *)
(* retention.  In every behaviour what is applied is a prefix of the log.   *)
(* In orderly ones, where no leader loses or leaves behind what it wrote,   *)
(* the in-sync set holds what is committed and accepted writes stay.        *)
(***************************************************************************)
EXTENDS Isr, NetworkProofs

RetainedEntry == [offset : Nat, entry : Entry]

----------------------------------------------------------------------------
(* The invariant of every behaviour *)

\* Messages are due in the order in which they wait, after Delay ticks at most.
WaitsIn(q) ==
  /\ \A a \in DOMAIN q : q[a].wait <= Delay
  /\ \A a, b \in DOMAIN q : a < b => q[a].wait <= q[b].wait
WaitsInv == WaitsIn(queue)

\* What is applied is below the watermark and starts the node's log.
AppliedInv == \A n \in Node : Len(applied[n]) <= hw /\ Begins(applied[n], log[n])

\* A message goes to another node, is of an epoch that has begun, and if it is
\* a snapshot it is not ahead of the watermark.
MessagesInv ==
  \A m \in InFlight(queue) :
    m.src # m.dst /\ m.epoch <= epoch /\ (m.type = "snapshot" => m.hw <= hw)

IsrInv == TypeOK /\ WaitsInv /\ AppliedInv /\ MessagesInv

----------------------------------------------------------------------------
(* The invariant of orderly behaviours *)

\* An orderly step elects a leader only when all that the old one has is below
\* the watermark, and takes nothing from the leader's log.
Orderly ==
  /\ epoch' # epoch => Len(log[leader]) <= hw
  /\ Len(log'[leader]) >= Len(log[leader])

\* Every log, in memory or on disk, starts the leader's.
LogsInv == \A n \in Node : Begins(log[n], log[leader]) /\ Begins(durable[n], log[n])

\* So does what is retained ...
RetainedInv == \A r \in InFlight(retained) : Has(log[leader], r.offset, r.entry)

\* The messages in flight of the current epoch.
Now == {m \in InFlight(queue) : m.epoch = epoch}

\* ... and what is on its way.
ShippedInv ==
  \A m \in Now :
    /\ m.src = leader
    /\ m.type = "append" => Has(log[leader], m.offset, m.entry)
    /\ m.type = "snapshot" => Begins(m.log, log[leader])

\* How far the log of a message's receiver goes after it.
Reach(m) == IF m.type = "append" THEN m.offset ELSE Len(m.log)

\* A snapshot goes as far as what is delivered before it, and as its
\* receiver's log: it takes nothing back.
OrderInv ==
  \A b \in Now : b.type = "snapshot" =>
    /\ Len(log[b.dst]) <= Len(b.log)
    /\ \A a \in Now : Precedes(queue, a, b) => Reach(a) <= Len(b.log)

\* The in-sync set is of live nodes that hold all that is below the watermark.
MembersInv == \A n \in isr : alive[n] /\ hw <= Len(log[n])

\* All that is below the watermark is applied wherever it is.
ExactInv == \A n \in Node : Len(applied[n]) = Lower(hw, Len(log[n]))

\* Accepted writes are below the watermark, and the one that waits is the leader's.
AcceptedInv ==
  /\ \A a \in accepted : a.offset <= hw /\ Has(log[leader], a.offset, a.entry)
  /\ client # Idle => Has(log[leader], client.offset, client.entry)

\* Neither the watermark nor what is applied is ahead or behind.
TightInv == hw <= Len(log[leader]) /\ MembersInv /\ ExactInv

OrderlyInv ==
  IsrInv /\ TightInv /\ LogsInv /\ RetainedInv /\ ShippedInv /\ OrderInv /\ AcceptedInv

----------------------------------------------------------------------------
(* Operators *)

\* The constants, as the constructor demands them.
LEMMA Constants ==
  /\ N \in Nat /\ 1 \in Node
  /\ LagTimeout \in Nat \ {0} /\ Retention \in Nat \ {0} /\ Delay \in Nat \ {0}
  /\ LeaseDuration \in Nat
BY IsrAssumption DEF Node

\* The bounds of two numbers are what their names say.
LEMMA LowerUpper ==
  ASSUME NEW a \in Int, NEW b \in Int
  PROVE  /\ Lower(a, b) \in Int /\ Lower(a, b) <= a /\ Lower(a, b) <= b /\ Lower(a, b) \in {a, b}
         /\ Upper(a, b) \in Int /\ Upper(a, b) >= a /\ Upper(a, b) >= b /\ Upper(a, b) \in {a, b}
BY DEF Lower, Upper

\* The first entries of a log, as many as there are up to a mark.
LEMMA SubSeqFirst ==
  ASSUME NEW S, NEW l \in Seq(S), NEW n \in Nat, n <= Len(l)
  PROVE  /\ SubSeq(l, 1, n) \in Seq(S) /\ Len(SubSeq(l, 1, n)) = n
         /\ Begins(SubSeq(l, 1, n), l)
<1>1. Len(l) \in Nat /\ \A k \in 1..n : l[k] \in S
  BY LenProperties, ElementOfSeq
<1>2. /\ SubSeq(l, 1, n) \in Seq(S) /\ Len(SubSeq(l, 1, n)) = n
      /\ \A k \in 1..n : SubSeq(l, 1, n)[k] = l[k]
  BY <1>1, SubSeqProperties
<1> QED BY <1>2 DEF Begins

\* committed_data goes on where it stood, up to the mark or the end of the log.
LEMMA ApplyProperties ==
  ASSUME NEW done \in Seq(Entry), NEW l \in Seq(Entry), NEW mark \in Nat,
         Begins(done, l), Len(done) <= mark
  PROVE  /\ Apply(done, l, mark) \in Seq(Entry)
         /\ Len(Apply(done, l, mark)) = Lower(mark, Len(l))
         /\ Begins(Apply(done, l, mark), l)
<1>1. Len(done) \in Nat /\ Len(l) \in Nat /\ Len(done) <= Len(l)
  BY LenProperties DEF Begins
<1>2. PICK d \in Nat : d = Len(done)
  BY <1>1
<1>3. PICK e \in Nat : e = Lower(mark, Len(l)) /\ d <= e /\ e <= Len(l)
  BY <1>1, <1>2 DEF Lower
<1>4. PICK t : t = SubSeq(l, d + 1, e)
  OBVIOUS
<1>5. /\ t \in Seq(Entry) /\ Len(t) = e - d
      /\ \A k \in 1..e - d : t[k] = l[d + k]
  <2>1. CASE d + 1 <= e
    <3>1. d + 1 \in 1..Len(l) /\ e \in 1..Len(l) /\ d + 1 \in 1..e + 1
      BY <1>1, <1>2, <1>3, <2>1
    <3>2. \A k \in d + 1..e : l[k] \in Entry
      BY <1>1, <1>3, <3>1, ElementOfSeq
    <3>3. PICK f \in Nat : f = d + 1
      BY <1>2
    <3>4. /\ t \in Seq(Entry) /\ Len(t) = e - f + 1
          /\ \A k \in 1..e - f + 1 : t[k] = l[f + k - 1]
      BY <1>3, <1>4, <3>1, <3>2, <3>3, SubSeqProperties
    <3>5. e - f + 1 = e - d /\ \A k \in 1..e - d : f + k - 1 = d + k
      BY <1>2, <1>3, <3>3
    <3>6. \A k \in 1..e - d : t[k] = l[d + k]
      BY <3>4, <3>5
    <3> QED BY <3>4, <3>5, <3>6
  <2>2. CASE ~(d + 1 <= e)
    <3>1. d = e
      BY <1>2, <1>3, <2>2
    <3>2. t = <<>>
      BY <1>4, <3>1
    <3> QED BY <1>3, <3>1, <3>2
  <2> QED BY <2>1, <2>2
<1>6. Apply(done, l, mark) = done \o t
  BY <1>2, <1>3, <1>4 DEF Apply
<1>7. /\ done \o t \in Seq(Entry) /\ Len(done \o t) = e
      /\ \A k \in 1..e : (done \o t)[k] = IF k <= d THEN done[k] ELSE t[k - d]
  <2>1. /\ done \o t \in Seq(Entry) /\ Len(done \o t) = d + (e - d)
        /\ \A k \in 1..d + (e - d) : (done \o t)[k] = IF k <= d THEN done[k] ELSE t[k - d]
    BY <1>2, <1>5, ConcatProperties
  <2>2. d + (e - d) = e
    BY <1>3
  <2> QED BY <2>1, <2>2
<1>8. ASSUME NEW k \in 1..e
      PROVE  (done \o t)[k] = l[k]
  <2>1. CASE k <= d
    <3>1. k \in 1..Len(done)
      BY <1>2, <2>1
    <3> QED BY <1>7, <2>1, <3>1 DEF Begins
  <2>2. CASE ~(k <= d)
    <3>1. k - d \in 1..e - d /\ d + (k - d) = k
      BY <1>2, <1>3, <2>2
    <3> QED BY <1>5, <1>7, <2>2, <3>1
  <2> QED BY <2>1, <2>2
<1> QED BY <1>3, <1>6, <1>7, <1>8 DEF Begins

----------------------------------------------------------------------------
(* The refresh *)

\* The views of the controller.
ViewType ==
  [isr : SUBSET Node, hw : Nat, lag : [Node -> 0..LagTimeout], lease : -1..LeaseDuration,
   applied : [Node -> Seq(Entry)]]

\* A view of nodes with the logs l: what is applied starts the log.
Fits(v, l) ==
  v \in ViewType /\ \A n \in Node : Len(v.applied[n]) <= v.hw /\ Begins(v.applied[n], l[n])

\* What a refresh makes of a view.
Updates(v, up, l, ld, r) ==
  /\ v.hw <= r.hw
  /\ ~up[ld] => r = v
  /\ up[ld] =>
       /\ ld \in r.isr
       /\ \A n \in r.isr : n = ld \/ (up[n] /\ (n \in v.isr \/ Len(l[n]) >= Len(l[ld])))
       /\ r.hw = v.hw \/ \A n \in r.isr : r.hw <= Len(l[n])
       /\ \A n \in Node : Len(r.applied[n]) = Lower(r.hw, Len(l[n]))

\* The refresh takes views to views, raises the watermark over no member that
\* is behind and lets in only who has caught up.
LEMMA RefreshedProperties ==
  ASSUME NEW up \in [Node -> BOOLEAN], NEW l \in [Node -> Seq(Entry)], NEW ld \in Node,
         NEW v, Fits(v, l), NEW r, r = Refreshed(v, up, l, ld)
  PROVE  Fits(r, l) /\ Updates(v, up, l, ld, r)
<1>0. v \in ViewType /\ v.hw \in Nat /\ v.isr \in SUBSET Node
      /\ v.lag \in [Node -> 0..LagTimeout] /\ v.lease \in -1..LeaseDuration
      /\ v.applied \in [Node -> Seq(Entry)]
      /\ \A n \in Node : Len(l[n]) \in Nat
  BY LenProperties DEF Fits, ViewType
<1>1. CASE ~up[ld]
  <2>1. r = v
    BY <1>1 DEF Refreshed
  <2> QED BY <1>0, <1>1, <2>1 DEF Updates
<1>2. CASE up[ld]
  <2> DEFINE followers == Node \ {ld}
             caughtUp == {n \in followers : up[n] /\ Len(l[n]) >= Len(l[ld])}
             late == {n \in followers \ caughtUp : v.lag[n] >= LagTimeout}
             members == (v.isr \ ({n \in followers : ~up[n]} \cup late)) \cup (caughtUp \ slow) \cup {ld}
             ends == {Len(l[n]) : n \in members}
             mark == Upper(v.hw, Min(ends))
  <2>1. r = [isr |-> members, hw |-> mark,
             lag |-> [n \in Node |-> IF n \in caughtUp THEN 0 ELSE v.lag[n]],
             lease |-> IF Cardinality(members) >= MinInsync THEN LeaseDuration ELSE v.lease,
             applied |-> [n \in Node |-> Apply(v.applied[n], l[n], mark)]]
    BY <1>2 DEF Refreshed
  <2>2. members \in SUBSET Node /\ ld \in members
    BY <1>0
  <2>3. \A n \in members : n = ld \/ (up[n] /\ (n \in v.isr \/ Len(l[n]) >= Len(l[ld])))
    BY <1>0
  <2> HIDE DEF members
  <2>4. ends \in SUBSET Nat /\ ends # {}
    BY <1>0, <2>2
  <2>5. Min(ends) \in ends /\ \A x \in ends : Min(ends) <= x
    BY <2>4, LeastNat DEF Min
  <2>6. /\ mark \in Nat /\ v.hw <= mark
        /\ mark = v.hw \/ \A n \in members : mark <= Len(l[n])
    <3>1. \A n \in members : Len(l[n]) \in ends
      BY DEF ends
    <3>2. PICK low \in Nat : low = Min(ends) /\ \A n \in members : low <= Len(l[n])
      BY <2>4, <2>5, <3>1
    <3>3. mark = Upper(v.hw, low)
      BY <3>2
    <3> HIDE DEF mark
    <3>4. mark \in Nat /\ v.hw <= mark /\ (mark = v.hw \/ mark = low)
      <4>1. PICK h \in Nat : h = v.hw
        BY <1>0
      <4>2. mark = h \/ mark = low
        BY <3>3, <4>1 DEF Upper
      <4>3. h <= mark
        BY <3>3, <4>1 DEF Upper
      <4> QED BY <4>1, <4>2, <4>3
    <3> QED BY <3>2, <3>4
  <2> HIDE DEF mark, ends, caughtUp
  <2>7. /\ [n \in Node |-> IF n \in caughtUp THEN 0 ELSE v.lag[n]] \in [Node -> 0..LagTimeout]
        /\ (IF Cardinality(members) >= MinInsync THEN LeaseDuration ELSE v.lease) \in -1..LeaseDuration
    BY <1>0, Constants
  <2>8. \A n \in Node :
          /\ v.applied[n] \in Seq(Entry) /\ Len(v.applied[n]) \in Nat
          /\ Len(v.applied[n]) <= mark /\ Begins(v.applied[n], l[n])
    BY <1>0, <2>6, LenProperties DEF Fits
  <2>9. \A n \in Node :
          /\ Apply(v.applied[n], l[n], mark) \in Seq(Entry)
          /\ Len(Apply(v.applied[n], l[n], mark)) = Lower(mark, Len(l[n]))
          /\ Begins(Apply(v.applied[n], l[n], mark), l[n])
    BY <2>6, <2>8, ApplyProperties
  <2>10. /\ r.isr = members /\ r.hw = mark
         /\ \A n \in Node : r.applied[n] = Apply(v.applied[n], l[n], mark)
    BY <2>1
  <2>11. r \in ViewType
    BY <2>1, <2>2, <2>6, <2>7, <2>9 DEF ViewType
  <2>12. \A n \in Node : Lower(mark, Len(l[n])) <= mark
    BY <1>0, <2>6, LowerUpper
  <2> QED BY <1>2, <2>2, <2>3, <2>6, <2>9, <2>10, <2>11, <2>12 DEF Fits, Updates
<1> QED BY <1>1, <1>2

----------------------------------------------------------------------------
(* Messages and the queue *)

\* Each message has a number of ticks to wait, a source and a receiver.
LEMMA MessageProperties ==
  ASSUME NEW m \in Message
  PROVE  /\ m.type \in {"append", "snapshot"} /\ m.src \in Node /\ m.dst \in Node
         /\ m.epoch \in Nat /\ m.wait \in Nat
         /\ m.type = "append" => m.offset \in Nat /\ m.entry \in Entry
         /\ m.type = "snapshot" => m.log \in Seq(Entry) /\ m.hw \in Nat
BY DEF Message

\* The order of due ticks is kept when messages with the full delay are added ...
LEMMA WaitsConcat ==
  ASSUME NEW q \in Seq(Message), NEW out \in Seq(Message), WaitsIn(q),
         \A k \in DOMAIN out : out[k].wait = Delay
  PROVE  WaitsIn(q \o out)
<1> DEFINE r == q \o out
<1>1. /\ Len(q) \in Nat /\ Len(out) \in Nat /\ DOMAIN q = 1..Len(q) /\ DOMAIN out = 1..Len(out)
      /\ \A k \in 1..Len(q) : q[k] \in Message
  BY LenProperties, ElementOfSeq
<1>2. /\ r \in Seq(Message) /\ Len(r) = Len(q) + Len(out)
      /\ \A j \in 1..Len(q) + Len(out) : r[j] = IF j <= Len(q) THEN q[j] ELSE out[j - Len(q)]
  BY ConcatProperties
<1>3. DOMAIN r = 1..Len(q) + Len(out)
  BY <1>2, LenProperties
<1> HIDE DEF r
<1>4. ASSUME NEW j \in DOMAIN r
      PROVE  \/ j \in DOMAIN q /\ r[j] = q[j]
             \/ j > Len(q) /\ r[j].wait = Delay
  <2>1. CASE j <= Len(q)
    BY <1>1, <1>2, <1>3, <2>1
  <2>2. CASE ~(j <= Len(q))
    <3>1. j - Len(q) \in DOMAIN out /\ r[j] = out[j - Len(q)]
      BY <1>1, <1>2, <1>3, <2>2
    <3> QED BY <1>1, <1>3, <2>2, <3>1
  <2> QED BY <2>1, <2>2
<1>5. Delay \in Nat /\ \A k \in DOMAIN q : q[k].wait \in Nat /\ q[k].wait <= Delay
  BY <1>1, Constants, MessageProperties DEF WaitsIn
<1>6. \A a \in DOMAIN r : r[a].wait <= Delay
  BY <1>4, <1>5
<1>7. ASSUME NEW a \in DOMAIN r, NEW b \in DOMAIN r, a < b
      PROVE  r[a].wait <= r[b].wait
  <2>1. CASE b \in DOMAIN q /\ r[b] = q[b]
    <3>1. a \in DOMAIN q /\ r[a] = q[a]
      BY <1>1, <1>3, <1>4, <1>7, <2>1
    <3> QED BY <1>7, <2>1, <3>1 DEF WaitsIn
  <2>2. CASE r[b].wait = Delay
    BY <1>6, <2>2
  <2> QED BY <1>4, <2>1, <2>2
<1> QED BY <1>6, <1>7 DEF WaitsIn, r

\* ... when the first message is taken ...
LEMMA WaitsTail ==
  ASSUME NEW q \in Seq(Message), q # <<>>, WaitsIn(q)
  PROVE  WaitsIn(Tail(q))
<1>1. Len(q) \in Nat /\ DOMAIN q = 1..Len(q) /\ Len(q) # 0
  BY LenProperties, EmptySeq
<1>2. PICK t : t = Tail(q) /\ DOMAIN t = 1..Len(q) - 1 /\ \A k \in 1..Len(q) - 1 : t[k] = q[k + 1]
  <2>1. PICK t \in Seq(Message) :
          t = Tail(q) /\ Len(t) = Len(q) - 1 /\ \A k \in 1..Len(t) : t[k] = q[k + 1]
    BY HeadTailProperties
  <2>2. DOMAIN t = 1..Len(t)
    BY <2>1, LenProperties
  <2> QED BY <2>1, <2>2
<1>3. \A k \in DOMAIN t : k + 1 \in DOMAIN q /\ t[k] = q[k + 1]
  BY <1>1, <1>2
<1>4. \A a, b \in DOMAIN t : a < b => a + 1 < b + 1
  BY <1>2
<1> QED BY <1>2, <1>3, <1>4 DEF WaitsIn

\* ... and when a tick passes with nothing due.
LEMMA WaitsTick ==
  ASSUME NEW q \in Seq(Message), WaitsIn(q), ~Due(q),
         NEW r, r = [k \in DOMAIN q |-> [q[k] EXCEPT !.wait = @ - 1]]
  PROVE  /\ r \in Seq(Message) /\ WaitsIn(r) /\ DOMAIN r = DOMAIN q
         /\ \A k \in DOMAIN q : r[k] = [q[k] EXCEPT !.wait = q[k].wait - 1]
<1>1. /\ Len(q) \in Nat /\ DOMAIN q = 1..Len(q) /\ \A k \in DOMAIN q : q[k] \in Message
  BY LenProperties, ElementOfSeq
<1>2. \A k \in DOMAIN q : q[k].wait \in Nat /\ q[k].wait <= Delay
  BY <1>1, MessageProperties DEF WaitsIn
<1>3. ASSUME NEW k \in DOMAIN q
      PROVE  q[k].wait >= 1
  <2>1. 1 \in DOMAIN q /\ Head(q) = q[1] /\ q # <<>>
    BY <1>1, <1>3, HeadTailProperties, EmptySeq
  <2>2. q[1].wait # 0
    BY <2>1 DEF Due
  <2>3. q[1].wait <= q[k].wait
    BY <1>1, <1>2, <1>3, <2>1 DEF WaitsIn
  <2> QED BY <1>2, <2>1, <2>2, <2>3
<1>4. \A k \in DOMAIN q : r[k] = [q[k] EXCEPT !.wait = q[k].wait - 1]
  OBVIOUS
<1>5. ASSUME NEW k \in DOMAIN q
      PROVE  r[k] \in Message /\ r[k].wait = q[k].wait - 1
  <2>1. PICK m \in Message : m = q[k]
    BY <1>1
  <2>2. PICK w \in Nat : w = m.wait - 1
    BY <1>2, <1>3, <2>1
  <2>3. r[k] = [m EXCEPT !.wait = w]
    BY <1>4, <2>1, <2>2
  <2> QED BY <2>1, <2>2, <2>3 DEF Message
<1>6. r \in Seq(Message) /\ DOMAIN r = DOMAIN q
  <2>1. r \in [1..Len(q) -> Message]
    BY <1>1, <1>5
  <2> QED BY <1>1, <2>1, FunctionIsSeq
<1>7. Delay \in Nat
  BY Constants
<1>8. WaitsIn(r)
  <2>1. \A a \in DOMAIN r : r[a].wait <= Delay
    BY <1>2, <1>5, <1>6, <1>7
  <2>2. \A a, b \in DOMAIN r : a < b => r[a].wait <= r[b].wait
    <3> SUFFICES ASSUME NEW a \in DOMAIN q, NEW b \in DOMAIN q, a < b
                 PROVE  r[a].wait <= r[b].wait
      BY <1>6
    <3>1. q[a].wait \in Nat /\ q[b].wait \in Nat /\ q[a].wait <= q[b].wait
      BY <1>2 DEF WaitsIn
    <3>2. r[a].wait = q[a].wait - 1 /\ r[b].wait = q[b].wait - 1
      BY <1>5
    <3> QED BY <3>1, <3>2
  <2> QED BY <2>1, <2>2 DEF WaitsIn
<1> QED BY <1>4, <1>6, <1>8

\* A message by which the leader ld of epoch ep synchronizes the follower f,
\* from the retained entries kept or with the log l.
Syncs(m, f, ld, ep, kept, l) ==
  (\E r \in InFlight(kept) : m = AppendMsg(ld, ep, f, r)) \/ m = SnapshotMsg(ld, ep, f, l, hw)

\* What a follower lacks is retained.
LEMMA MissingProperties ==
  ASSUME NEW kept \in Seq(RetainedEntry), kept = retained, NEW l
  PROVE  Missing(l) \in Seq(RetainedEntry) /\ InFlight(Missing(l)) \subseteq InFlight(kept)
<1> DEFINE I == {k \in DOMAIN kept : kept[k].offset > Len(l)}
<1>1. I \in SUBSET DOMAIN kept /\ Missing(l) = Kept(kept, I)
  BY DEF Missing
<1> HIDE DEF I
<1>2. /\ Kept(kept, I) \in Seq(RetainedEntry)
      /\ \A j \in DOMAIN Kept(kept, I) : \E k \in I : Kept(kept, I)[j] = kept[k]
  BY <1>1, KeptProperties
<1> QED BY <1>1, <1>2 DEF InFlight

\* What _synchronize sends: retained entries, or a snapshot, or nothing.
LEMMA SyncProperties ==
  ASSUME NEW l \in [Node -> Seq(Entry)], hw \in Nat,
         NEW kept \in Seq(RetainedEntry), kept = retained,
         NEW f \in Node, NEW ld \in Node, NEW ep, ep \in Nat, NEW slowNow,
         NEW out, out = Sync(f, ld, ep, l, slowNow)
  PROVE  /\ out \in Seq(Message)
         /\ \A m \in InFlight(out) : Syncs(m, f, ld, ep, kept, l[ld])
<1>0. Delay \in Nat
  BY Constants
<1>1. CASE out = <<SnapshotMsg(ld, ep, f, l[ld], hw)>>
  <2>1. SnapshotMsg(ld, ep, f, l[ld], hw) \in Message
    BY <1>0 DEF SnapshotMsg, Message
  <2>2. PICK m \in Message : m = SnapshotMsg(ld, ep, f, l[ld], hw)
    BY <2>1
  <2>3. out \in Seq(Message) /\ \A j \in DOMAIN out : out[j] = m
    BY <1>1, <2>2, OneProperties
  <2> QED BY <2>2, <2>3 DEF InFlight, Syncs
<1>2. CASE out = [k \in DOMAIN Missing(l[f]) |-> AppendMsg(ld, ep, f, Missing(l[f])[k])]
  <2>1. PICK ms \in Seq(RetainedEntry) : ms = Missing(l[f]) /\ InFlight(ms) \subseteq InFlight(kept)
    BY MissingProperties
  <2>2. Len(ms) \in Nat /\ DOMAIN ms = 1..Len(ms) /\ \A j \in DOMAIN ms : ms[j] \in RetainedEntry
    BY LenProperties, ElementOfSeq
  <2>3. \A j \in DOMAIN ms : AppendMsg(ld, ep, f, ms[j]) \in Message
    BY <1>0, <2>2 DEF AppendMsg, Message, RetainedEntry, Entry
  <2>4. out = [k \in 1..Len(ms) |-> AppendMsg(ld, ep, f, ms[k])]
    BY <1>2, <2>1, <2>2
  <2>5. out \in [1..Len(ms) -> Message]
    BY <2>2, <2>3, <2>4
  <2>6. out \in Seq(Message)
    BY <2>2, <2>5, FunctionIsSeq
  <2>7. \A j \in DOMAIN out : \E r \in InFlight(kept) : out[j] = AppendMsg(ld, ep, f, r)
    BY <2>1, <2>2, <2>4 DEF InFlight
  <2> QED BY <2>6, <2>7 DEF InFlight, Syncs
<1>3. CASE out = <<>>
  BY <1>3 DEF InFlight
<1>4. \/ out = <<SnapshotMsg(ld, ep, f, l[ld], hw)>>
      \/ out = [k \in DOMAIN Missing(l[f]) |-> AppendMsg(ld, ep, f, Missing(l[f])[k])]
      \/ out = <<>>
  BY DEF Sync
<1> QED BY <1>1, <1>2, <1>3, <1>4

----------------------------------------------------------------------------
(* What a step does to the queue *)

\* A message that a step sends, by the leader after it.
Sent(m) ==
  \E f \in Node \ {leader'} : Syncs(m, f, leader', epoch', retained', log'[leader'])

QueueStep ==
  /\ \A m \in InFlight(queue') : m \in InFlight(queue) \/ Sent(m)
  /\ \A a, b : Precedes(queue', a, b) => Precedes(queue, a, b) \/ Sent(b)

\* The queue has only messages, in order and true of the epoch and the watermark.
QueueInv == queue \in Seq(Message) /\ WaitsInv /\ MessagesInv

\* Epochs and the watermark never fall.
Advances ==
  leader' \in Node /\ epoch' \in Nat /\ epoch' >= epoch /\ hw' \in Nat /\ hw' >= hw

\* What is sent has the full delay and is true.
LEMMA SentProperties ==
  ASSUME IsrInv, Advances, NEW m, Sent(m)
  PROVE  /\ m.wait = Delay /\ m.src # m.dst /\ m.epoch = epoch' /\ m.src = leader'
         /\ m.type = "snapshot" => m.hw <= hw' /\ m.log = log'[leader']
         /\ m.type = "append" =>
              \E r \in InFlight(retained') : m.offset = r.offset /\ m.entry = r.entry
<1>1. PICK f \in Node \ {leader'} : Syncs(m, f, leader', epoch', retained', log'[leader'])
  BY DEF Sent
<1>2. CASE \E r \in InFlight(retained') : m = AppendMsg(leader', epoch', f, r)
  BY <1>1, <1>2 DEF AppendMsg
<1>3. CASE m = SnapshotMsg(leader', epoch', f, log'[leader'], hw)
  BY <1>1, <1>3 DEF SnapshotMsg, Advances
<1> QED BY <1>1, <1>2, <1>3 DEF Syncs

\* The messages ms are sent, after the first one has been taken or not.
LEMMA Queued ==
  ASSUME IsrInv, Advances, NEW ms \in Seq(Message), \A m \in InFlight(ms) : Sent(m), NEW c,
         \/ queue' = queue \o Wired(ms, c)
         \/ queue # <<>> /\ queue' = Tail(queue) \o Wired(ms, c)
  PROVE  QueueInv' /\ QueueStep
<1>1. PICK out \in Seq(Message) :
        out = Wired(ms, c) /\ \A j \in DOMAIN out : \E i \in DOMAIN ms : out[j] = ms[i]
  BY WiredProperties
<1>2. queue \in Seq(Message) /\ WaitsIn(queue)
  BY DEF IsrInv, TypeOK, WaitsInv
<1>3. PICK q \in Seq(Message) :
        queue' = q \o out /\ (q = queue \/ (queue # <<>> /\ q = Tail(queue)))
  BY <1>1, <1>2, QueueParts
<1>4. InFlight(q) \subseteq InFlight(queue) /\ WaitsIn(q)
      /\ \A a, b : Precedes(q, a, b) => Precedes(queue, a, b)
  BY <1>2, <1>3, TailOrder, WaitsTail
<1>5. InFlight(out) \subseteq InFlight(ms) /\ \A m \in InFlight(out) : Sent(m)
  BY <1>1 DEF InFlight
<1>6. /\ InFlight(queue') \subseteq InFlight(q) \cup InFlight(out)
      /\ \A a, b : Precedes(queue', a, b) =>
           \/ Precedes(q, a, b)
           \/ a \in InFlight(q) /\ b \in InFlight(out)
           \/ Precedes(out, a, b)
  BY <1>3, ConcatOrder
<1>7. \A a, b : Precedes(out, a, b) => b \in InFlight(out)
  BY DEF Precedes, InFlight
<1>8. QueueStep
  BY <1>4, <1>5, <1>6, <1>7 DEF QueueStep
<1>9. queue' \in Seq(Message)
  BY <1>3, ConcatProperties
<1>10. WaitsInv'
  <2>1. \A k \in DOMAIN out : out[k].wait = Delay
    BY <1>5, SentProperties DEF InFlight
  <2>2. WaitsIn(queue')
    BY <1>3, <1>4, <2>1, WaitsConcat
  <2> QED BY <2>2 DEF WaitsInv, WaitsIn
<1>11. MessagesInv'
  <2> SUFFICES ASSUME NEW m \in InFlight(queue')
               PROVE  m.src # m.dst /\ m.epoch <= epoch' /\ (m.type = "snapshot" => m.hw <= hw')
    BY DEF MessagesInv
  <2>1. CASE m \in InFlight(queue)
    <3>1. m \in Message
      BY <1>2, <2>1, LenProperties, ElementOfSeq DEF InFlight
    <3>2. epoch \in Nat /\ hw \in Nat
      BY DEF IsrInv, TypeOK
    <3> QED BY <2>1, <3>1, <3>2, MessageProperties DEF IsrInv, MessagesInv, Advances
  <2>2. CASE Sent(m)
    <3>1. epoch' \in Nat
      BY DEF Advances
    <3> QED BY <2>2, <3>1, SentProperties
  <2> QED BY <1>8, <2>1, <2>2 DEF QueueStep
<1> QED BY <1>8, <1>9, <1>10, <1>11 DEF QueueInv

\* Nothing is sent.
LEMMA NothingQueued ==
  ASSUME IsrInv, Advances, queue' = queue \/ (queue # <<>> /\ queue' = Tail(queue))
  PROVE  QueueInv' /\ QueueStep
<1>1. queue \in Seq(Message) /\ WaitsIn(queue)
  BY DEF IsrInv, TypeOK, WaitsInv
<1>2. PICK q \in Seq(Message) : queue' = q /\ (q = queue \/ (queue # <<>> /\ q = Tail(queue)))
  BY <1>1, QueueParts
<1>3. InFlight(q) \subseteq InFlight(queue) /\ WaitsIn(q)
      /\ \A a, b : Precedes(q, a, b) => Precedes(queue, a, b)
  BY <1>1, <1>2, TailOrder, WaitsTail
<1>4. QueueStep
  BY <1>2, <1>3 DEF QueueStep
<1>5. WaitsInv'
  BY <1>2, <1>3 DEF WaitsInv, WaitsIn
<1>6. MessagesInv'
  <2> SUFFICES ASSUME NEW m \in InFlight(q)
               PROVE  m.src # m.dst /\ m.epoch <= epoch' /\ (m.type = "snapshot" => m.hw <= hw')
    BY <1>2 DEF MessagesInv
  <2>1. m \in InFlight(queue)
    BY <1>3
  <2>2. m \in Message
    BY <1>1, <2>1, LenProperties, ElementOfSeq DEF InFlight
  <2>3. epoch \in Nat /\ hw \in Nat
    BY DEF IsrInv, TypeOK
  <2> QED BY <2>1, <2>2, <2>3, MessageProperties DEF IsrInv, MessagesInv, Advances
<1> QED BY <1>2, <1>4, <1>5, <1>6 DEF QueueInv

----------------------------------------------------------------------------
(* What a step does to the view *)

NodesType ==
  /\ alive \in [Node -> BOOLEAN]
  /\ log \in [Node -> Seq(Entry)] /\ durable \in [Node -> Seq(Entry)]

RestType ==
  /\ leader \in Node /\ epoch \in Nat /\ slow \subseteq Node
  /\ retained \in Seq(RetainedEntry) /\ Len(retained) <= Retention
  /\ cut \subseteq Node \X Node
  /\ client \in {Idle} \cup [op : {"write"}, offset : Nat, entry : Entry]
  /\ written \in Nat
  /\ accepted \subseteq [offset : Nat, entry : Entry]

\* The view fits the nodes' logs.
FitsNow == Fits(View, log)

\* The invariant in the parts that steps change separately.
LEMMA PartsNow == ASSUME IsrInv PROVE NodesType /\ FitsNow /\ RestType /\ QueueInv
<1>1. NodesType /\ RestType /\ QueueInv
  BY DEF IsrInv, TypeOK, NodesType, RestType, QueueInv, RetainedEntry
<1>2. View \in ViewType
  BY DEF IsrInv, TypeOK, View, ViewType
<1>3. \A n \in Node : Len(View.applied[n]) <= View.hw /\ Begins(View.applied[n], log[n])
  BY DEF IsrInv, AppliedInv, View
<1> QED BY <1>1, <1>2, <1>3 DEF FitsNow, Fits

\* The parts of the next state make up the invariant.
LEMMA PartsNext == ASSUME NodesType', FitsNow', RestType', QueueInv' PROVE IsrInv'
<1>1. View' = [isr |-> isr', hw |-> hw', lag |-> lag', lease |-> lease', applied |-> applied']
  BY DEF View
<1>2. View' \in ViewType
      /\ \A n \in Node : Len(View'.applied[n]) <= View'.hw /\ Begins(View'.applied[n], log'[n])
  BY DEF FitsNow, Fits, ViewType, Begins
<1>3. /\ isr' \subseteq Node /\ hw' \in Nat /\ lag' \in [Node -> 0..LagTimeout]
      /\ lease' \in -1..LeaseDuration /\ applied' \in [Node -> Seq(Entry)]
  BY <1>1, <1>2 DEF ViewType
<1>4. AppliedInv'
  BY <1>1, <1>2 DEF AppliedInv, Begins
<1>5. TypeOK'
  BY <1>3 DEF TypeOK, NodesType, RestType, QueueInv, RetainedEntry
<1> QED BY <1>4, <1>5 DEF IsrInv, QueueInv

\* The view r becomes the view of the next state.
LEMMA BecomesFits ==
  ASSUME NEW r, Becomes(r), Fits(r, log')
  PROVE  FitsNow'
<1>1. View' = [isr |-> r.isr, hw |-> r.hw, lag |-> r.lag, lease |-> r.lease, applied |-> r.applied]
  BY DEF Becomes, View
<1>2. r \in ViewType
  BY DEF Fits
<1>3. View' = r
  BY <1>1, <1>2 DEF ViewType
<1>4. Fits(View', log')
  BY <1>3
<1> QED BY <1>4 DEF FitsNow, Fits, ViewType, Begins

\* A view of logs is one of logs that have grown.
LEMMA FitsGrown ==
  ASSUME NEW l \in [Node -> Seq(Entry)], NEW l2 \in [Node -> Seq(Entry)],
         NEW v, Fits(v, l), \A n \in Node : Begins(l[n], l2[n])
  PROVE  Fits(v, l2)
<1>1. \A n \in Node : /\ v.applied[n] \in Seq(Entry) /\ Len(v.applied[n]) \in Nat
                      /\ Len(l[n]) \in Nat /\ Len(l2[n]) \in Nat
  BY LenProperties DEF Fits, ViewType
<1>2. \A n \in Node : Begins(v.applied[n], l2[n])
  BY <1>1, HasBegins DEF Fits
<1> QED BY <1>2 DEF Fits

\* A view before its refresh, of an orderly group.
Ready(v, up, l, ld) ==
  /\ v.hw <= Len(l[ld])
  /\ \A n \in v.isr : up[n] /\ v.hw <= Len(l[n])
  /\ ~up[ld] => \A n \in Node : Len(v.applied[n]) = Lower(v.hw, Len(l[n]))

\* The refresh of a view of the logs l, of which the leader's may have grown.
LEMMA RefreshStep ==
  ASSUME NodesType', leader' \in Node, hw \in Nat,
         NEW l \in [Node -> Seq(Entry)], \A n \in Node : Begins(l[n], log'[n]),
         NEW v, Fits(v, l), hw <= v.hw,
         NEW r, r = Refreshed(v, alive', l, leader'), Becomes(r)
  PROVE  /\ FitsNow' /\ hw' \in Nat /\ hw' >= hw
         /\ /\ Ready(v, alive', l, leader')
            /\ \A n \in Node : l[n] = log'[n] \/ (n = leader' /\ alive'[n])
            => TightInv'
<1>1. alive' \in [Node -> BOOLEAN] /\ log' \in [Node -> Seq(Entry)]
  BY DEF NodesType
<1>2. Fits(r, l) /\ Updates(v, alive', l, leader', r)
  BY <1>1, RefreshedProperties
<1>3. Fits(r, log')
  BY <1>1, <1>2, FitsGrown
<1>4. v.hw \in Nat /\ r.hw \in Nat /\ v.hw <= r.hw /\ r.isr \in SUBSET Node
  BY <1>2 DEF Fits, ViewType, Updates
<1>5. isr' = r.isr /\ hw' = r.hw /\ applied' = r.applied
  BY DEF Becomes
<1>6. \A n \in Node : Len(l[n]) \in Nat /\ Len(log'[n]) \in Nat /\ Len(l[n]) <= Len(log'[n])
  BY <1>1, LenProperties DEF Begins
<1>7. ASSUME Ready(v, alive', l, leader'),
             \A n \in Node : l[n] = log'[n] \/ (n = leader' /\ alive'[n])
      PROVE  TightInv'
  <2>1. CASE ~alive'[leader']
    <3>1. r = v /\ \A n \in Node : l[n] = log'[n]
      BY <1>2, <1>7, <2>1 DEF Updates
    <3>2. hw' = v.hw /\ isr' = v.isr /\ applied' = v.applied
      BY <1>5, <3>1
    <3>3. hw' <= Len(log'[leader']) /\ MembersInv'
      BY <1>4, <1>7, <3>1, <3>2 DEF MembersInv, Ready
    <3>4. \A n \in Node : Len(v.applied[n]) = Lower(v.hw, Len(l[n]))
      BY <1>7, <2>1 DEF Ready
    <3>5. \A n \in Node : Len(applied'[n]) = Lower(hw', Len(log'[n]))
      BY <3>1, <3>2, <3>4
    <3> QED BY <3>3, <3>5 DEF TightInv, ExactInv
  <2>2. CASE alive'[leader']
    <3>1. r.hw <= Len(l[leader'])
      BY <1>2, <1>4, <1>6, <1>7, <2>2 DEF Updates, Ready
    <3>2. ASSUME NEW n \in r.isr
          PROVE  alive'[n] /\ r.hw <= Len(l[n])
      <4>1. alive'[n] /\ (n \in v.isr \/ Len(l[n]) >= Len(l[leader']))
        BY <1>2, <1>4, <1>6, <2>2 DEF Updates
      <4>2. v.hw <= Len(l[n])
        BY <1>4, <1>6, <1>7, <4>1 DEF Ready
      <4> QED BY <1>2, <2>2, <4>1, <4>2 DEF Updates
    <3>3. MembersInv'
      BY <1>4, <1>5, <1>6, <3>2 DEF MembersInv
    <3>4. ASSUME NEW n \in Node
          PROVE  Lower(r.hw, Len(l[n])) = Lower(r.hw, Len(log'[n]))
      <4>1. CASE l[n] = log'[n]
        BY <4>1
      <4>2. CASE n = leader'
        <5>1. r.hw <= Len(l[n]) /\ r.hw <= Len(log'[n])
          BY <1>4, <1>6, <3>1, <4>2
        <5> QED BY <1>4, <1>6, <5>1 DEF Lower
      <4> QED BY <1>7, <4>1, <4>2
    <3>5. ExactInv'
      BY <1>2, <1>5, <2>2, <3>4 DEF ExactInv, Updates
    <3>6. hw' <= Len(log'[leader'])
      BY <1>4, <1>5, <1>6, <3>1
    <3> QED BY <3>3, <3>5, <3>6 DEF TightInv
  <2> QED BY <2>1, <2>2
<1> QED BY <1>3, <1>4, <1>5, <1>7, BecomesFits

----------------------------------------------------------------------------
(* Deliveries and calls *)

\* What each step is shown to do.
Step == IsrInv' /\ hw' >= hw /\ QueueStep /\ (OrderlyInv /\ Orderly => TightInv')

\* The simple facts of a state.
LEMMA Now0 ==
  ASSUME IsrInv
  PROVE  /\ alive \in [Node -> BOOLEAN] /\ log \in [Node -> Seq(Entry)]
         /\ durable \in [Node -> Seq(Entry)] /\ applied \in [Node -> Seq(Entry)]
         /\ leader \in Node /\ epoch \in Nat /\ hw \in Nat
         /\ isr \in SUBSET Node /\ retained \in Seq(RetainedEntry) /\ queue \in Seq(Message)
         /\ \A n \in Node : Len(log[n]) \in Nat /\ Len(durable[n]) \in Nat
BY LenProperties DEF IsrInv, TypeOK, RetainedEntry

\* Nothing comes before the refresh in an orderly group.
LEMMA ViewReady ==
  ASSUME TightInv
  PROVE  Ready(View, alive, log, leader)
BY DEF TightInv, MembersInv, ExactInv, Ready, View

\* A refresh of an unchanged group.
LEMMA StillRefresh ==
  ASSUME IsrInv, UNCHANGED <<nodeVars, leader>>,
         Becomes(Refreshed(View, alive, log, leader))
  PROVE  FitsNow' /\ hw' \in Nat /\ hw' >= hw /\ (TightInv => TightInv')
<1>1. UNCHANGED <<alive, log, durable, leader>>
  BY DEF nodeVars
<1>2. Fits(View, log) /\ View.hw = hw /\ NodesType /\ leader \in Node /\ hw \in Nat
  BY PartsNow, Now0 DEF FitsNow, View
<1>3. PICK v, r : v = View /\ r = Refreshed(v, alive', log', leader') /\ Becomes(r)
  BY <1>1
<1>4. NodesType'
  BY <1>1, <1>2 DEF NodesType
<1>5. Fits(v, log) /\ v.hw = hw /\ \A n \in Node : Begins(log[n], log'[n])
  BY <1>1, <1>2, <1>3, Now0 DEF Begins
<1>6. r = Refreshed(v, alive', log, leader')
  BY <1>1, <1>3
<1>7. hw <= v.hw /\ log \in [Node -> Seq(Entry)] /\ leader' \in Node
  BY <1>1, <1>2, <1>5, Now0
<1>8. /\ FitsNow' /\ hw' \in Nat /\ hw' >= hw
      /\ /\ Ready(v, alive', log, leader')
         /\ \A n \in Node : log[n] = log'[n] \/ (n = leader' /\ alive'[n])
         => TightInv'
  BY <1>2, <1>3, <1>4, <1>5, <1>6, <1>7, RefreshStep
<1>9. TightInv => Ready(v, alive', log, leader')
  BY <1>1, <1>3, ViewReady
<1> QED BY <1>1, <1>8, <1>9

\* The view stays, and no node goes down.
LEMMA SameView ==
  ASSUME IsrInv, UNCHANGED <<log, viewVars, leader>>, \A n \in Node : alive[n] => alive'[n]
  PROVE  FitsNow' /\ hw' \in Nat /\ hw' >= hw /\ (TightInv => TightInv')
<1>1. UNCHANGED <<log, isr, hw, lag, lease, applied, leader>> /\ hw \in Nat /\ isr \in SUBSET Node
  BY Now0 DEF viewVars
<1>2. FitsNow'
  <2>1. View' = View
    BY <1>1 DEF View
  <2> QED BY <1>1, <2>1, PartsNow DEF FitsNow, Fits, ViewType, Begins
<1>3. TightInv => TightInv'
  BY <1>1 DEF TightInv, MembersInv, ExactInv
<1> QED BY <1>1, <1>2, <1>3

\* The end of a tick: a refresh, or none.
LEMMA EndTickStep ==
  ASSUME IsrInv, UNCHANGED <<nodeVars, leader>>, NEW q, EndTick(q)
  PROVE  FitsNow' /\ hw' \in Nat /\ hw' >= hw /\ (TightInv => TightInv')
<1>1. UNCHANGED log /\ \A n \in Node : alive[n] => alive'[n]
  BY DEF nodeVars
<1> QED BY <1>1, StillRefresh, SameView DEF EndTick

\* A message as it arrives.
LEMMA HeadProperties ==
  ASSUME IsrInv, Ticking, NEW m, m = Head(queue)
  PROVE  /\ queue # <<>> /\ m \in Message /\ m \in InFlight(queue) /\ m.src # m.dst
         /\ m.type = "snapshot" => m.hw <= hw
<1>1. queue # <<>> /\ queue \in Seq(Message)
  BY Now0 DEF Ticking, Due
<1>2. m \in Message /\ m \in InFlight(queue)
  BY <1>1, QueueParts, EmptySeq
<1> QED BY <1>1, <1>2 DEF IsrInv, MessagesInv

\* A message that does not count.
LEMMA IgnoreStep == ASSUME IsrInv, Ignore PROVE Step
<1>1. /\ Ticking /\ queue' = Tail(queue) /\ EndTick(Tail(queue))
      /\ UNCHANGED <<nodeVars, ctlVars, slow, retained, cut, cliVars>>
  BY DEF Ignore
<1>2. UNCHANGED <<alive, log, durable, leader, epoch, client, written, accepted>>
  BY <1>1 DEF nodeVars, ctlVars, cliVars
<1>3. FitsNow' /\ hw' \in Nat /\ hw' >= hw /\ (TightInv => TightInv')
  BY <1>1, <1>2, EndTickStep
<1>4. Advances
  BY <1>2, <1>3, Now0 DEF Advances
<1>5. QueueInv' /\ QueueStep
  BY <1>1, <1>4, NothingQueued, HeadProperties
<1>6. NodesType' /\ RestType'
  BY <1>1, <1>2, PartsNow DEF NodesType, RestType
<1>7. IsrInv'
  BY <1>3, <1>5, <1>6, PartsNext
<1> QED BY <1>3, <1>5, <1>7 DEF Step, OrderlyInv

\* The leader synchronizes the follower f.
LEMMA SyncQueued ==
  ASSUME IsrInv, Advances, UNCHANGED <<log, ctlVars, retained>>,
         NEW f \in Node \ {leader}, NEW slowNow, NEW c,
         \/ queue' = queue \o Wired(Sync(f, leader, epoch, log, slowNow), c)
         \/ queue # <<>> /\ queue' = Tail(queue) \o Wired(Sync(f, leader, epoch, log, slowNow), c)
  PROVE  QueueInv' /\ QueueStep
<1>1. /\ log \in [Node -> Seq(Entry)] /\ hw \in Nat /\ leader \in Node /\ epoch \in Nat
      /\ retained \in Seq(RetainedEntry) /\ f \in Node
      /\ UNCHANGED <<leader, epoch, log, retained>>
  BY Now0 DEF ctlVars
<1>2. PICK ms, kept, l :
        ms = Sync(f, leader, epoch, l, slowNow) /\ kept = retained /\ l = log
  OBVIOUS
<1>3. ms \in Seq(Message) /\ \A m \in InFlight(ms) : Syncs(m, f, leader, epoch, kept, l[leader])
  BY <1>1, <1>2, SyncProperties
<1>4. \A m \in InFlight(ms) : Sent(m)
  BY <1>1, <1>2, <1>3 DEF Sent
<1> QED BY <1>2, <1>3, <1>4, Queued

\* An entry out of order.
LEMMA OutOfOrderStep == ASSUME IsrInv, ReceiveOutOfOrder PROVE Step
<1> DEFINE m == Head(queue)
           out == Wired(Sync(m.dst, leader, epoch, log, slow), cut)
<1>1. /\ Ticking /\ Acceptable(m) /\ queue' = Tail(queue) \o out /\ EndTick(Tail(queue) \o out)
      /\ UNCHANGED <<nodeVars, ctlVars, slow, retained, cut, cliVars>>
  BY DEF ReceiveOutOfOrder
<1>2. UNCHANGED <<alive, log, durable, leader, epoch, client, written, accepted>>
  BY <1>1 DEF nodeVars, ctlVars, cliVars
<1>3. FitsNow' /\ hw' \in Nat /\ hw' >= hw /\ (TightInv => TightInv')
  BY <1>1, <1>2, EndTickStep
<1>4. Advances
  BY <1>2, <1>3, Now0 DEF Advances
<1>5. m.dst \in Node \ {leader} /\ queue # <<>>
  BY <1>1, HeadProperties, MessageProperties DEF Acceptable
<1>6. QueueInv' /\ QueueStep
  <2> HIDE DEF m
  <2>1. PICK f \in Node \ {leader} : f = m.dst
    BY <1>5
  <2> QED BY <1>1, <1>2, <1>4, <1>5, <2>1, SyncQueued
<1>7. NodesType' /\ RestType'
  BY <1>1, <1>2, PartsNow DEF NodesType, RestType
<1>8. IsrInv'
  BY <1>3, <1>6, <1>7, PartsNext
<1> QED BY <1>3, <1>6, <1>8 DEF Step, OrderlyInv

\* The log of one node grows or is replaced.
LEMMA LogChange ==
  ASSUME NodesType, NEW d \in Node, NEW s \in Seq(Entry),
         NEW l, l = [log EXCEPT ![d] = s]
  PROVE  /\ l \in [Node -> Seq(Entry)] /\ l[d] = s
         /\ \A n \in Node : n # d => l[n] = log[n]
         /\ \A n \in Node : Len(l[n]) \in Nat /\ Len(log[n]) \in Nat
         /\ Begins(log[d], s) => \A n \in Node : Begins(log[n], l[n])
<1>1. /\ l \in [Node -> Seq(Entry)] /\ l[d] = s
      /\ \A n \in Node : n # d => l[n] = log[n]
  BY DEF NodesType
<1>2. \A n \in Node : Len(l[n]) \in Nat /\ Len(log[n]) \in Nat
  BY <1>1, LenProperties DEF NodesType
<1> QED BY <1>1, <1>2 DEF Begins

\* A follower takes the next entry.
LEMMA AppendStep == ASSUME IsrInv, ReceiveAppend PROVE Step
<1>1. PICK m, d, s : m = Head(queue) /\ d = m.dst /\ s = Append(log[d], m.entry)
  OBVIOUS
<1>2. PICK l : l = [log EXCEPT ![d] = s]
  OBVIOUS
<1>3. /\ Ticking /\ Acceptable(m) /\ m.type = "append" /\ queue' = Tail(queue) /\ log' = l
      /\ Becomes(Refreshed(View, alive, l, leader))
      /\ UNCHANGED <<alive, durable, ctlVars, slow, retained, cut, cliVars>>
  BY <1>1, <1>2 DEF ReceiveAppend
<1>4. UNCHANGED <<alive, durable, leader, epoch, client, written, accepted>>
  BY <1>3 DEF ctlVars, cliVars
<1>5. d \in Node /\ m.entry \in Entry
  BY <1>1, <1>3, HeadProperties, MessageProperties
<1>6. s \in Seq(Entry) /\ Begins(log[d], s)
  BY <1>1, <1>5, Now0, BeginsProperties
<1>7. /\ l \in [Node -> Seq(Entry)] /\ l[d] = s
      /\ \A n \in Node : Len(l[n]) \in Nat /\ Len(log[n]) \in Nat
      /\ \A n \in Node : Begins(log[n], l[n])
  BY <1>2, <1>5, <1>6, PartsNow, LogChange
<1>8. /\ NodesType' /\ leader' \in Node /\ hw \in Nat
      /\ \A n \in Node : Begins(l[n], log'[n])
  BY <1>3, <1>4, <1>7, Now0 DEF NodesType, Begins
<1>9. PICK v, r : v = View /\ r = Refreshed(v, alive', l, leader') /\ Becomes(r)
  BY <1>3, <1>4
<1>10. Fits(v, log) /\ v.hw = hw /\ v.isr = isr /\ log \in [Node -> Seq(Entry)]
  BY <1>9, PartsNow, Now0 DEF FitsNow, View
<1>11. Fits(v, l) /\ hw <= v.hw
  <2>1. \A n \in Node : Begins(log[n], l[n])
    BY <1>7
  <2>2. Fits(v, l)
    BY <1>7, <1>10, <2>1, FitsGrown
  <2> QED BY <1>8, <1>10, <2>2
<1>12. /\ FitsNow' /\ hw' \in Nat /\ hw' >= hw
       /\ /\ Ready(v, alive', l, leader')
          /\ \A n \in Node : l[n] = log'[n] \/ (n = leader' /\ alive'[n])
          => TightInv'
  BY <1>7, <1>8, <1>9, <1>11, RefreshStep
<1>13. TightInv => Ready(v, alive', l, leader')
  <2>1. \A n \in Node : Len(log[n]) <= Len(l[n])
    BY <1>7 DEF Begins
  <2>2. alive[leader] /\ leader \in Node /\ hw \in Nat /\ isr \in SUBSET Node
    BY <1>3, Now0 DEF Acceptable
  <2>3. TightInv => hw <= Len(l[leader]) /\ \A n \in isr : alive[n] /\ hw <= Len(l[n])
    BY <1>7, <2>1, <2>2 DEF TightInv, MembersInv
  <2> QED BY <1>4, <1>10, <2>2, <2>3 DEF Ready
<1>14. Advances
  BY <1>4, <1>12, Now0 DEF Advances
<1>15. QueueInv' /\ QueueStep
  BY <1>3, <1>14, NothingQueued, HeadProperties
<1>16. RestType'
  BY <1>3, <1>4, PartsNow DEF RestType
<1>17. IsrInv'
  BY <1>8, <1>12, <1>15, <1>16, PartsNext
<1> QED BY <1>3, <1>12, <1>13, <1>15, <1>17 DEF Step, OrderlyInv

\* A follower takes a snapshot for its log.  In an orderly group that does not
\* take a member of the in-sync set below the watermark.
LEMMA SnapshotStep == ASSUME IsrInv, ReceiveSnapshot PROVE Step
<1>1. PICK m, d, s, h : m = Head(queue) /\ d = m.dst /\ s = m.log /\ h = m.hw
  OBVIOUS
<1>2. PICK l, a : l = [log EXCEPT ![d] = s] /\ a = Apply(<<>>, s, h)
  OBVIOUS
<1>3. PICK v, r : v = [View EXCEPT !.applied[d] = a] /\ r = Refreshed(v, alive, l, leader)
  OBVIOUS
<1>4. /\ Ticking /\ Acceptable(m) /\ m.type = "snapshot" /\ queue' = Tail(queue) /\ log' = l
      /\ Becomes(r)
      /\ UNCHANGED <<alive, durable, ctlVars, slow, retained, cut, cliVars>>
  BY <1>1, <1>2, <1>3 DEF ReceiveSnapshot
<1>5. UNCHANGED <<alive, durable, leader, epoch, client, written, accepted>>
  BY <1>4 DEF ctlVars, cliVars
<1>6. d \in Node /\ s \in Seq(Entry) /\ h \in Nat /\ h <= hw /\ d # leader /\ alive[leader]
      /\ m \in InFlight(queue) /\ m \in Now
  BY <1>1, <1>4, HeadProperties, MessageProperties DEF Acceptable, Now
<1>7. /\ l \in [Node -> Seq(Entry)] /\ l[d] = s
      /\ \A n \in Node : n # d => l[n] = log[n]
      /\ \A n \in Node : Len(l[n]) \in Nat /\ Len(log[n]) \in Nat
  <2>1. NodesType
    BY PartsNow
  <2>2. l = [log EXCEPT ![d] = s] /\ d \in Node /\ s \in Seq(Entry)
    BY <1>2, <1>6
  <2>3. l \in [Node -> Seq(Entry)] /\ l[d] = s
    BY <2>1, <2>2, LogChange
  <2>4. \A n \in Node : n # d => l[n] = log[n]
    BY <2>1, <2>2 DEF NodesType
  <2>5. \A n \in Node : Len(l[n]) \in Nat /\ Len(log[n]) \in Nat
    BY <2>1, <2>3, LenProperties DEF NodesType
  <2> QED BY <2>3, <2>4, <2>5
<1>8. a \in Seq(Entry) /\ Len(a) <= hw /\ Begins(a, s)
  <2>1. <<>> \in Seq(Entry) /\ Begins(<<>>, s) /\ Len(<<>>) <= h /\ Len(s) \in Nat
    BY <1>6, LenProperties DEF Begins
  <2>2. a \in Seq(Entry) /\ Len(a) = Lower(h, Len(s)) /\ Begins(a, s)
    BY <1>2, <1>6, <2>1, ApplyProperties
  <2>3. Lower(h, Len(s)) <= h /\ Lower(h, Len(s)) \in Int
    BY <1>6, <2>1, LowerUpper
  <2> QED BY <1>6, <2>2, <2>3, Now0
<1>9. Fits(v, l) /\ v.hw = hw /\ v.isr = isr
  <2>1. PICK w : w = View /\ w \in ViewType /\ w.hw = hw /\ w.isr = isr
                 /\ \A n \in Node : Len(w.applied[n]) <= w.hw /\ Begins(w.applied[n], log[n])
    BY PartsNow DEF FitsNow, Fits, View
  <2>2. v = [w EXCEPT !.applied = [w.applied EXCEPT ![d] = a]]
    BY <1>3, <2>1
  <2>3. PICK f \in [Node -> Seq(Entry)] : f = [w.applied EXCEPT ![d] = a]
    BY <1>8, <2>1 DEF ViewType
  <2>4. /\ v \in ViewType /\ v.applied = f /\ v.hw = w.hw /\ v.isr = w.isr
    BY <2>1, <2>2, <2>3 DEF ViewType
  <2>5. f[d] = a /\ \A n \in Node : n # d => f[n] = w.applied[n]
    BY <1>6, <2>1, <2>3 DEF ViewType
  <2>6. \A n \in Node : Len(f[n]) <= hw /\ Begins(f[n], l[n])
    BY <1>7, <1>8, <2>1, <2>5
  <2> QED BY <2>1, <2>4, <2>6 DEF Fits
<1>10. /\ NodesType' /\ leader' \in Node /\ hw \in Nat
       /\ \A n \in Node : Begins(l[n], log'[n])
  BY <1>4, <1>5, <1>7, Now0 DEF NodesType, Begins
<1>11. /\ FitsNow' /\ hw' \in Nat /\ hw' >= hw
       /\ /\ Ready(v, alive', l, leader')
          /\ \A n \in Node : l[n] = log'[n] \/ (n = leader' /\ alive'[n])
          => TightInv'
  <2>1. hw <= v.hw /\ r = Refreshed(v, alive', l, leader')
    BY <1>3, <1>5, <1>9, <1>10
  <2> QED BY <1>4, <1>7, <1>9, <1>10, <2>1, RefreshStep
<1>12. OrderlyInv => Ready(v, alive', l, leader')
  <2> SUFFICES ASSUME OrderlyInv PROVE Ready(v, alive', l, leader')
    OBVIOUS
  <2>1. Len(log[d]) <= Len(s)
    BY <1>1, <1>4, <1>6 DEF OrderlyInv, OrderInv
  <2>2. \A n \in Node : Len(log[n]) <= Len(l[n])
    BY <1>7, <2>1
  <2>3. leader \in Node /\ hw \in Nat /\ isr \in SUBSET Node
    BY Now0
  <2>4. hw <= Len(l[leader]) /\ \A n \in isr : alive[n] /\ hw <= Len(l[n])
    BY <1>7, <2>2, <2>3 DEF OrderlyInv, TightInv, MembersInv
  <2> QED BY <1>5, <1>6, <1>9, <2>4 DEF Ready
<1>13. Advances
  BY <1>5, <1>11, Now0 DEF Advances
<1>14. QueueInv' /\ QueueStep
  BY <1>4, <1>13, NothingQueued, HeadProperties
<1>15. RestType'
  BY <1>4, <1>5, PartsNow DEF RestType
<1>16. IsrInv'
  BY <1>10, <1>11, <1>14, <1>15, PartsNext
<1> QED BY <1>4, <1>11, <1>12, <1>14, <1>16 DEF Step

----------------------------------------------------------------------------
(* Writes *)

\* The bounded retained log keeps the end of what is put into it.
LEMMA RetainProperties ==
  ASSUME NEW kept \in Seq(RetainedEntry), Len(kept) <= Retention, NEW r \in RetainedEntry,
         NEW d, d = Retain(Append(kept, r))
  PROVE  /\ d \in Seq(RetainedEntry) /\ Len(d) <= Retention
         /\ r \in InFlight(d) /\ InFlight(d) \subseteq InFlight(kept) \cup {r}
<1>1. PICK size \in Nat \ {0} : size = Retention /\ Len(kept) <= size
  BY Constants
<1>2. PICK s, k : s = Append(kept, r) /\ k \in Nat /\ Len(s) = k + 1 /\ k <= size
  BY <1>1, LenProperties, AppendProperties
<1>3. Upper(1, Len(s) - size + 1) = IF Len(s) > size THEN 2 ELSE 1
  BY <1>1, <1>2 DEF Upper
<1>4. d = Deque(Append(kept, r), size)
  BY <1>1, <1>2, <1>3 DEF Retain, Deque
<1> QED BY <1>1, <1>4, DequeProperties

\* What an admitted write does to the leader's log and to what is retained and
\* queued: it is at the end of the one, and in what is retained and sent.
LEMMA RecordStep ==
  ASSUME IsrInv, Record
  PROVE  /\ NodesType' /\ UNCHANGED <<alive, durable, leader, epoch, accepted>>
         /\ \A n \in Node : Begins(log[n], log'[n]) /\ (n # leader => log'[n] = log[n])
         /\ Len(log'[leader]) \in Nat \ {0} /\ Last(log'[leader]) \in Entry
         /\ Has(log'[leader], Len(log'[leader]), Last(log'[leader]))
         /\ slow' \subseteq Node /\ cut' \subseteq Node \X Node /\ written' \in Nat
         /\ retained' \in Seq(RetainedEntry) /\ Len(retained') <= Retention
         /\ \A r \in InFlight(retained') :
              r \in InFlight(retained) \/ Has(log'[leader], r.offset, r.entry)
         /\ Advances => QueueInv' /\ QueueStep
<1>1. PICK e, r, fs :
        /\ e = [epoch |-> epoch, id |-> written + 1]
        /\ r = [offset |-> Len(log[leader]) + 1, entry |-> e]
        /\ fs = NodesInOrder((Node \ {leader}) \ slow)
  OBVIOUS
<1>2. PICK s, d, ms :
        /\ s = Append(log[leader], e) /\ d = Retain(Append(retained, r))
        /\ ms = [k \in DOMAIN fs |-> AppendMsg(leader, epoch, fs[k], r)]
  OBVIOUS
<1>3. /\ log' = [log EXCEPT ![leader] = s] /\ retained' = d
      /\ queue' = queue \o Wired(ms, cut) /\ written' = written + 1
      /\ UNCHANGED <<alive, durable, ctlVars, slow, cut, accepted>>
  BY <1>1, <1>2 DEF Record
<1>4. UNCHANGED <<leader, epoch>>
  BY <1>3 DEF ctlVars
<1>5. /\ leader \in Node /\ epoch \in Nat /\ written \in Nat /\ Len(log[leader]) \in Nat
      /\ log[leader] \in Seq(Entry) /\ retained \in Seq(RetainedEntry)
      /\ Len(retained) <= Retention /\ slow \subseteq Node /\ cut \subseteq Node \X Node
      /\ NodesType
  BY Now0, PartsNow DEF RestType
<1>6. e \in Entry /\ r \in RetainedEntry
      /\ r.offset = Len(log[leader]) + 1 /\ r.entry = e
  BY <1>1, <1>5 DEF Entry, RetainedEntry
<1>7. /\ s \in Seq(Entry) /\ Begins(log[leader], s) /\ Len(s) = Len(log[leader]) + 1
      /\ s[Len(log[leader]) + 1] = e
  BY <1>2, <1>5, <1>6, BeginsProperties
<1>8. /\ log' \in [Node -> Seq(Entry)] /\ log'[leader] = s
      /\ \A n \in Node : n # leader => log'[n] = log[n]
      /\ \A n \in Node : Begins(log[n], log'[n])
  BY <1>3, <1>5, <1>7, LogChange
<1>9. Last(s) = s[Len(s)]
  BY DEF Last
<1>10. /\ Len(s) \in Nat \ {0} /\ Last(s) = e /\ Has(s, Len(s), e)
       /\ Has(s, r.offset, r.entry)
  BY <1>5, <1>6, <1>7, <1>9 DEF Has
<1>11. /\ d \in Seq(RetainedEntry) /\ Len(d) <= Retention
       /\ r \in InFlight(d) /\ InFlight(d) \subseteq InFlight(retained) \cup {r}
  <2>1. PICK kept \in Seq(RetainedEntry) : kept = retained /\ Len(kept) <= Retention
    BY <1>5
  <2> QED BY <1>2, <1>6, <2>1, RetainProperties
<1>12. Len(fs) \in Nat /\ DOMAIN fs = 1..Len(fs) /\ \A k \in DOMAIN fs : fs[k] \in Node \ {leader}
  <2>1. PICK S \in SUBSET Node : S = (Node \ {leader}) \ slow
    BY <1>5
  <2>2. fs \in Seq(S) /\ S \subseteq Node \ {leader}
    BY <1>1, <2>1, NodesInOrderProperties, Constants
  <2> QED BY <2>2, LenProperties, ElementOfSeq
<1>13. ms \in Seq(Message) /\ \A m \in InFlight(ms) : \E k \in DOMAIN fs : m = AppendMsg(leader, epoch, fs[k], r)
  <2>1. Delay \in Nat
    BY Constants
  <2>2. \A k \in DOMAIN fs : AppendMsg(leader, epoch, fs[k], r) \in Message
    BY <1>5, <1>6, <1>12, <2>1 DEF AppendMsg, Message, RetainedEntry
  <2>3. ms \in [1..Len(fs) -> Message]
    BY <1>2, <1>12, <2>2
  <2>4. ms \in Seq(Message)
    BY <1>12, <2>3, FunctionIsSeq
  <2> QED BY <1>2, <2>4 DEF InFlight
<1>14. \A m \in InFlight(ms) : Sent(m)
  BY <1>3, <1>4, <1>11, <1>12, <1>13 DEF Sent, Syncs
<1>15. Advances => QueueInv' /\ QueueStep
  BY <1>3, <1>13, <1>14, Queued
<1>16. NodesType'
  BY <1>3, <1>5, <1>8 DEF NodesType
<1>17. \A x \in InFlight(retained') : x \in InFlight(retained) \/ Has(log'[leader], x.offset, x.entry)
  BY <1>3, <1>8, <1>10, <1>11
<1> QED BY <1>3, <1>4, <1>5, <1>6, <1>8, <1>10, <1>11, <1>15, <1>16, <1>17

\* What RestType says of a state whose retained log, queue and call may be new.
LEMMA WriteRest ==
  ASSUME IsrInv, Record, client' \in {Idle} \cup [op : {"write"}, offset : Nat, entry : Entry]
  PROVE  RestType'
<1>1. UNCHANGED <<leader, epoch, accepted>>
      /\ slow' \subseteq Node /\ cut' \subseteq Node \X Node /\ written' \in Nat
      /\ retained' \in Seq(RetainedEntry) /\ Len(retained') <= Retention
  BY RecordStep
<1> QED BY <1>1, PartsNow DEF RestType

\* A write of level LEADER: the refresh comes before the append.
LEMMA WriteLeaderStep == ASSUME IsrInv, WriteLeader PROVE Step
<1>1. Record /\ alive[leader] /\ Becomes(Refreshed(View, alive, log, leader)) /\ UNCHANGED client
  BY DEF WriteLeader
<1>2. /\ NodesType' /\ UNCHANGED <<alive, durable, leader, epoch, accepted>>
      /\ \A n \in Node : Begins(log[n], log'[n]) /\ (n # leader => log'[n] = log[n])
      /\ Advances => QueueInv' /\ QueueStep
  BY <1>1, RecordStep
<1>3. PICK v, r : v = View /\ r = Refreshed(v, alive', log, leader') /\ Becomes(r)
  BY <1>1, <1>2
<1>4. /\ Fits(v, log) /\ hw \in Nat /\ hw <= v.hw /\ log \in [Node -> Seq(Entry)]
      /\ leader' \in Node
  BY <1>2, <1>3, PartsNow, Now0 DEF FitsNow, View
<1>5. \A n \in Node : Begins(log[n], log'[n])
  BY <1>2
<1>6. /\ FitsNow' /\ hw' \in Nat /\ hw' >= hw
      /\ /\ Ready(v, alive', log, leader')
         /\ \A n \in Node : log[n] = log'[n] \/ (n = leader' /\ alive'[n])
         => TightInv'
  BY <1>2, <1>3, <1>4, <1>5, RefreshStep
<1>7. TightInv => Ready(v, alive', log, leader')
  BY <1>2, <1>3, ViewReady
<1>8. \A n \in Node : log[n] = log'[n] \/ (n = leader' /\ alive'[n])
  BY <1>1, <1>2
<1>9. Advances
  BY <1>2, <1>6, Now0 DEF Advances
<1>10. RestType'
  BY <1>1, PartsNow, WriteRest DEF RestType
<1>11. IsrInv'
  BY <1>2, <1>6, <1>9, <1>10, PartsNext
<1> QED BY <1>2, <1>6, <1>7, <1>8, <1>9, <1>11 DEF Step, OrderlyInv

\* A refreshed view of an orderly group is one.
LEMMA RefreshedReady ==
  ASSUME NEW up \in [Node -> BOOLEAN], NEW l \in [Node -> Seq(Entry)], NEW ld \in Node, up[ld],
         NEW v, Fits(v, l), NEW r, r = Refreshed(v, up, l, ld), Ready(v, up, l, ld)
  PROVE  Ready(r, up, l, ld)
<1>1. Fits(r, l) /\ Updates(v, up, l, ld, r)
  BY RefreshedProperties
<1>2. v.hw \in Nat /\ r.hw \in Nat /\ v.hw <= r.hw /\ r.isr \in SUBSET Node
  BY <1>1 DEF Fits, ViewType, Updates
<1>3. \A n \in Node : Len(l[n]) \in Nat
  BY LenProperties
<1>4. r.hw <= Len(l[ld])
  BY <1>1, <1>2, <1>3 DEF Updates, Ready
<1>5. ASSUME NEW n \in r.isr
      PROVE  up[n] /\ r.hw <= Len(l[n])
  <2>1. up[n] /\ (n \in v.isr \/ Len(l[n]) >= Len(l[ld]))
    BY <1>1, <1>2, <1>3 DEF Updates
  <2>2. v.hw <= Len(l[n])
    BY <1>2, <1>3, <2>1 DEF Ready
  <2> QED BY <1>1, <2>1, <2>2 DEF Updates
<1> QED BY <1>4, <1>5 DEF Ready

\* A write of level ALL_ISR: one refresh before the append, one after it.
LEMMA WriteAllIsrStep == ASSUME IsrInv, WriteAllIsr PROVE Step
<1>1. PICK w : w = Refreshed(View, alive, log, leader)
  OBVIOUS
<1>2. /\ Record /\ alive[leader] /\ Becomes(Refreshed(w, alive, log', leader))
      /\ client' = [op |-> "write", offset |-> Len(log'[leader]), entry |-> Last(log'[leader])]
  BY <1>1 DEF WriteAllIsr
<1>3. /\ NodesType' /\ UNCHANGED <<alive, durable, leader, epoch, accepted>>
      /\ \A n \in Node : Begins(log[n], log'[n])
      /\ Len(log'[leader]) \in Nat \ {0} /\ Last(log'[leader]) \in Entry
      /\ Advances => QueueInv' /\ QueueStep
  BY <1>2, RecordStep
<1>4. PICK v, r, l :
        v = View /\ l = log' /\ r = Refreshed(w, alive', l, leader') /\ Becomes(r)
  BY <1>2, <1>3
<1>5. /\ Fits(v, log) /\ hw \in Nat /\ hw = v.hw /\ log \in [Node -> Seq(Entry)]
      /\ leader \in Node /\ leader' \in Node /\ alive \in [Node -> BOOLEAN]
  BY <1>3, <1>4, PartsNow, Now0 DEF FitsNow, View
<1>6. w = Refreshed(v, alive, log, leader)
  BY <1>1, <1>4
<1>7. Fits(w, log) /\ hw <= w.hw
  <2>1. Fits(w, log) /\ Updates(v, alive, log, leader, w)
    BY <1>5, <1>6, RefreshedProperties
  <2> QED BY <1>5, <2>1 DEF Updates
<1>8. /\ l \in [Node -> Seq(Entry)] /\ \A n \in Node : Begins(log[n], l[n])
      /\ \A n \in Node : Begins(l[n], log'[n])
      /\ \A n \in Node : Len(log[n]) \in Nat /\ Len(l[n]) \in Nat /\ Len(log[n]) <= Len(l[n])
  <2>1. l \in [Node -> Seq(Entry)] /\ \A n \in Node : Begins(log[n], l[n])
    BY <1>3, <1>4 DEF NodesType
  <2>2. \A n \in Node : Len(l[n]) \in Nat /\ Begins(l[n], log'[n])
    BY <1>4, <2>1, LenProperties DEF Begins
  <2> QED BY <2>1, <2>2, Now0 DEF Begins
<1>9. Fits(w, l)
  <2>1. \A n \in Node : Begins(log[n], l[n])
    BY <1>8
  <2> QED BY <1>5, <1>7, <1>8, <2>1, FitsGrown
<1>10. /\ FitsNow' /\ hw' \in Nat /\ hw' >= hw
       /\ /\ Ready(w, alive', l, leader')
          /\ \A n \in Node : l[n] = log'[n] \/ (n = leader' /\ alive'[n])
          => TightInv'
  <2>1. \A n \in Node : Begins(l[n], log'[n])
    BY <1>8
  <2> QED BY <1>3, <1>4, <1>5, <1>7, <1>8, <1>9, <2>1, RefreshStep
<1>11. TightInv => Ready(w, alive', l, leader')
  <2> SUFFICES ASSUME TightInv PROVE Ready(w, alive', l, leader')
    OBVIOUS
  <2>1. Ready(v, alive, log, leader)
    BY <1>4, ViewReady
  <2>2. Ready(w, alive, log, leader)
    BY <1>2, <1>5, <1>6, <2>1, RefreshedReady
  <2>3. w.hw \in Nat /\ w.isr \in SUBSET Node
    BY <1>7 DEF Fits, ViewType
  <2> QED BY <1>2, <1>3, <1>5, <1>8, <2>2, <2>3 DEF Ready
<1>12. \A n \in Node : l[n] = log'[n]
  BY <1>4
<1>13. Advances
  BY <1>3, <1>10, Now0 DEF Advances
<1>14. RestType'
  <2>1. client' \in [op : {"write"}, offset : Nat, entry : Entry]
    BY <1>2, <1>3
  <2> QED BY <1>2, <2>1, WriteRest
<1>15. IsrInv'
  BY <1>3, <1>10, <1>13, <1>14, PartsNext
<1> QED BY <1>3, <1>10, <1>11, <1>12, <1>13, <1>15 DEF Step, OrderlyInv

\* A write that finds the ISR below the minimum only refreshes, as does
\* run_until_idle at its end.
LEMMA OnlyRefreshStep == ASSUME IsrInv, WriteRefused \/ LastRefresh PROVE Step
<1>1. /\ Becomes(Refreshed(View, alive, log, leader))
      /\ UNCHANGED <<nodeVars, ctlVars, slow, retained, queue, cut, cliVars>>
  BY DEF WriteRefused, LastRefresh
<1>2. UNCHANGED <<alive, log, durable, leader, epoch, client, written, accepted>>
  BY <1>1 DEF nodeVars, ctlVars, cliVars
<1>3. FitsNow' /\ hw' \in Nat /\ hw' >= hw /\ (TightInv => TightInv')
  BY <1>1, <1>2, StillRefresh
<1>4. Advances
  BY <1>2, <1>3, Now0 DEF Advances
<1>5. QueueInv' /\ QueueStep
  BY <1>1, <1>4, NothingQueued
<1>6. NodesType' /\ RestType'
  BY <1>1, <1>2, PartsNow DEF NodesType, RestType
<1>7. IsrInv'
  BY <1>3, <1>5, <1>6, PartsNext
<1> QED BY <1>3, <1>5, <1>7 DEF Step, OrderlyInv

\* The call that waits returns: only an accepted write adds to what is known.
LEMMA ReturnsStep == ASSUME IsrInv, Returns PROVE Step
<1>1. /\ client # Idle /\ WriteReturns
      /\ \/ UNCHANGED accepted
         \/ accepted' = accepted \cup {[offset |-> client.offset, entry |-> client.entry]}
  BY DEF Returns, WriteAccepted, WriteUnknown, Accepts
<1>2. /\ client' = Idle
      /\ UNCHANGED <<alive, log, durable, leader, epoch, slow, retained, queue, cut, written>>
      /\ UNCHANGED <<log, viewVars, leader>>
  BY <1>1 DEF WriteReturns, nodeVars, ctlVars
<1>3. FitsNow' /\ hw' \in Nat /\ hw' >= hw /\ (TightInv => TightInv')
  BY <1>2, SameView
<1>4. Advances
  BY <1>2, <1>3, Now0 DEF Advances
<1>5. QueueInv' /\ QueueStep
  BY <1>2, <1>4, NothingQueued
<1>6. NodesType'
  BY <1>2, PartsNow DEF NodesType
<1>7. accepted' \subseteq [offset : Nat, entry : Entry]
  BY <1>1, PartsNow DEF RestType
<1>8. RestType'
  BY <1>2, <1>7, PartsNow DEF RestType
<1>9. IsrInv'
  BY <1>3, <1>5, <1>6, <1>8, PartsNext
<1> QED BY <1>3, <1>5, <1>9 DEF Step, OrderlyInv

----------------------------------------------------------------------------
(* Replica speed and faults *)

\* The leader synchronizes n, unless n leads or the leader is down.
LEMMA SynchronizeStep ==
  ASSUME IsrInv, Advances, UNCHANGED <<log, ctlVars, retained>>,
         NEW n \in Node, NEW slowNow, NEW up, NEW c, Synchronize(n, slowNow, up, c)
  PROVE  QueueInv' /\ QueueStep
<1>1. CASE n # leader /\ up[leader]
  <2>1. queue' = queue \o Wired(Sync(n, leader, epoch, log, slowNow), c) /\ n \in Node \ {leader}
    BY <1>1 DEF Synchronize
  <2> QED BY <2>1, SyncQueued
<1>2. CASE ~(n # leader /\ up[leader])
  <2>1. queue' = queue
    BY <1>2 DEF Synchronize
  <2> QED BY <2>1, NothingQueued
<1> QED BY <1>1, <1>2

\* A replica is made slow, or no longer.
LEMMA SpeedStep == ASSUME IsrInv, NEW n \in Node, SetSlow(n) \/ ClearSlow(n) PROVE Step
<1>1. /\ UNCHANGED <<nodeVars, viewVars, ctlVars, retained, cut, cliVars>>
      /\ slow' = slow \cup {n} \/ slow' = slow \ {n}
      /\ queue' = queue \/ Synchronize(n, slow', alive, cut)
  BY DEF SetSlow, ClearSlow
<1>2. /\ UNCHANGED <<alive, log, durable, leader, epoch, client, written, accepted>>
      /\ UNCHANGED <<log, viewVars, leader>> /\ \A i \in Node : alive[i] => alive'[i]
  BY <1>1 DEF nodeVars, ctlVars, cliVars
<1>3. FitsNow' /\ hw' \in Nat /\ hw' >= hw /\ (TightInv => TightInv')
  BY <1>2, SameView
<1>4. Advances
  BY <1>2, <1>3, Now0 DEF Advances
<1>5. QueueInv' /\ QueueStep
  <2>1. CASE queue' = queue
    BY <1>4, <2>1, NothingQueued
  <2>2. CASE Synchronize(n, slow', alive, cut)
    <3>1. PICK s, u, c : s = slow' /\ u = alive /\ c = cut /\ Synchronize(n, s, u, c)
      BY <2>2
    <3> QED BY <1>1, <1>2, <1>4, <3>1, SynchronizeStep
  <2> QED BY <1>1, <2>1, <2>2
<1>6. NodesType' /\ RestType'
  BY <1>1, <1>2, PartsNow DEF NodesType, RestType
<1>7. IsrInv'
  BY <1>3, <1>5, <1>6, PartsNext
<1> QED BY <1>3, <1>5, <1>7 DEF Step, OrderlyInv

\* A log reaches the disk.
LEMMA FsyncStep == ASSUME IsrInv, NEW n \in Node, Fsync(n) PROVE Step
<1>1. /\ durable' = [durable EXCEPT ![n] = log[n]]
      /\ UNCHANGED <<alive, log, viewVars, ctlVars, slow, retained, queue, cut, cliVars>>
  BY DEF Fsync
<1>2. /\ UNCHANGED <<alive, log, leader, epoch, client, written, accepted>>
      /\ \A i \in Node : alive[i] => alive'[i]
  BY <1>1 DEF ctlVars, cliVars
<1>3. FitsNow' /\ hw' \in Nat /\ hw' >= hw /\ (TightInv => TightInv')
  BY <1>1, <1>2, SameView
<1>4. Advances
  BY <1>2, <1>3, Now0 DEF Advances
<1>5. QueueInv' /\ QueueStep
  BY <1>1, <1>4, NothingQueued
<1>6. durable' \in [Node -> Seq(Entry)]
  BY <1>1, Now0
<1>7. NodesType' /\ RestType'
  BY <1>1, <1>2, <1>6, PartsNow DEF NodesType, RestType
<1>8. IsrInv'
  BY <1>3, <1>5, <1>7, PartsNext
<1> QED BY <1>3, <1>5, <1>8 DEF Step, OrderlyInv

\* A node comes up again, or its links do, and the leader synchronizes it.
LEMMA BackStep == ASSUME IsrInv, NEW n \in Node, Restart(n) \/ Heal(n) PROVE Step
<1>1. /\ UNCHANGED <<log, durable, viewVars, ctlVars, slow, retained, cliVars>>
      /\ alive' = [alive EXCEPT ![n] = TRUE] \/ alive' = alive
      /\ cut' = cut \ LinksOf(n)
      /\ \E u, c : Synchronize(n, slow, u, c)
  BY DEF Restart, Heal, nodeVars
<1>2. /\ UNCHANGED <<log, durable, leader, epoch, client, written, accepted>>
      /\ UNCHANGED <<log, viewVars, leader>>
      /\ alive' \in [Node -> BOOLEAN] /\ \A i \in Node : alive[i] => alive'[i]
  BY <1>1, Now0 DEF ctlVars, cliVars
<1>3. FitsNow' /\ hw' \in Nat /\ hw' >= hw /\ (TightInv => TightInv')
  BY <1>2, SameView
<1>4. Advances
  BY <1>2, <1>3, Now0 DEF Advances
<1>5. QueueInv' /\ QueueStep
  <2>1. PICK s, u, c : s = slow /\ Synchronize(n, s, u, c)
    BY <1>1
  <2> QED BY <1>1, <1>2, <1>4, <2>1, SynchronizeStep
<1>6. NodesType' /\ RestType'
  BY <1>1, <1>2, PartsNow DEF NodesType, RestType
<1>7. IsrInv'
  BY <1>3, <1>5, <1>6, PartsNext
<1> QED BY <1>3, <1>5, <1>7 DEF Step, OrderlyInv

\* A view from which a node is removed.
LEMMA Leaves ==
  ASSUME NEW v, NEW l, Fits(v, l), NEW n, NEW w, w = [v EXCEPT !.isr = @ \ {n}]
  PROVE  /\ Fits(w, l) /\ w.hw = v.hw /\ w.isr = v.isr \ {n} /\ w.applied = v.applied
<1>1. v \in ViewType
  BY DEF Fits
<1>2. w \in ViewType /\ w.hw = v.hw /\ w.isr = v.isr \ {n} /\ w.applied = v.applied
  BY <1>1 DEF ViewType
<1> QED BY <1>2 DEF Fits

\* A node loses its links and leaves the in-sync set.
LEMMA IsolateStep == ASSUME IsrInv, NEW n \in Node, Isolate(n) PROVE Step
<1>1. PICK v, w, r :
        /\ v = View /\ w = [v EXCEPT !.isr = @ \ {n}]
        /\ r = Refreshed(w, alive, log, leader)
  OBVIOUS
<1>2. /\ cut' = cut \cup LinksOf(n) /\ Becomes(r)
      /\ UNCHANGED <<nodeVars, ctlVars, slow, retained, queue, cliVars>>
  BY <1>1 DEF Isolate
<1>3. UNCHANGED <<alive, log, durable, leader, epoch, client, written, accepted>>
  BY <1>2 DEF nodeVars, ctlVars, cliVars
<1>4. /\ Fits(v, log) /\ v.hw = hw /\ v.isr = isr /\ v.applied = applied /\ hw \in Nat
      /\ log \in [Node -> Seq(Entry)] /\ leader' \in Node
  BY <1>1, <1>3, PartsNow, Now0 DEF FitsNow, View
<1>5. Fits(w, log) /\ w.hw = hw /\ w.isr = isr \ {n} /\ w.applied = applied /\ hw <= w.hw
  <2>1. w = [v EXCEPT !.isr = @ \ {n}] /\ Fits(v, log)
    BY <1>1, <1>4
  <2>2. Fits(w, log) /\ w.hw = v.hw /\ w.isr = v.isr \ {n} /\ w.applied = v.applied
    BY <2>1, Leaves
  <2> QED BY <1>4, <2>2
<1>6. NodesType' /\ \A i \in Node : Begins(log[i], log'[i])
  BY <1>3, PartsNow, Now0 DEF NodesType, Begins
<1>7. r = Refreshed(w, alive', log, leader')
  BY <1>1, <1>3
<1>8. /\ FitsNow' /\ hw' \in Nat /\ hw' >= hw
      /\ /\ Ready(w, alive', log, leader')
         /\ \A i \in Node : log[i] = log'[i] \/ (i = leader' /\ alive'[i])
         => TightInv'
  BY <1>2, <1>4, <1>5, <1>6, <1>7, RefreshStep
<1>9. TightInv => Ready(w, alive', log, leader')
  BY <1>3, <1>5 DEF TightInv, MembersInv, ExactInv, Ready
<1>10. Advances
  BY <1>3, <1>8, Now0 DEF Advances
<1>11. QueueInv' /\ QueueStep
  BY <1>2, <1>10, NothingQueued
<1>12. cut' \subseteq Node \X Node
  BY <1>2, PartsNow DEF RestType, LinksOf
<1>13. RestType'
  BY <1>2, <1>3, <1>12, PartsNow DEF RestType
<1>14. IsrInv'
  BY <1>6, <1>8, <1>11, <1>13, PartsNext
<1> QED BY <1>3, <1>8, <1>9, <1>11, <1>14 DEF Step, OrderlyInv

\* In the view v what node n has applied starts its log s.  In an orderly group
\* it is as much as the log and the watermark allow.
Rebuilt(n, s, v) ==
  /\ v \in ViewType /\ v.hw = hw /\ v.isr = isr
  /\ Len(v.applied[n]) <= hw /\ Begins(v.applied[n], s)
  /\ \A i \in Node : i # n => v.applied[i] = applied[i]
  /\ TightInv => Len(v.applied[n]) = Lower(hw, Len(s))

\* A node goes down with the log s.
LEMMA GoesDownStep ==
  ASSUME IsrInv, NEW n \in Node, NEW s \in Seq(Entry), NEW v, GoesDown(n, s, v), Rebuilt(n, s, v)
  PROVE  Step
<1>0. PICK w : w = [v EXCEPT !.isr = @ \ {n}]
  OBVIOUS
<1>1. PICK l : l = [log EXCEPT ![n] = s]
  OBVIOUS
<1>2. /\ alive' = [alive EXCEPT ![n] = FALSE] /\ cut' = cut \cup LinksOf(n) /\ log' = l
      /\ Becomes(Refreshed(w, alive', log', leader))
      /\ UNCHANGED <<durable, ctlVars, slow, retained, queue, cliVars>>
  BY <1>0, <1>1 DEF GoesDown
<1>3. UNCHANGED <<durable, leader, epoch, client, written, accepted>>
  BY <1>2 DEF ctlVars, cliVars
<1>4. /\ l \in [Node -> Seq(Entry)] /\ l[n] = s /\ \A i \in Node : i # n => l[i] = log[i]
      /\ \A i \in Node : Len(l[i]) \in Nat
  <2>1. NodesType
    BY PartsNow
  <2>2. l \in [Node -> Seq(Entry)] /\ l[n] = s
    BY <1>1, <2>1, LogChange
  <2>3. \A i \in Node : i # n => l[i] = log[i]
    BY <1>1, <2>1 DEF NodesType
  <2> QED BY <2>2, <2>3, LenProperties
<1>5. \A i \in Node : Len(applied[i]) <= hw /\ Begins(applied[i], log[i])
  BY DEF IsrInv, AppliedInv
<1>6. Fits(v, l)
  <2>1. \A i \in Node : Len(v.applied[i]) <= hw /\ Begins(v.applied[i], l[i])
    BY <1>4, <1>5 DEF Rebuilt
  <2> QED BY <2>1 DEF Fits, Rebuilt
<1>7. Fits(w, l) /\ w.hw = v.hw /\ w.isr = v.isr \ {n} /\ w.applied = v.applied
  <2>1. w = [v EXCEPT !.isr = @ \ {n}] /\ Fits(v, l)
    BY <1>0, <1>6
  <2>2. w.hw = v.hw /\ w.isr = v.isr \ {n} /\ w.applied = v.applied
    BY <2>1, Leaves
  <2>3. Fits(w, l)
    BY <2>1, Leaves
  <2> QED BY <2>2, <2>3
<1>8. alive' \in [Node -> BOOLEAN] /\ NodesType' /\ hw \in Nat /\ leader \in Node
      /\ leader' \in Node /\ isr \in SUBSET Node
  BY <1>2, <1>3, <1>4, Now0 DEF NodesType
<1>9. PICK r : r = Refreshed(w, alive', l, leader') /\ Becomes(r)
  BY <1>2, <1>3
<1>10. /\ FitsNow' /\ hw' \in Nat /\ hw' >= hw
       /\ /\ Ready(w, alive', l, leader')
          /\ \A i \in Node : l[i] = log'[i] \/ (i = leader' /\ alive'[i])
          => TightInv'
  <2>1. \A i \in Node : Begins(l[i], log'[i])
    BY <1>2, <1>4 DEF Begins
  <2>2. hw <= w.hw
    BY <1>7, <1>8 DEF Rebuilt
  <2> QED BY <1>4, <1>7, <1>8, <1>9, <2>1, <2>2, RefreshStep
<1>11. OrderlyInv /\ Orderly => Ready(w, alive', l, leader')
  <2> SUFFICES ASSUME OrderlyInv, Orderly PROVE Ready(w, alive', l, leader')
    OBVIOUS
  <2>1. TightInv /\ MembersInv /\ ExactInv /\ hw <= Len(log[leader])
    BY DEF OrderlyInv, TightInv
  <2>2. hw <= Len(l[leader])
    <3>1. Len(l[leader]) >= Len(log[leader]) /\ Len(log[leader]) \in Nat
      BY <1>2, <1>3, Now0 DEF Orderly
    <3> QED BY <1>4, <1>8, <2>1, <3>1
  <2>3. \A i \in isr \ {n} : alive'[i] /\ hw <= Len(l[i])
    <3>1. \A i \in isr \ {n} : i \in Node /\ alive[i] /\ hw <= Len(log[i])
      BY <1>8, <2>1 DEF MembersInv
    <3>2. \A i \in Node \ {n} : alive'[i] = alive[i]
      BY <1>2, Now0
    <3> QED BY <1>4, <3>1, <3>2
  <2>4. \A i \in Node : Len(v.applied[i]) = Lower(hw, Len(l[i]))
    BY <1>4, <2>1 DEF ExactInv, Rebuilt
  <2> QED BY <1>3, <1>7, <2>2, <2>3, <2>4 DEF Ready, Rebuilt
<1>12. Advances
  BY <1>3, <1>10, Now0 DEF Advances
<1>13. QueueInv' /\ QueueStep
  BY <1>2, <1>12, NothingQueued
<1>14. cut' \subseteq Node \X Node
  BY <1>2, PartsNow DEF RestType, LinksOf
<1>15. RestType'
  BY <1>2, <1>3, <1>14, PartsNow DEF RestType
<1>16. IsrInv'
  BY <1>8, <1>10, <1>13, <1>15, PartsNext
<1> QED BY <1>2, <1>10, <1>11, <1>13, <1>16 DEF Step

\* A crash that loses nothing.
LEMMA CrashStep == ASSUME IsrInv, NEW n \in Node, Crash(n) PROVE Step
<1>1. PICK s, v : s = log[n] /\ v = View /\ GoesDown(n, s, v)
  BY DEF Crash
<1>2. s \in Seq(Entry)
  BY <1>1, Now0
<1>3. v \in ViewType /\ v.hw = hw /\ v.isr = isr /\ v.applied = applied
  BY <1>1, PartsNow DEF FitsNow, Fits, View
<1>4. Len(applied[n]) <= hw /\ Begins(applied[n], s)
  BY <1>1 DEF IsrInv, AppliedInv
<1>5. TightInv => Len(applied[n]) = Lower(hw, Len(s))
  BY <1>1 DEF TightInv, ExactInv
<1>6. Rebuilt(n, s, v)
  BY <1>3, <1>4, <1>5 DEF Rebuilt
<1> QED BY <1>1, <1>2, <1>6, GoesDownStep

\* A power loss: what was applied is rebuilt from the disk.
LEMMA PowerLossStep == ASSUME IsrInv, NEW n \in Node, PowerLoss(n) PROVE Step
<1>1. PICK s, v : s = durable[n] /\ v = Restored(n) /\ GoesDown(n, s, v)
  BY DEF PowerLoss
<1>2. s \in Seq(Entry) /\ Len(s) \in Nat /\ hw \in Nat
  BY <1>1, Now0
<1>3. PICK a : a = Apply(<<>>, s, hw)
  OBVIOUS
<1>4. a \in Seq(Entry) /\ Len(a) = Lower(hw, Len(s)) /\ Begins(a, s)
  <2>1. <<>> \in Seq(Entry) /\ Begins(<<>>, s) /\ Len(<<>>) <= hw
    BY <1>2 DEF Begins
  <2> QED BY <1>2, <1>3, <2>1, ApplyProperties
<1>5. v \in ViewType /\ v.hw = hw /\ v.isr = isr /\ v.applied[n] = a
      /\ \A i \in Node : i # n => v.applied[i] = applied[i]
  <2>1. PICK w : w = View /\ w \in ViewType /\ w.hw = hw /\ w.isr = isr /\ w.applied = applied
    BY PartsNow DEF FitsNow, Fits, View
  <2>2. v = [w EXCEPT !.applied = [w.applied EXCEPT ![n] = a]]
    BY <1>1, <1>3, <2>1 DEF Restored
  <2>3. PICK f \in [Node -> Seq(Entry)] : f = [w.applied EXCEPT ![n] = a]
    BY <1>4, <2>1 DEF ViewType
  <2>4. v \in ViewType /\ v.applied = f /\ v.hw = w.hw /\ v.isr = w.isr
    BY <2>1, <2>2, <2>3 DEF ViewType
  <2>5. f[n] = a /\ \A i \in Node : i # n => f[i] = w.applied[i]
    BY <2>1, <2>3 DEF ViewType
  <2> QED BY <2>1, <2>4, <2>5
<1>6. Len(a) <= hw
  BY <1>2, <1>4, LowerUpper
<1>7. Rebuilt(n, s, v)
  BY <1>4, <1>5, <1>6 DEF Rebuilt
<1> QED BY <1>1, <1>2, <1>7, GoesDownStep

----------------------------------------------------------------------------
(* Elections and ticks *)

\* The log an elected node starts with: what it holds up to the watermark.
LEMMA SeedProperties ==
  ASSUME IsrInv, NEW n \in Node, NEW s, s = Seed(n)
  PROVE  /\ s \in Seq(Entry) /\ Len(s) = Lower(hw, Len(log[n])) /\ Begins(s, log[n])
         /\ Len(applied[n]) <= hw /\ Begins(applied[n], s)
<1>1. log[n] \in Seq(Entry) /\ Len(log[n]) \in Nat /\ hw \in Nat /\ Len(applied[n]) \in Nat
  BY Now0, LenProperties
<1>2. PICK k \in Nat : k = Lower(hw, Len(log[n])) /\ k <= Len(log[n])
  BY <1>1 DEF Lower
<1>3. s \in Seq(Entry) /\ Len(s) = k /\ Begins(s, log[n])
  BY <1>1, <1>2, SubSeqFirst DEF Seed
<1>4. Len(applied[n]) <= hw /\ Begins(applied[n], log[n])
  BY DEF IsrInv, AppliedInv
<1>5. Len(applied[n]) <= k
  BY <1>1, <1>2, <1>4 DEF Begins, Lower
<1>6. Begins(applied[n], s)
  BY <1>1, <1>3, <1>4, <1>5 DEF Begins
<1> QED BY <1>2, <1>3, <1>4, <1>6

\* The elected node synchronizes every live node.
LEMMA ElectQueued ==
  ASSUME IsrInv, NEW n \in Node, Elect(n), Advances, log' \in [Node -> Seq(Entry)]
  PROVE  QueueInv' /\ QueueStep
<1>1. PICK S, fs : S = {f \in Node \ {n} : alive[f]} /\ fs = NodesInOrder(S)
  OBVIOUS
<1>2. PICK l, ep, sl : l = log' /\ ep = epoch' /\ sl = slow
  OBVIOUS
<1>3. PICK outs : outs = [k \in DOMAIN fs |-> Sync(fs[k], n, ep, l, sl)]
  OBVIOUS
<1>4. /\ leader' = n /\ epoch' = epoch + 1
      /\ queue' = queue \o Wired(FlattenSeq(outs), cut)
      /\ UNCHANGED <<retained, hw>>
  BY <1>1, <1>2, <1>3 DEF Elect
<1>5. /\ l \in [Node -> Seq(Entry)] /\ ep \in Nat /\ hw \in Nat
      /\ retained \in Seq(RetainedEntry)
  BY <1>2, <1>4, Now0
<1>6. Len(fs) \in Nat /\ DOMAIN fs = 1..Len(fs) /\ \A k \in DOMAIN fs : fs[k] \in Node \ {n}
  <2>1. S \in SUBSET Node /\ S \subseteq Node \ {n}
    BY <1>1
  <2>2. fs \in Seq(S)
    BY <1>1, <2>1, NodesInOrderProperties, Constants
  <2> QED BY <2>1, <2>2, LenProperties, ElementOfSeq
<1>7. ASSUME NEW f \in Node \ {n}, NEW out, out = Sync(f, n, ep, l, sl)
      PROVE  out \in Seq(Message) /\ \A m \in InFlight(out) : Sent(m)
  <2>1. PICK kept \in Seq(RetainedEntry) : kept = retained
    BY <1>5
  <2>2. out \in Seq(Message) /\ \A m \in InFlight(out) : Syncs(m, f, n, ep, kept, l[n])
    BY <1>5, <1>7, <2>1, SyncProperties
  <2> QED BY <1>2, <1>4, <2>1, <2>2 DEF Sent
<1>8. /\ outs \in Seq(Seq(Message)) /\ DOMAIN outs = DOMAIN fs
      /\ \A k \in DOMAIN outs : \A m \in InFlight(outs[k]) : Sent(m)
  <2>1. \A k \in DOMAIN fs : outs[k] = Sync(fs[k], n, ep, l, sl)
    BY <1>3
  <2>2. \A k \in DOMAIN fs : outs[k] \in Seq(Message) /\ \A m \in InFlight(outs[k]) : Sent(m)
    BY <1>6, <1>7, <2>1
  <2>3. outs \in [1..Len(fs) -> Seq(Message)]
    BY <1>3, <1>6, <2>2
  <2>4. outs \in Seq(Seq(Message)) /\ DOMAIN outs = DOMAIN fs
    BY <1>6, <2>3, FunctionIsSeq
  <2> QED BY <2>2, <2>4
<1>9. PICK all \in Seq(Message) :
        /\ all = FlattenSeq(outs)
        /\ \A j \in DOMAIN all : \E i \in DOMAIN outs : \E k \in DOMAIN outs[i] :
             all[j] = outs[i][k]
  BY <1>8, FlattenProperties DEF Gathers
<1>10. \A m \in InFlight(all) : Sent(m)
  BY <1>8, <1>9 DEF InFlight
<1> QED BY <1>4, <1>9, <1>10, Queued

\* An election.  In an orderly group the elected node has all that is below the
\* watermark, and nothing of it is truncated.
LEMMA ElectStep == ASSUME IsrInv, NEW n \in Node, Elect(n) PROVE Step
<1>1. PICK s : s = Seed(n)
  OBVIOUS
<1>2. /\ Electable(n)
      /\ epoch' = epoch + 1 /\ leader' = n /\ log' = [log EXCEPT ![n] = s]
      /\ isr' = isr \ {leader} /\ lease' = LeaseDuration
      /\ UNCHANGED <<alive, durable, hw, lag, applied, slow, retained, cut, cliVars>>
  BY <1>1 DEF Elect
<1>3. UNCHANGED <<client, written, accepted>>
  BY <1>2 DEF cliVars
<1>4. /\ s \in Seq(Entry) /\ Len(s) = Lower(hw, Len(log[n])) /\ Begins(s, log[n])
      /\ Len(applied[n]) <= hw /\ Begins(applied[n], s)
  BY <1>1, SeedProperties
<1>5. /\ log' \in [Node -> Seq(Entry)] /\ log'[n] = s
      /\ \A i \in Node : i # n => log'[i] = log[i]
  <2>1. NodesType
    BY PartsNow
  <2>2. log' = [log EXCEPT ![n] = s] /\ s \in Seq(Entry)
    BY <1>2, <1>4
  <2> QED BY <2>1, <2>2 DEF NodesType
<1>6. NodesType' /\ hw \in Nat /\ epoch \in Nat /\ isr \in SUBSET Node
      /\ \A i \in Node : Len(log[i]) \in Nat
  BY <1>2, <1>5, Now0 DEF NodesType
<1>7. Advances
  BY <1>2, <1>6 DEF Advances
<1>8. QueueInv' /\ QueueStep
  BY <1>5, <1>7, ElectQueued
<1>9. FitsNow'
  <2>1. PICK v : v = [isr |-> isr', hw |-> hw, lag |-> lag, lease |-> lease', applied |-> applied]
    OBVIOUS
  <2>2. v = View'
    BY <1>2, <2>1 DEF View
  <2>3. v \in ViewType
    <3>1. View \in ViewType /\ View = [isr |-> isr, hw |-> hw, lag |-> lag, lease |-> lease, applied |-> applied]
      BY PartsNow DEF FitsNow, Fits, View
    <3>2. lease' \in -1..LeaseDuration /\ isr' \in SUBSET Node
      BY <1>2, <1>6, Constants
    <3> QED BY <2>1, <3>1, <3>2 DEF ViewType
  <2>4. \A i \in Node : Len(applied[i]) <= hw /\ Begins(applied[i], log'[i])
    BY <1>4, <1>5 DEF IsrInv, AppliedInv
  <2>5. Fits(v, log')
    BY <2>1, <2>3, <2>4 DEF Fits
  <2>6. Fits(View', log')
    BY <2>2, <2>5
  <2> QED BY <2>6 DEF FitsNow, Fits, ViewType, Begins
<1>10. RestType'
  BY <1>2, <1>3, <1>7, PartsNow DEF RestType, Advances
<1>11. IsrInv'
  BY <1>6, <1>8, <1>9, <1>10, PartsNext
<1>12. ASSUME OrderlyInv, Orderly
       PROVE  TightInv'
  <2>1. MembersInv /\ ExactInv /\ hw <= Len(log[leader])
    BY <1>12 DEF OrderlyInv, TightInv
  <2>2. n \in isr /\ hw <= Len(log[n])
    BY <1>2, <2>1 DEF Electable, MembersInv
  <2>3. Len(s) = hw /\ Lower(hw, Len(s)) = hw
    BY <1>4, <1>6, <2>2 DEF Lower
  <2>4. \A i \in Node : Len(log'[i]) = Len(log[i]) \/ (i = n /\ Len(log'[i]) = hw)
    BY <1>5, <2>3
  <2>5. hw' <= Len(log'[leader'])
    BY <1>2, <1>5, <1>6, <2>3
  <2>6. MembersInv'
    BY <1>2, <1>6, <2>1, <2>4 DEF MembersInv
  <2>7. ExactInv'
    <3>1. Len(applied[n]) = Lower(hw, Len(log[n])) /\ Lower(hw, Len(log[n])) = hw
      BY <1>6, <2>1, <2>2 DEF ExactInv, Lower
    <3>2. \A i \in Node : Len(applied[i]) = Lower(hw, Len(log'[i]))
      BY <1>5, <2>1, <2>3, <3>1 DEF ExactInv
    <3> QED BY <1>2, <3>2 DEF ExactInv
  <2> QED BY <2>5, <2>6, <2>7 DEF TightInv
<1> QED BY <1>7, <1>8, <1>11, <1>12 DEF Step, Advances

\* The message m a tick later is a.
Aged(m, a) == a = [m EXCEPT !.wait = m.wait - 1]

\* The queue a tick later.
QueueAged ==
  /\ \A a \in InFlight(queue') : \E m \in InFlight(queue) : Aged(m, a)
  /\ \A a, b : Precedes(queue', a, b) => \E m, o : Precedes(queue, m, o) /\ Aged(m, a) /\ Aged(o, b)

\* Only the time to wait differs.
LEMMA AgedProperties ==
  ASSUME NEW m \in Message, NEW a, Aged(m, a)
  PROVE  /\ a.type = m.type /\ a.src = m.src /\ a.dst = m.dst /\ a.epoch = m.epoch
         /\ m.type = "append" => a.offset = m.offset /\ a.entry = m.entry
         /\ m.type = "snapshot" => a.log = m.log /\ a.hw = m.hw
BY DEF Message, Aged

\* What a tick does to the queue.
LEMMA QueueAges ==
  ASSUME IsrInv, Tick, UNCHANGED epoch, hw' \in Nat, hw' >= hw
  PROVE  QueueInv' /\ QueueAged
<1>1. PICK q \in Seq(Message) : q = queue /\ WaitsIn(q) /\ ~Due(q)
  BY DEF Tick, Ticking, IsrInv, TypeOK, WaitsInv
<1>2. PICK r : r = [k \in DOMAIN q |-> [q[k] EXCEPT !.wait = @ - 1]] /\ queue' = r
  BY <1>1 DEF Tick
<1>3. /\ r \in Seq(Message) /\ WaitsIn(r) /\ DOMAIN r = DOMAIN q
      /\ \A k \in DOMAIN q : Aged(q[k], r[k])
  BY <1>1, <1>2, WaitsTick DEF Aged
<1>4. QueueAged
  <2>1. \A a \in InFlight(queue') : \E m \in InFlight(queue) : Aged(m, a)
    <3>1. ASSUME NEW a \in InFlight(r)
          PROVE  \E m \in InFlight(q) : Aged(m, a)
      <4>1. PICK k \in DOMAIN q : a = r[k]
        BY <1>3 DEF InFlight
      <4>2. q[k] \in InFlight(q) /\ Aged(q[k], a)
        BY <1>3, <4>1 DEF InFlight
      <4> QED BY <4>2
    <3> QED BY <1>1, <1>2, <3>1
  <2>2. ASSUME NEW a, NEW b, Precedes(queue', a, b)
        PROVE  \E m, o : Precedes(queue, m, o) /\ Aged(m, a) /\ Aged(o, b)
    <3>1. PICK i \in DOMAIN q, j \in DOMAIN q : i < j /\ r[i] = a /\ r[j] = b
      BY <1>2, <1>3, <2>2 DEF Precedes
    <3>2. Precedes(q, q[i], q[j]) /\ Aged(q[i], a) /\ Aged(q[j], b)
      BY <1>3, <3>1 DEF Precedes
    <3> QED BY <1>1, <3>2
  <2> QED BY <2>1, <2>2 DEF QueueAged
<1>5. WaitsInv'
  BY <1>2, <1>3 DEF WaitsInv, WaitsIn
<1>6. MessagesInv'
  <2> SUFFICES ASSUME NEW a \in InFlight(queue')
               PROVE  a.src # a.dst /\ a.epoch <= epoch' /\ (a.type = "snapshot" => a.hw <= hw')
    BY DEF MessagesInv
  <2>1. PICK m \in InFlight(queue) : Aged(m, a)
    BY <1>4 DEF QueueAged
  <2>2. m \in Message
    BY <1>1, LenProperties, ElementOfSeq DEF InFlight
  <2>3. /\ a.type = m.type /\ a.src = m.src /\ a.dst = m.dst /\ a.epoch = m.epoch
        /\ m.type = "snapshot" => a.hw = m.hw
    BY <2>1, <2>2, AgedProperties
  <2>4. m.src # m.dst /\ m.epoch <= epoch /\ (m.type = "snapshot" => m.hw <= hw)
    BY DEF IsrInv, MessagesInv
  <2>5. m.type = "snapshot" => m.hw \in Nat
    BY <2>2, MessageProperties
  <2>6. m.type = "snapshot" => m.hw <= hw'
    BY <2>4, <2>5, Now0
  <2> QED BY <2>3, <2>4, <2>6
<1> QED BY <1>2, <1>3, <1>4, <1>5, <1>6 DEF QueueInv

\* A tick: time passes, and unless there is something due a refresh follows.
LEMMA TickStep == ASSUME IsrInv, Tick PROVE IsrInv' /\ hw' >= hw /\ QueueAged /\ (TightInv => TightInv')
<1>1. PICK v :
        v = [View EXCEPT !.lag = [n \in Node |-> Lower(lag[n] + 1, LagTimeout)],
                         !.lease = Upper(lease - 1, -1)]
  OBVIOUS
<1>2. /\ Becomes(v) \/ Becomes(Refreshed(v, alive, log, leader))
      /\ UNCHANGED <<nodeVars, ctlVars, slow, retained, cut, cliVars>>
  BY <1>1 DEF Tick, View
<1>3. UNCHANGED <<alive, log, durable, leader, epoch, client, written, accepted>>
  BY <1>2 DEF nodeVars, ctlVars, cliVars
<1>4. View \in ViewType /\ \A n \in Node : Len(applied[n]) <= hw /\ Begins(applied[n], log[n])
  BY PartsNow DEF FitsNow, Fits, View
<1>5. v \in ViewType /\ v.isr = isr /\ v.hw = hw /\ v.applied = applied
  <2>1. /\ lag \in [Node -> 0..LagTimeout] /\ lease \in -1..LeaseDuration
        /\ LagTimeout \in Nat /\ LeaseDuration \in Nat
    BY Constants DEF IsrInv, TypeOK
  <2>2. [n \in Node |-> Lower(lag[n] + 1, LagTimeout)] \in [Node -> 0..LagTimeout]
    BY <2>1 DEF Lower
  <2>3. Upper(lease - 1, -1) \in -1..LeaseDuration
    BY <2>1 DEF Upper
  <2> HIDE DEF Lower, Upper
  <2>4. PICK f \in [Node -> 0..LagTimeout], e \in -1..LeaseDuration :
          v = [View EXCEPT !.lag = f, !.lease = e]
    BY <1>1, <2>2, <2>3
  <2>5. v = [isr |-> isr, hw |-> hw, lag |-> f, lease |-> e, applied |-> applied]
    BY <2>4 DEF View
  <2> QED BY <1>4, <2>5 DEF ViewType, View
<1>6. Fits(v, log)
  BY <1>4, <1>5 DEF Fits
<1>7. NodesType' /\ RestType'
  BY <1>2, <1>3, PartsNow DEF NodesType, RestType
<1>8. FitsNow' /\ hw' \in Nat /\ hw' >= hw /\ (TightInv => TightInv')
  <2>1. CASE Becomes(v)
    <3>1. Fits(v, log')
      BY <1>3, <1>6
    <3>2. FitsNow'
      BY <2>1, <3>1, BecomesFits
    <3>3. UNCHANGED <<isr, hw, applied>> /\ hw \in Nat
      BY <1>5, <2>1, Now0 DEF Becomes
    <3>4. TightInv => TightInv'
      BY <1>3, <3>3 DEF TightInv, MembersInv, ExactInv
    <3> QED BY <3>2, <3>3, <3>4
  <2>2. CASE Becomes(Refreshed(v, alive, log, leader))
    <3>1. PICK r : r = Refreshed(v, alive', log, leader') /\ Becomes(r)
      BY <1>3, <2>2
    <3>2. \A n \in Node : Begins(log[n], log'[n])
      BY <1>3, Now0 DEF Begins
    <3>3. hw \in Nat /\ hw <= v.hw /\ leader' \in Node /\ log \in [Node -> Seq(Entry)]
      BY <1>3, <1>5, Now0
    <3>4. /\ FitsNow' /\ hw' \in Nat /\ hw' >= hw
          /\ /\ Ready(v, alive', log, leader')
             /\ \A n \in Node : log[n] = log'[n] \/ (n = leader' /\ alive'[n])
             => TightInv'
      BY <1>6, <1>7, <3>1, <3>2, <3>3, RefreshStep
    <3>5. TightInv => Ready(v, alive', log, leader')
      BY <1>3, <1>5 DEF TightInv, MembersInv, ExactInv, Ready
    <3> QED BY <1>3, <3>4, <3>5
  <2> QED BY <1>2, <2>1, <2>2
<1>9. QueueInv' /\ QueueAged
  BY <1>3, <1>8, QueueAges
<1>10. IsrInv'
  BY <1>7, <1>8, <1>9, PartsNext
<1> QED BY <1>8, <1>9, <1>10

----------------------------------------------------------------------------
(* The invariant of every behaviour holds *)

\* A stuttering step.
LEMMA StutterStep == ASSUME IsrInv, UNCHANGED vars PROVE Step
<1>1. UNCHANGED <<alive, log, durable, isr, hw, lag, lease, applied, leader, epoch, slow,
                  retained, queue, cut, client, written, accepted>>
  BY DEF vars, nodeVars, viewVars, ctlVars, cliVars
<1>2. FitsNow' /\ hw' \in Nat /\ hw' >= hw /\ (TightInv => TightInv')
  BY <1>1, SameView DEF viewVars
<1>3. Advances
  BY <1>1, <1>2, Now0 DEF Advances
<1>4. QueueInv' /\ QueueStep
  BY <1>1, <1>3, NothingQueued
<1>5. NodesType' /\ RestType'
  BY <1>1, PartsNow DEF NodesType, RestType
<1>6. IsrInv'
  BY <1>2, <1>4, <1>5, PartsNext
<1> QED BY <1>2, <1>4, <1>6 DEF Step, OrderlyInv

\* A group starts in order.
LEMMA InitInv == ASSUME Init PROVE IsrInv
<1>1. TypeOK
  BY Constants DEF Init, TypeOK
<1>2. WaitsInv
  BY DEF Init, WaitsInv, WaitsIn
<1>3. AppliedInv
  BY DEF Init, AppliedInv, Begins
<1>4. MessagesInv
  BY DEF Init, MessagesInv, InFlight
<1> QED BY <1>1, <1>2, <1>3, <1>4 DEF IsrInv

\* Every step but a tick is a Step.
LEMMA StepsKeep ==
  ASSUME IsrInv, [Next]_vars
  PROVE  Step \/ (Tick /\ IsrInv' /\ hw' >= hw /\ QueueAged /\ (TightInv => TightInv'))
<1>1. CASE Tick
  BY <1>1, TickStep
<1>2. CASE Deliver
  BY <1>2, IgnoreStep, AppendStep, OutOfOrderStep, SnapshotStep DEF Deliver
<1>3. CASE WriteRefused \/ LastRefresh
  BY <1>3, OnlyRefreshStep
<1>4. CASE WriteLeader \/ WriteAllIsr \/ Returns
  BY <1>4, WriteLeaderStep, WriteAllIsrStep, ReturnsStep
<1>5. ASSUME NEW n \in Node, \/ SetSlow(n) \/ ClearSlow(n) \/ Fsync(n) \/ Crash(n) \/ PowerLoss(n)
                             \/ Restart(n) \/ Isolate(n) \/ Heal(n) \/ Elect(n)
      PROVE  Step
  BY <1>5, SpeedStep, FsyncStep, CrashStep, PowerLossStep, BackStep, IsolateStep, ElectStep
<1>6. CASE UNCHANGED vars
  BY <1>6, StutterStep
<1> QED BY <1>1, <1>2, <1>3, <1>4, <1>5, <1>6 DEF Next

\* Every reachable state satisfies the invariant.
LEMMA IsrInvHolds == Spec => []IsrInv
<1>1. Init => IsrInv
  BY InitInv
<1>2. IsrInv /\ [Next]_vars => IsrInv'
  BY StepsKeep DEF Step
<1> QED BY <1>1, <1>2, PTL DEF Spec

\* The fields of _Node and IsrGroup stay of their kinds and the retained log
\* within its bound, whatever is written, lost, synchronized or elected.
THEOREM TypeCorrect == Spec => []TypeOK
<1>1. IsrInv => TypeOK
  BY DEF IsrInv
<1> QED BY <1>1, IsrInvHolds, PTL

\* committed_data is always the replay of the node's own log up to applied_hw:
\* neither a truncation at an election nor a snapshot nor a power loss takes an
\* applied entry out of the log under it.
THEOREM AppliedIsPrefixHolds == Spec => []AppliedIsPrefix
<1>1. IsrInv => AppliedIsPrefix
  <2> SUFFICES ASSUME IsrInv, NEW n \in Node
               PROVE  /\ Len(applied[n]) <= Len(log[n])
                      /\ applied[n] = SubSeq(log[n], 1, Len(applied[n]))
    BY DEF AppliedIsPrefix
  <2>1. applied[n] \in Seq(Entry) /\ log[n] \in Seq(Entry) /\ Begins(applied[n], log[n])
    BY Now0 DEF IsrInv, AppliedInv
  <2>2. IsPrefix(applied[n], log[n])
    BY <2>1, PrefixProperties
  <2> QED BY <2>1, <2>2 DEF IsPrefix, Begins
<1> QED BY <1>1, IsrInvHolds, PTL

----------------------------------------------------------------------------
(* Orderly behaviours: what a step does to the logs *)

\* Two prefixes of one log: the shorter begins the longer.
LEMMA TwoPrefixes ==
  ASSUME NEW s, NEW u, NEW t, Len(s) \in Nat, Len(u) \in Nat, Begins(s, t), Begins(u, t),
         Len(s) <= Len(u)
  PROVE  Begins(s, u)
BY DEF Begins

\* The leader's log only grows, every log starts it, what is retained is in it,
\* the log of another node grows only by the message at the head of the queue,
\* and what the calls know is in it.
Flow ==
  /\ (leader' = leader /\ epoch' = epoch) \/ epoch' = epoch + 1
  /\ Begins(log[leader], log'[leader'])
  /\ \A n \in Node : Begins(log'[n], log'[leader']) /\ Begins(durable'[n], log'[n])
  /\ \A r \in InFlight(retained') :
       r \in InFlight(retained) \/ Has(log'[leader'], r.offset, r.entry)
  /\ \A n \in Node :
       \/ n = leader' \/ Len(log'[n]) <= Len(log[n])
       \/ /\ queue # <<>> /\ queue' = Tail(queue)
          /\ Head(queue) \in Now /\ Len(log'[n]) <= Reach(Head(queue))
  /\ \A a \in accepted' :
       a \in accepted \/ (client # Idle /\ a.offset = client.offset /\ a.entry = client.entry
                          /\ a.offset <= hw')
  /\ client' # Idle =>
       client' = client \/ Has(log'[leader'], client'.offset, client'.entry)

\* The logs stay.
LEMMA StillFlow ==
  ASSUME OrderlyInv, UNCHANGED <<log, durable, leader, epoch, retained, client, accepted>>
  PROVE  Flow
<1>1. IsrInv /\ LogsInv
  BY DEF OrderlyInv
<1>2. \A n \in Node : Len(log[n]) \in Nat
  BY <1>1, Now0
<1>3. leader \in Node
  BY <1>1, Now0
<1> QED BY <1>1, <1>2, <1>3 DEF Flow, LogsInv

\* Most steps do nothing to the logs.
LEMMA QuietFlow ==
  ASSUME OrderlyInv,
         \/ Ignore \/ ReceiveOutOfOrder \/ WriteRefused \/ LastRefresh \/ UNCHANGED vars
         \/ \E n \in Node : SetSlow(n) \/ ClearSlow(n) \/ Crash(n) \/ Restart(n) \/ Isolate(n) \/ Heal(n)
  PROVE  Flow
<1>1. CASE \E n \in Node : Crash(n)
  <2>1. PICK n \in Node : Crash(n)
    BY <1>1
  <2>2. /\ log' = [log EXCEPT ![n] = log[n]]
        /\ UNCHANGED <<durable, leader, epoch, retained, client, accepted>>
    BY <2>1 DEF Crash, GoesDown, ctlVars, cliVars
  <2>3. log' = log
    BY <2>2, Now0 DEF OrderlyInv
  <2> QED BY <2>2, <2>3, StillFlow
<1>2. CASE ~ \E n \in Node : Crash(n)
  <2>1. UNCHANGED <<log, durable, leader, epoch, retained, client, accepted>>
    BY <1>2 DEF Ignore, ReceiveOutOfOrder, WriteRefused, LastRefresh, vars, SetSlow, ClearSlow,
                Restart, Isolate, Heal, nodeVars, ctlVars, cliVars
  <2> QED BY <2>1, StillFlow
<1> QED BY <1>1, <1>2

\* A log on disk is as it was in memory.
LEMMA FsyncFlow == ASSUME OrderlyInv, NEW n \in Node, Fsync(n) PROVE Flow
<1>1. /\ durable' = [durable EXCEPT ![n] = log[n]]
      /\ UNCHANGED <<log, leader, epoch, retained, client, accepted>>
  BY DEF Fsync, ctlVars, cliVars
<1>2. IsrInv /\ LogsInv
  BY DEF OrderlyInv
<1>3. leader \in Node /\ \A i \in Node : Len(log[i]) \in Nat /\ Begins(log[i], log[i])
  BY <1>2, Now0 DEF Begins
<1>4. \A i \in Node : Begins(durable'[i], log[i])
  BY <1>1, <1>2, <1>3, Now0 DEF LogsInv
<1> QED BY <1>1, <1>2, <1>3, <1>4 DEF Flow, LogsInv

\* A write is accepted when the watermark covers it.
LEMMA ReturnsFlow == ASSUME OrderlyInv, Returns PROVE Flow
<1>1. /\ UNCHANGED <<log, durable, leader, epoch, retained, hw>> /\ client' = Idle
      /\ \/ UNCHANGED accepted
         \/ /\ accepted' = accepted \cup {[offset |-> client.offset, entry |-> client.entry]}
            /\ client # Idle /\ hw >= client.offset
  BY DEF Returns, WriteAccepted, WriteUnknown, Accepts, WriteReturns, nodeVars, viewVars, ctlVars
<1>2. IsrInv /\ LogsInv
  BY DEF OrderlyInv
<1>3. leader \in Node /\ \A i \in Node : Len(log[i]) \in Nat /\ Begins(log[i], log[i])
  BY <1>2, Now0 DEF Begins
<1>4. client # Idle => client.offset \in Nat
  BY <1>2 DEF IsrInv, TypeOK
<1>5. \A a \in accepted' :
        a \in accepted \/ (client # Idle /\ a.offset = client.offset /\ a.entry = client.entry
                           /\ a.offset <= hw')
  BY <1>1, <1>2, <1>4, Now0
<1> QED BY <1>1, <1>2, <1>3, <1>5 DEF Flow, LogsInv

\* A write is at the end of the leader's log and begins nowhere else.
LEMMA RecordFlow == ASSUME OrderlyInv, WriteLeader \/ WriteAllIsr PROVE Flow
<1>1. /\ IsrInv /\ LogsInv /\ Record
      /\ client' = client \/ (/\ client'.offset = Len(log'[leader])
                              /\ client'.entry = Last(log'[leader]))
  BY DEF OrderlyInv, WriteLeader, WriteAllIsr
<1>2. /\ NodesType' /\ UNCHANGED <<alive, durable, leader, epoch, accepted>>
      /\ \A n \in Node : Begins(log[n], log'[n]) /\ (n # leader => log'[n] = log[n])
      /\ Has(log'[leader], Len(log'[leader]), Last(log'[leader]))
      /\ \A r \in InFlight(retained') :
           r \in InFlight(retained) \/ Has(log'[leader], r.offset, r.entry)
  BY <1>1, RecordStep
<1>3. leader \in Node /\ \A n \in Node : /\ Len(log[n]) \in Nat /\ Len(durable[n]) \in Nat
                                         /\ Len(log'[n]) \in Nat
  BY <1>1, <1>2, Now0, LenProperties DEF NodesType
<1>4. ASSUME NEW n \in Node
      PROVE  Begins(log'[n], log'[leader]) /\ Begins(durable[n], log'[n])
  <2>1. Begins(log[n], log[leader]) /\ Begins(durable[n], log[n])
    BY <1>1 DEF LogsInv
  <2>2. Begins(log[n], log'[leader]) /\ Begins(durable[n], log'[n])
    BY <1>2, <1>3, <2>1, HasBegins
  <2>3. Begins(log'[leader], log'[leader])
    BY <1>3 DEF Begins
  <2> QED BY <1>2, <2>2, <2>3
<1>5. \A n \in Node : n = leader' \/ Len(log'[n]) <= Len(log[n])
  BY <1>2, <1>3
<1>6. client' # Idle => client' = client \/ Has(log'[leader'], client'.offset, client'.entry)
  BY <1>1, <1>2
<1> QED BY <1>2, <1>3, <1>4, <1>5, <1>6 DEF Flow

\* The log s that a step gives node d, when it grows towards the leader's.
LEMMA OneFlow ==
  ASSUME OrderlyInv, NEW d \in Node, NEW s \in Seq(Entry), log' = [log EXCEPT ![d] = s],
         UNCHANGED <<durable, leader, epoch, retained, client, accepted>>,
         Begins(s, log[leader]), Begins(durable[d], s), d = leader => Begins(log[d], s),
         \/ Len(s) <= Len(log[d])
         \/ /\ queue # <<>> /\ queue' = Tail(queue)
            /\ Head(queue) \in Now /\ Len(s) <= Reach(Head(queue))
  PROVE  Flow
<1>1. /\ IsrInv /\ \A n \in Node : Begins(log[n], log[leader]) /\ Begins(durable[n], log[n])
      /\ leader \in Node /\ log \in [Node -> Seq(Entry)]
      /\ \A n \in Node : Len(log[n]) \in Nat /\ Len(durable[n]) \in Nat
  BY Now0 DEF OrderlyInv, LogsInv
<1>2. log'[d] = s /\ \A n \in Node : n # d => log'[n] = log[n]
  BY <1>1
<1>3. Len(s) \in Nat
  BY LenProperties
<1>4. Begins(log[leader], log'[leader])
  BY <1>1, <1>2 DEF Begins
<1>5. Len(log'[leader]) \in Nat
  BY <1>1, <1>2, <1>3
<1>6. ASSUME NEW n \in Node
      PROVE  Begins(log'[n], log'[leader]) /\ Begins(durable'[n], log'[n])
  <2>1. Begins(log'[n], log[leader]) /\ Len(log'[n]) \in Nat /\ Begins(durable[n], log'[n])
    BY <1>1, <1>2, <1>3
  <2>2. Begins(log'[n], log'[leader])
    BY <1>1, <1>4, <1>5, <2>1, HasBegins
  <2> QED BY <2>1, <2>2
<1>7. \A n \in Node :
        \/ Len(log'[n]) <= Len(log[n])
        \/ /\ queue # <<>> /\ queue' = Tail(queue)
           /\ Head(queue) \in Now /\ Len(log'[n]) <= Reach(Head(queue))
  BY <1>1, <1>2
<1> QED BY <1>4, <1>6, <1>7 DEF Flow

\* A follower takes the leader's next entry.
LEMMA AppendFlow == ASSUME OrderlyInv, ReceiveAppend PROVE Flow
<1>1. PICK m : m = Head(queue)
  OBVIOUS
<1>2. PICK d, s : d = m.dst /\ s = Append(log[d], m.entry)
  OBVIOUS
<1>3. /\ Ticking /\ Acceptable(m) /\ m.type = "append" /\ Follows(m) /\ queue' = Tail(queue)
      /\ log' = [log EXCEPT ![d] = s]
      /\ UNCHANGED <<durable, leader, epoch, retained, client, accepted>>
  BY <1>1, <1>2 DEF ReceiveAppend, ctlVars, cliVars
<1>4. IsrInv /\ LogsInv /\ ShippedInv /\ leader \in Node
  BY Now0 DEF OrderlyInv
<1>5. m \in Message /\ m \in Now /\ queue # <<>>
  BY <1>1, <1>3, <1>4, HeadProperties DEF Acceptable, Now
<1>6. d \in Node /\ m.entry \in Entry /\ m.offset \in Nat
  BY <1>2, <1>3, <1>5, MessageProperties
<1>7. /\ s \in Seq(Entry) /\ Begins(log[d], s) /\ Len(s) = Len(log[d]) + 1
      /\ s[Len(log[d]) + 1] = m.entry /\ Len(log[d]) \in Nat
  BY <1>2, <1>4, <1>6, Now0, BeginsProperties
<1>8. /\ Begins(log[d], log[leader]) /\ Begins(durable[d], log[d])
      /\ Has(log[leader], m.offset, m.entry)
  BY <1>3, <1>4, <1>5, <1>6 DEF LogsInv, ShippedInv
<1>9. m.offset = Len(log[d]) + 1
  BY <1>2, <1>3 DEF Follows
<1>10. Begins(s, log[leader])
  <2>1. Len(s) <= Len(log[leader]) /\ Len(log[leader]) \in Nat
    BY <1>4, <1>7, <1>8, <1>9, Now0 DEF Has
  <2>2. \A k \in 1..Len(s) : s[k] = log[leader][k]
    <3> SUFFICES ASSUME NEW k \in 1..Len(s) PROVE s[k] = log[leader][k]
      OBVIOUS
    <3>1. CASE k = Len(log[d]) + 1
      BY <1>7, <1>8, <1>9, <3>1 DEF Has
    <3>2. CASE k \in 1..Len(log[d])
      BY <1>7, <1>8, <3>2 DEF Begins
    <3> QED BY <1>7, <3>1, <3>2
  <2> QED BY <2>1, <2>2 DEF Begins
<1>11. Begins(durable[d], s)
  BY <1>4, <1>6, <1>7, <1>8, Now0, HasBegins
<1>12. Len(s) <= Reach(m)
  BY <1>3, <1>7, <1>9 DEF Reach
<1> QED BY <1>1, <1>3, <1>5, <1>6, <1>7, <1>10, <1>11, <1>12, OneFlow

\* A follower takes a prefix of the leader's log, no shorter than its own.
LEMMA SnapshotFlow == ASSUME OrderlyInv, ReceiveSnapshot PROVE Flow
<1>1. PICK m : m = Head(queue)
  OBVIOUS
<1>2. PICK d, s : d = m.dst /\ s = m.log
  OBVIOUS
<1>3. /\ Ticking /\ Acceptable(m) /\ m.type = "snapshot" /\ queue' = Tail(queue)
      /\ log' = [log EXCEPT ![d] = s]
      /\ UNCHANGED <<durable, leader, epoch, retained, client, accepted>>
  BY <1>1, <1>2 DEF ReceiveSnapshot, ctlVars, cliVars
<1>4. IsrInv /\ LogsInv /\ ShippedInv /\ OrderInv /\ leader \in Node
  BY Now0 DEF OrderlyInv
<1>5. m \in Message /\ m \in Now /\ queue # <<>> /\ m.src # m.dst
  BY <1>1, <1>3, <1>4, HeadProperties DEF Acceptable, Now
<1>6. d \in Node /\ s \in Seq(Entry) /\ d # leader
  BY <1>2, <1>3, <1>5, MessageProperties DEF Acceptable
<1>7. Begins(s, log[leader]) /\ Len(log[d]) <= Len(s)
  BY <1>2, <1>3, <1>4, <1>5 DEF ShippedInv, OrderInv
<1>8. /\ Begins(log[d], log[leader]) /\ Begins(durable[d], log[d])
      /\ Len(log[d]) \in Nat /\ Len(s) \in Nat /\ Len(durable[d]) \in Nat
  BY <1>4, <1>6, Now0, LenProperties DEF LogsInv
<1>9. Begins(log[d], s)
  BY <1>7, <1>8, TwoPrefixes
<1>10. Begins(durable[d], s)
  BY <1>8, <1>9, HasBegins
<1>11. Len(s) <= Reach(m)
  BY <1>2, <1>3, <1>8 DEF Reach
<1> QED BY <1>1, <1>3, <1>5, <1>6, <1>7, <1>10, <1>11, OneFlow

\* A node goes back to what it has on disk, which the leader has to the end.
LEMMA PowerLossFlow == ASSUME OrderlyInv, Orderly, NEW n \in Node, PowerLoss(n) PROVE Flow
<1>1. /\ log' = [log EXCEPT ![n] = durable[n]]
      /\ UNCHANGED <<durable, leader, epoch, retained, client, accepted>>
  BY DEF PowerLoss, GoesDown, ctlVars, cliVars
<1>2. IsrInv /\ LogsInv /\ leader \in Node
  BY Now0 DEF OrderlyInv
<1>3. /\ durable[n] \in Seq(Entry) /\ Len(durable[n]) \in Nat /\ Len(log[n]) \in Nat
      /\ Len(log[leader]) \in Nat
      /\ Begins(durable[n], log[n]) /\ Begins(log[n], log[leader])
  BY <1>2, Now0 DEF LogsInv
<1>4. Begins(durable[n], log[leader]) /\ Begins(durable[n], durable[n])
      /\ Len(durable[n]) <= Len(log[n])
  BY <1>3, HasBegins DEF Begins
<1>5. ASSUME n = leader
      PROVE  Begins(log[n], durable[n])
  <2>1. Len(durable[n]) >= Len(log[n])
    BY <1>1, <1>2, <1>5, Now0 DEF Orderly
  <2>2. Len(durable[n]) = Len(log[n])
    BY <1>3, <1>4, <2>1
  <2> QED BY <1>3, <2>2 DEF Begins
<1> QED BY <1>1, <1>3, <1>4, <1>5, OneFlow

\* The elected node has all that its predecessor has, and leads with it.
LEMMA ElectFlow == ASSUME OrderlyInv, Orderly, NEW n \in Node, Elect(n) PROVE Flow
<1>1. PICK s : s = Seed(n)
  OBVIOUS
<1>2. /\ Electable(n)
      /\ epoch' = epoch + 1 /\ leader' = n /\ log' = [log EXCEPT ![n] = s]
      /\ UNCHANGED <<durable, retained, hw, client, accepted>>
  BY <1>1 DEF Elect, cliVars
<1>3. IsrInv /\ LogsInv /\ MembersInv /\ leader \in Node /\ hw \in Nat /\ epoch \in Nat
      /\ hw <= Len(log[leader])
  BY Now0 DEF OrderlyInv, TightInv
<1>4. /\ s \in Seq(Entry) /\ Len(s) = Lower(hw, Len(log[n])) /\ Begins(s, log[n])
  BY <1>1, <1>3, SeedProperties
<1>5. /\ \A i \in Node : /\ Begins(log[i], log[leader]) /\ Begins(durable[i], log[i])
                         /\ Len(log[i]) \in Nat /\ Len(durable[i]) \in Nat
      /\ hw <= Len(log[n])
  BY <1>2, <1>3, Now0 DEF LogsInv, MembersInv, Electable
<1>6. Len(s) = hw /\ Len(log[leader]) = hw
  <2>1. Len(log[leader]) <= hw
    BY <1>2, <1>3 DEF Orderly
  <2> QED BY <1>3, <1>4, <1>5, <2>1 DEF Lower
<1>7. Begins(log[leader], s)
  BY <1>4, <1>5, <1>6 DEF Begins
<1>8. log'[n] = s /\ \A i \in Node : i # n => log'[i] = log[i]
  BY <1>2, <1>3, Now0
<1>9. ASSUME NEW i \in Node
      PROVE  Begins(log'[i], s) /\ Begins(durable[i], log'[i])
  <2>1. Begins(log[i], log[leader]) /\ Begins(durable[i], log[i])
    BY <1>5
  <2>2. Begins(log[i], s)
    BY <1>3, <1>5, <1>6, <1>7, <2>1, HasBegins
  <2>3. Begins(durable[i], s)
    BY <1>3, <1>5, <1>6, <2>1, <2>2, HasBegins
  <2>4. Begins(s, s)
    BY <1>3, <1>6 DEF Begins
  <2> QED BY <1>8, <2>1, <2>2, <2>3, <2>4
<1>10. \A i \in Node : i = leader' \/ Len(log'[i]) <= Len(log[i])
  BY <1>2, <1>5, <1>8
<1> QED BY <1>2, <1>7, <1>8, <1>9, <1>10 DEF Flow

----------------------------------------------------------------------------
(* Orderly behaviours: the invariant *)

\* The facts of the next state.
LEMMA Next0 ==
  ASSUME IsrInv'
  PROVE  /\ leader' \in Node /\ epoch' \in Nat /\ hw' \in Nat /\ queue' \in Seq(Message)
         /\ \A n \in Node : Len(log'[n]) \in Nat
BY LenProperties DEF IsrInv, TypeOK

\* A message of the epoch was one before the step, or is sent by it.
LEMMA NowBefore ==
  ASSUME IsrInv, Flow, QueueStep, NEW m \in InFlight(queue'), m.epoch = epoch'
  PROVE  (m \in Now /\ leader' = leader /\ epoch' = epoch) \/ Sent(m)
<1>1. CASE m \in InFlight(queue)
  <2>1. m \in Message
    BY <1>1, Now0, LenProperties, ElementOfSeq DEF InFlight
  <2>2. m.epoch <= epoch /\ m.epoch \in Nat /\ epoch \in Nat
    BY <1>1, <2>1, MessageProperties, Now0 DEF IsrInv, MessagesInv
  <2>3. epoch' # epoch + 1
    BY <2>2
  <2> QED BY <1>1, <2>3 DEF Flow, Now
<1>2. CASE Sent(m)
  BY <1>2
<1> QED BY <1>1, <1>2 DEF QueueStep

\* What is shipped is the leader's.
LEMMA ShippedKept ==
  ASSUME OrderlyInv, Flow, QueueStep, Advances, IsrInv', RetainedInv'
  PROVE  ShippedInv'
<1>0. IsrInv /\ ShippedInv /\ leader \in Node
  BY Now0 DEF OrderlyInv
<1>1. SUFFICES ASSUME NEW m \in InFlight(queue'), m.epoch = epoch'
               PROVE  /\ m.src = leader'
                      /\ m.type = "append" => Has(log'[leader'], m.offset, m.entry)
                      /\ m.type = "snapshot" => Begins(m.log, log'[leader'])
  BY DEF ShippedInv, Now, Has, Begins
<1>2. CASE m \in Now /\ leader' = leader /\ epoch' = epoch
  <2>1. m \in Message
    BY <1>0, <1>2, Now0, LenProperties, ElementOfSeq DEF InFlight, Now
  <2>2. /\ m.src = leader
        /\ m.type = "append" => Has(log[leader], m.offset, m.entry)
        /\ m.type = "snapshot" => Begins(m.log, log[leader]) /\ Len(m.log) \in Nat
    BY <1>0, <1>2, <2>1, MessageProperties, LenProperties DEF ShippedInv
  <2>3. Begins(log[leader], log'[leader']) /\ Len(log[leader]) \in Nat /\ Len(log'[leader']) \in Nat
    BY <1>0, Now0, Next0 DEF Flow
  <2>4. m.type = "append" => Has(log'[leader'], m.offset, m.entry)
    BY <2>2, <2>3, HasBegins
  <2>5. m.type = "snapshot" => Begins(m.log, log'[leader'])
    BY <2>2, <2>3, HasBegins
  <2> QED BY <1>2, <2>2, <2>4, <2>5
<1>3. CASE Sent(m)
  <2>1. /\ m.src = leader'
        /\ m.type = "snapshot" => m.log = log'[leader']
        /\ m.type = "append" =>
             \E r \in InFlight(retained') : m.offset = r.offset /\ m.entry = r.entry
    BY <1>0, <1>3, SentProperties
  <2>2. \A r \in InFlight(retained') : Has(log'[leader'], r.offset, r.entry)
    BY DEF RetainedInv, Has
  <2>3. Begins(log'[leader'], log'[leader'])
    BY Next0 DEF Begins
  <2> QED BY <2>1, <2>2, <2>3
<1> QED BY <1>0, <1>1, <1>2, <1>3, NowBefore

\* How far a message of the epoch reaches: not beyond the leader's log.
LEMMA ReachNext ==
  ASSUME IsrInv', ShippedInv', NEW m \in InFlight(queue'), m.epoch = epoch'
  PROVE  Reach(m) \in Nat /\ Reach(m) <= Len(log'[leader'])
<1>1. m \in Message
  BY Next0, LenProperties, ElementOfSeq DEF InFlight
<1>2. /\ m.type = "append" => Has(log'[leader'], m.offset, m.entry)
      /\ m.type = "snapshot" => Begins(m.log, log'[leader'])
  BY DEF ShippedInv, Now, Has, Begins
<1>3. CASE m.type = "append"
  BY <1>1, <1>2, <1>3, MessageProperties, Next0 DEF Reach, Has
<1>4. CASE m.type = "snapshot"
  <2>1. Len(m.log) \in Nat
    BY <1>1, <1>4, MessageProperties, LenProperties
  <2> QED BY <1>2, <1>4, <2>1 DEF Reach, Begins
<1> QED BY <1>1, <1>3, <1>4, MessageProperties

\* A snapshot still goes as far as what comes before it.
LEMMA OrderKept ==
  ASSUME OrderlyInv, Flow, QueueStep, Advances, IsrInv', ShippedInv', LogsInv'
  PROVE  OrderInv'
<1>0. IsrInv /\ ShippedInv /\ OrderInv /\ leader \in Node
  BY Now0 DEF OrderlyInv
<1>1. SUFFICES ASSUME NEW b \in InFlight(queue'), b.epoch = epoch', b.type = "snapshot"
               PROVE  /\ Len(log'[b.dst]) <= Len(b.log)
                      /\ \A a \in InFlight(queue') : a.epoch = epoch' /\ Precedes(queue', a, b) =>
                           Reach(a) <= Len(b.log)
  BY DEF OrderInv, Now, Reach, Precedes
<1>2. b \in Message /\ b.dst \in Node /\ Len(b.log) \in Nat
  BY <1>1, Next0, MessageProperties, LenProperties, ElementOfSeq DEF InFlight
<1>3. ASSUME Sent(b)
      PROVE  b.log = log'[leader']
  BY <1>0, <1>1, <1>3, SentProperties
<1>4. ASSUME NEW a \in InFlight(queue'), a.epoch = epoch', Precedes(queue', a, b)
      PROVE  Reach(a) <= Len(b.log)
  <2>1. CASE Sent(b)
    BY <1>3, <1>4, <2>1, ReachNext
  <2>2. CASE ~Sent(b)
    <3>1. Precedes(queue, a, b)
      BY <1>4, <2>2 DEF QueueStep
    <3>2. b \in Now /\ epoch' = epoch
      BY <1>0, <1>1, <2>2, NowBefore
    <3>3. a \in InFlight(queue)
      BY <3>1 DEF Precedes, InFlight
    <3>4. a \in Now
      BY <1>4, <3>2, <3>3 DEF Now
    <3> QED BY <1>0, <1>1, <3>1, <3>2, <3>4 DEF OrderInv
  <2> QED BY <2>1, <2>2
<1>5. Len(log'[b.dst]) <= Len(b.log)
  <2>1. CASE Sent(b)
    <3>1. Begins(log'[b.dst], log'[leader'])
      BY <1>2 DEF LogsInv, Begins
    <3> QED BY <1>3, <2>1, <3>1 DEF Begins
  <2>2. CASE ~Sent(b)
    <3>1. b \in Now /\ leader' = leader /\ epoch' = epoch
      BY <1>0, <1>1, <2>2, NowBefore
    <3>2. b.dst # leader'
      BY <1>0, <1>1, <3>1 DEF ShippedInv, IsrInv, MessagesInv, Now
    <3>3. Len(log[b.dst]) <= Len(b.log)
      BY <1>0, <1>1, <3>1 DEF OrderInv
    <3>4. CASE Len(log'[b.dst]) <= Len(log[b.dst])
      <4>1. Len(log[b.dst]) \in Nat
        BY <1>0, <1>2, Now0
      <4>2. Len(log'[b.dst]) \in Nat
        BY <1>2, Next0
      <4> QED BY <1>2, <3>3, <3>4, <4>1, <4>2
    <3>5. CASE /\ queue # <<>> /\ queue' = Tail(queue)
               /\ Head(queue) \in Now /\ Len(log'[b.dst]) <= Reach(Head(queue))
      <4>1. Precedes(queue, Head(queue), b)
        BY <1>0, <1>1, <3>5, Now0, TailOrder
      <4>2. Reach(Head(queue)) <= Len(b.log)
        BY <1>0, <1>1, <3>1, <3>5, <4>1 DEF OrderInv
      <4>3. Head(queue) \in Message
        BY <1>0, <3>5, Now0, LenProperties, ElementOfSeq DEF InFlight, Now
      <4>4. Reach(Head(queue)) \in Nat
        BY <4>3, MessageProperties, LenProperties DEF Reach
      <4> QED BY <1>2, <3>5, <4>2, <4>4, Next0
    <3> QED BY <1>2, <3>2, <3>4, <3>5 DEF Flow
  <2> QED BY <2>1, <2>2
<1> QED BY <1>4, <1>5

\* Accepted writes stay where they are.
LEMMA AcceptedKept ==
  ASSUME OrderlyInv, Flow, hw' >= hw, IsrInv'
  PROVE  AcceptedInv'
<1>0. IsrInv /\ AcceptedInv /\ leader \in Node /\ hw \in Nat /\ accepted \subseteq [offset : Nat, entry : Entry]
  BY Now0 DEF OrderlyInv, IsrInv, TypeOK
<1>1. Begins(log[leader], log'[leader']) /\ Len(log[leader]) \in Nat /\ Len(log'[leader']) \in Nat
      /\ hw' \in Nat
  BY <1>0, Now0, Next0 DEF Flow
<1>2. \A l, r : Has(log[leader], l, r) => Has(log'[leader'], l, r)
  BY <1>1, HasBegins
<1>3. ASSUME NEW a \in accepted'
      PROVE  a.offset <= hw' /\ Has(log'[leader'], a.offset, a.entry)
  <2>1. CASE a \in accepted
    <3>1. a.offset \in Nat /\ a.offset <= hw /\ Has(log[leader], a.offset, a.entry)
      BY <1>0, <2>1 DEF AcceptedInv
    <3> QED BY <1>0, <1>1, <1>2, <3>1
  <2>2. CASE client # Idle /\ a.offset = client.offset /\ a.entry = client.entry /\ a.offset <= hw'
    <3>1. Has(log[leader], a.offset, a.entry)
      BY <1>0, <2>2 DEF AcceptedInv
    <3> QED BY <1>2, <2>2, <3>1
  <2> QED BY <1>3, <2>1, <2>2 DEF Flow
<1>4. client' # Idle => Has(log'[leader'], client'.offset, client'.entry)
  <2>1. client # Idle => Has(log'[leader'], client.offset, client.entry)
    BY <1>0, <1>2 DEF AcceptedInv
  <2> QED BY <2>1 DEF Flow
<1> QED BY <1>3, <1>4 DEF AcceptedInv, Has, Idle

\* A step with such a flow keeps the invariant.
LEMMA FlowKeeps == ASSUME OrderlyInv, Orderly, Step, Flow PROVE OrderlyInv'
<1>1. IsrInv /\ IsrInv' /\ hw' >= hw /\ QueueStep /\ TightInv'
  BY DEF Step, OrderlyInv
<1>2. Advances
  BY <1>1, Now0, Next0 DEF Advances, Flow
<1>3. LogsInv'
  BY DEF Flow, LogsInv, Begins
<1>4. RetainedInv'
  <2>1. \A l, r : Has(log[leader], l, r) => Has(log'[leader'], l, r)
    BY <1>1, Now0, Next0, HasBegins DEF Flow
  <2>2. \A r \in InFlight(retained') : Has(log'[leader'], r.offset, r.entry)
    BY <2>1 DEF OrderlyInv, RetainedInv, Flow
  <2> QED BY <2>2 DEF RetainedInv, Has
<1>5. ShippedInv'
  BY <1>1, <1>2, <1>4, ShippedKept
<1>6. OrderInv'
  BY <1>1, <1>2, <1>3, <1>5, OrderKept
<1>7. AcceptedInv'
  BY <1>1, AcceptedKept
<1> QED BY <1>1, <1>3, <1>4, <1>5, <1>6, <1>7 DEF OrderlyInv

\* A tick changes neither logs nor what the messages carry.
LEMMA TickKeeps ==
  ASSUME OrderlyInv, Tick, IsrInv', hw' >= hw, QueueAged, TightInv'
  PROVE  OrderlyInv' /\ Begins(log[leader], log'[leader'])
<1>0. /\ IsrInv /\ LogsInv /\ RetainedInv /\ ShippedInv /\ OrderInv /\ AcceptedInv
      /\ leader \in Node /\ hw \in Nat /\ hw' \in Nat
      /\ accepted \subseteq [offset : Nat, entry : Entry]
  BY Now0, Next0 DEF OrderlyInv, IsrInv, TypeOK
<1>1. UNCHANGED <<log, durable, leader, epoch, retained, client, accepted>>
  BY DEF Tick, nodeVars, ctlVars, cliVars
<1>2. LogsInv' /\ RetainedInv'
  BY <1>0, <1>1 DEF LogsInv, RetainedInv
<1>3. AcceptedInv'
  <2>1. \A a \in accepted : a.offset \in Nat /\ a.offset <= hw'
    BY <1>0 DEF AcceptedInv
  <2> QED BY <1>0, <1>1, <2>1 DEF AcceptedInv, Has, Idle
<1>4. ASSUME NEW m, NEW a, m \in InFlight(queue), Aged(m, a), a.epoch = epoch
      PROVE  /\ m \in Message /\ m \in Now
             /\ a.type = m.type /\ a.src = m.src /\ a.dst = m.dst
             /\ a.type = "append" => a.offset = m.offset /\ a.entry = m.entry
             /\ a.type = "snapshot" => a.log = m.log
             /\ Reach(a) = Reach(m)
  <2>1. m \in Message
    BY <1>0, <1>4, Now0, LenProperties, ElementOfSeq DEF InFlight
  <2>2. /\ a.type = m.type /\ a.src = m.src /\ a.dst = m.dst /\ a.epoch = m.epoch
        /\ m.type = "append" => a.offset = m.offset /\ a.entry = m.entry
        /\ m.type = "snapshot" => a.log = m.log
    BY <1>4, <2>1, AgedProperties
  <2>3. Reach(a) = Reach(m)
    BY <2>1, <2>2, MessageProperties DEF Reach
  <2> QED BY <1>4, <2>1, <2>2, <2>3 DEF Now
<1>5. ASSUME NEW a \in InFlight(queue'), a.epoch = epoch
      PROVE  /\ a.src = leader
             /\ a.type = "append" => Has(log[leader], a.offset, a.entry)
             /\ a.type = "snapshot" => Begins(a.log, log[leader])
  <2>1. PICK m \in InFlight(queue) : Aged(m, a)
    BY DEF QueueAged
  <2>2. /\ m \in Now /\ a.type = m.type /\ a.src = m.src
        /\ a.type = "append" => a.offset = m.offset /\ a.entry = m.entry
        /\ a.type = "snapshot" => a.log = m.log
    BY <1>4, <1>5, <2>1
  <2> QED BY <1>0, <2>2 DEF ShippedInv
<1>6. ShippedInv'
  BY <1>1, <1>5 DEF ShippedInv, Now
<1>7. ASSUME NEW b \in InFlight(queue'), b.epoch = epoch, b.type = "snapshot"
      PROVE  /\ Len(log[b.dst]) <= Len(b.log)
             /\ \A a \in InFlight(queue') : a.epoch = epoch /\ Precedes(queue', a, b) =>
                  Reach(a) <= Len(b.log)
  <2>1. PICK o \in InFlight(queue) : Aged(o, b)
    BY DEF QueueAged
  <2>2. o \in Now /\ o.type = "snapshot" /\ b.dst = o.dst /\ b.log = o.log
    BY <1>4, <1>7, <2>1
  <2>3. ASSUME NEW a \in InFlight(queue'), a.epoch = epoch, Precedes(queue', a, b)
        PROVE  Reach(a) <= Len(b.log)
    <3>1. PICK m, x : Precedes(queue, m, x) /\ Aged(m, a) /\ Aged(x, b)
      BY <2>3 DEF QueueAged
    <3>2. m \in InFlight(queue) /\ x \in InFlight(queue)
      BY <3>1 DEF Precedes, InFlight
    <3>3. m \in Now /\ Reach(a) = Reach(m)
      BY <1>4, <2>3, <3>1, <3>2
    <3>4. x \in Now /\ x.type = "snapshot" /\ b.log = x.log
      BY <1>4, <1>7, <3>1, <3>2
    <3> QED BY <1>0, <3>1, <3>3, <3>4 DEF OrderInv
  <2> QED BY <1>0, <2>2, <2>3 DEF OrderInv
<1>8. OrderInv'
  BY <1>1, <1>7 DEF OrderInv, Now, Reach, Precedes
<1>9. Begins(log[leader], log'[leader'])
  BY <1>0, <1>1, Now0 DEF Begins
<1> QED BY <1>2, <1>3, <1>6, <1>8, <1>9 DEF OrderlyInv

\* Every orderly step keeps the invariant.
LEMMA OrderlyStep ==
  ASSUME OrderlyInv, [Next]_vars, [Orderly]_vars
  PROVE  OrderlyInv' /\ hw' >= hw /\ Begins(log[leader], log'[leader'])
<1>1. IsrInv /\ TightInv
  BY DEF OrderlyInv
<1>2. Orderly
  <2>1. CASE UNCHANGED vars
    <3>1. UNCHANGED <<epoch, log>> /\ Len(log[leader]) \in Nat
      BY <1>1, <2>1, Now0 DEF vars, nodeVars, ctlVars
    <3> QED BY <3>1 DEF Orderly
  <2> QED BY <2>1
<1>3. Flow \/ Tick
  <2>1. CASE Tick
    BY <2>1
  <2>2. CASE Deliver
    BY <2>2, QuietFlow, AppendFlow, SnapshotFlow DEF Deliver
  <2>3. CASE WriteLeader \/ WriteAllIsr \/ WriteRefused \/ LastRefresh \/ Returns
    BY <2>3, RecordFlow, QuietFlow, ReturnsFlow
  <2>4. ASSUME NEW n \in Node, \/ SetSlow(n) \/ ClearSlow(n) \/ Fsync(n) \/ Crash(n) \/ PowerLoss(n)
                               \/ Restart(n) \/ Isolate(n) \/ Heal(n) \/ Elect(n)
        PROVE  Flow
    BY <1>2, <2>4, QuietFlow, FsyncFlow, PowerLossFlow, ElectFlow
  <2>5. CASE UNCHANGED vars
    BY <2>5, QuietFlow
  <2> QED BY <2>1, <2>2, <2>3, <2>4, <2>5 DEF Next
<1>4. CASE Tick
  <2>1. IsrInv' /\ hw' >= hw /\ QueueAged /\ TightInv'
    BY <1>1, <1>4, TickStep
  <2> QED BY <1>4, <2>1, TickKeeps
<1>5. CASE Flow /\ ~Tick
  <2>1. Step
    BY <1>1, <1>5, StepsKeep
  <2> QED BY <1>2, <1>5, <2>1, FlowKeeps DEF Step, Flow
<1> QED BY <1>3, <1>4, <1>5

\* A group starts in order.
LEMMA InitOrderly == ASSUME Init PROVE OrderlyInv
<1>1. IsrInv
  BY InitInv
<1>2. TightInv
  BY Constants DEF Init, TightInv, MembersInv, ExactInv, Lower
<1>3. LogsInv /\ RetainedInv
  BY Constants DEF Init, LogsInv, RetainedInv, Begins, InFlight
<1>4. ShippedInv /\ OrderInv /\ AcceptedInv
  BY DEF Init, ShippedInv, OrderInv, AcceptedInv, Now, InFlight
<1> QED BY <1>1, <1>2, <1>3, <1>4 DEF OrderlyInv

\* Every state of an orderly behaviour satisfies the invariant.
LEMMA OrderlyInvHolds == Spec /\ [][Orderly]_vars => []OrderlyInv
<1>1. Init => OrderlyInv
  BY InitOrderly
<1>2. OrderlyInv /\ [Next]_vars /\ [Orderly]_vars => OrderlyInv'
  BY OrderlyStep
<1> QED BY <1>1, <1>2, PTL DEF Spec

\* Sequences that agree up to a mark have equal beginnings.
LEMMA EqualBeginnings ==
  ASSUME NEW s \in Seq(Entry), NEW t \in Seq(Entry), NEW m \in Nat, m <= Len(s), Begins(s, t)
  PROVE  SubSeq(s, 1, m) = SubSeq(t, 1, m)
<1>1. Len(s) \in Nat /\ Len(t) \in Nat /\ m <= Len(t) /\ \A k \in 1..m : s[k] = t[k]
  BY LenProperties DEF Begins
<1>2. SubSeq(s, 1, m) = [k \in 1..m |-> s[k]] /\ SubSeq(t, 1, m) = [k \in 1..m |-> t[k]]
  BY <1>1
<1> QED BY <1>1, <1>2

\* In an orderly group any live member of the in-sync set is fit to lead: it
\* holds the leader's log up to the watermark, whoever lagged, fell out, was
\* synchronized and let in again (IsrGroup._refresh_isr_and_hw).
THEOREM IsrHoldsCommittedHolds == Spec /\ [][Orderly]_vars => []IsrHoldsCommitted
<1>1. OrderlyInv => IsrHoldsCommitted
  <2> SUFFICES ASSUME OrderlyInv, NEW n \in isr
               PROVE  hw <= Len(log[n]) /\ SubSeq(log[n], 1, hw) = SubSeq(log[leader], 1, hw)
    BY DEF IsrHoldsCommitted
  <2>1. n \in Node /\ log[n] \in Seq(Entry) /\ log[leader] \in Seq(Entry) /\ hw \in Nat
    BY Now0 DEF OrderlyInv
  <2>2. hw <= Len(log[n]) /\ Begins(log[n], log[leader])
    BY <2>1 DEF OrderlyInv, TightInv, MembersInv, LogsInv
  <2> QED BY <2>1, <2>2, EqualBeginnings
<1> QED BY <1>1, OrderlyInvHolds, PTL

\* In an orderly group an accepted ALL_ISR write is below the watermark and in
\* the log of every live member of the in-sync set, however that has changed.
THEOREM AcceptedOnIsrHolds == Spec /\ [][Orderly]_vars => []AcceptedOnIsr
<1>1. OrderlyInv => AcceptedOnIsr
  <2> SUFFICES ASSUME OrderlyInv, NEW a \in accepted
               PROVE  a.offset <= hw /\ \A n \in isr : Holds(n, a)
    BY DEF AcceptedOnIsr
  <2>1. IsrInv /\ a.offset \in Nat /\ hw \in Nat /\ isr \in SUBSET Node /\ leader \in Node
    BY Now0 DEF OrderlyInv, IsrInv, TypeOK
  <2>2. a.offset <= hw /\ Has(log[leader], a.offset, a.entry)
    BY DEF OrderlyInv, AcceptedInv
  <2>3. ASSUME NEW n \in isr
        PROVE  Holds(n, a)
    <3>1. hw <= Len(log[n]) /\ Begins(log[n], log[leader]) /\ Len(log[n]) \in Nat
      BY <2>1, Now0 DEF OrderlyInv, TightInv, MembersInv, LogsInv
    <3>2. a.offset <= Len(log[n]) /\ a.offset \in 1..Len(log[n])
      BY <2>1, <2>2, <3>1 DEF Has
    <3> QED BY <2>2, <3>1, <3>2 DEF Has, Begins, Holds
  <2> QED BY <2>2, <2>3
<1> QED BY <1>1, OrderlyInvHolds, PTL

\* In an orderly group every leader has every accepted ALL_ISR write.
THEOREM AcceptedSurvivesHolds == Spec /\ [][Orderly]_vars => []AcceptedSurvives
<1>1. OrderlyInv => AcceptedSurvives
  BY DEF OrderlyInv, AcceptedInv, AcceptedSurvives, Has, Holds
<1> QED BY <1>1, OrderlyInvHolds, PTL

\* In an orderly group a LINEARIZABLE read or a lease_read that its three guards
\* let through reflects every accepted ALL_ISR write.
THEOREM AuthorityReadIsFreshHolds == Spec /\ [][Orderly]_vars => []AuthorityReadIsFresh
<1>1. OrderlyInv => AuthorityReadIsFresh
  <2> SUFFICES ASSUME OrderlyInv, NEW a \in accepted
               PROVE  a.offset <= Len(applied[leader]) /\ applied[leader][a.offset] = a.entry
    BY DEF AuthorityReadIsFresh
  <2>1. /\ IsrInv /\ a.offset \in Nat /\ hw \in Nat /\ leader \in Node
        /\ Len(log[leader]) \in Nat
    BY Now0 DEF OrderlyInv, IsrInv, TypeOK
  <2>2. a.offset <= hw /\ Has(log[leader], a.offset, a.entry) /\ hw <= Len(log[leader])
    BY DEF OrderlyInv, AcceptedInv, TightInv
  <2>3. Len(applied[leader]) = hw
    BY <2>1, <2>2 DEF OrderlyInv, TightInv, ExactInv, Lower
  <2>4. Begins(applied[leader], log[leader])
    BY <2>1 DEF IsrInv, AppliedInv
  <2> QED BY <2>1, <2>2, <2>3, <2>4 DEF Has, Begins
<1> QED BY <1>1, OrderlyInvHolds, PTL

\* In an orderly group the watermark never falls, and what is below it stays in
\* the log of whoever leads.
THEOREM CommittedStaysHolds == Spec /\ [][Orderly]_vars => CommittedStays
<1> DEFINE Stays ==
      /\ hw' >= hw
      /\ \A k \in 1..Lower(hw, Len(log[leader])) :
           k <= Len(log'[leader']) /\ log'[leader'][k] = log[leader][k]
<1>1. OrderlyInv /\ [Next]_vars /\ [Orderly]_vars => Stays
  <2> SUFFICES ASSUME OrderlyInv, [Next]_vars, [Orderly]_vars PROVE Stays
    OBVIOUS
  <2>1. hw' >= hw /\ Begins(log[leader], log'[leader']) /\ IsrInv /\ IsrInv'
    BY OrderlyStep DEF OrderlyInv
  <2>2. Len(log[leader]) \in Nat /\ Len(log'[leader']) \in Nat /\ hw \in Nat
    BY <2>1, Now0, Next0
  <2>3. Lower(hw, Len(log[leader])) \in Nat /\ Lower(hw, Len(log[leader])) <= Len(log[leader])
    BY <2>2 DEF Lower
  <2> QED BY <2>1, <2>2, <2>3 DEF Begins
<1> QED BY <1>1, OrderlyInvHolds, PTL DEF Spec, CommittedStays
=============================================================================
