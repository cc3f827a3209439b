---------------------------- MODULE AsyncProofs ----------------------------
(***************************************************************************)
(* Theorems about Async for any number of nodes and any backlog: unless a   *)
(* power loss takes a primary back on it, a replication id is one history,  *)
(* and partial resynchronization brings a replica to the primary's state.   *)
(***************************************************************************)
EXTENDS Async, NetworkProofs

----------------------------------------------------------------------------
(* The invariant *)

\* The primary is on an id on which no primary was rolled back.
Sound == replId[primary] \notin rolledBack

\* What nodes hold, in memory and on disk.
Images == {Image(n) : n \in Node} \cup {durable[n] : n \in Node}

\* Nothing is of a later generation, or of an id of a later one, than the group.
IdsInv ==
  /\ \A n \in Node : replId[n] <= generation /\ durable[n].replId <= generation
  /\ \A m \in InFlight(queue) : m.generation <= generation
  /\ \A e \in InFlight(backlog) : e.generation <= generation
  /\ \A id \in rolledBack : id <= generation

\* Only a power loss takes a primary off its generation's id, and then its
\* disk has nothing of that id.  On that id the disk is behind the memory.
PrimaryInv ==
  /\ replId[primary] # generation =>
       replId[primary] \in rolledBack /\ durable[primary].replId # generation
  /\ durable[primary].replId = generation => Begins(durable[primary].hist, hist[primary])

\* Nothing of the primary's id is beyond the primary.
AheadInv ==
  Sound => \A a \in Images : a.replId = replId[primary] => Begins(a.hist, hist[primary])

\* Messages on their way, as long as they are current, tell of the primary's history.
ShippedInv ==
  /\ \A m \in InFlight(queue) : m.dst # m.src
  /\ Sound => \A m \in InFlight(queue) : Current(m) =>
       /\ m.type = "entry" => Has(hist[primary], m.offset, m.id)
       /\ m.type = "full_sync" => Begins(m.hist, hist[primary])

\* The entries b are the end of the history h.
Ends(h, b) ==
  /\ Len(b) <= Len(h)
  /\ \A k \in DOMAIN b :
       b[k].offset = Len(h) - Len(b) + k /\ h[Len(h) - Len(b) + k] = b[k].id

\* The backlog is the end of the primary's history.
BacklogInv == replId[primary] = generation => Ends(hist[primary], backlog)

\* On an id without a rollback, one history begins another.
ChainInv ==
  \A a, b \in Images :
    a.replId = b.replId /\ a.replId \notin rolledBack =>
      Begins(a.hist, b.hist) \/ Begins(b.hist, a.hist)

AsyncInv ==
  /\ TypeOK /\ IdsInv /\ PrimaryInv /\ AheadInv /\ ShippedInv /\ BacklogInv /\ ChainInv

----------------------------------------------------------------------------
(* What a step does that leaves the primary where it is.  The loss of the   *)
(* primary's power, and promotions, come after.                             *)

\* A message of p to r: an entry of the backlog kept, or all that p holds.
Syncs(m, p, r, g, id, kept) ==
  (\E e \in InFlight(kept) : m = EntryMsg(p, r, e)) \/ m = FullSyncMsg(p, r, g, id)

\* A message that such a step sends.
Sent(m) ==
  \E r \in Node \ {primary} : Syncs(m, primary, r, generation, replId[primary], backlog')

\* What a replica has from the primary.
Replicated(n) ==
  replId'[n] = replId[primary] /\ (Sound => Begins(hist'[n], hist[primary]))

Summary ==
  /\ UNCHANGED <<primary, generation, rolledBack>> /\ replId'[primary] = replId[primary]
  /\ Begins(hist[primary], hist'[primary])
  /\ \A n \in Node \ {primary} : Image(n)' \in {Image(n), durable[n]} \/ Replicated(n)
  /\ \A n \in Node : durable'[n] \in {durable[n], Image(n)'}
  /\ \A m \in InFlight(queue') : m \in InFlight(queue) \/ Sent(m)
  /\ \A e \in InFlight(backlog') : e \in InFlight(backlog) \/ e.generation = generation

Step == Summary /\ TypeOK' /\ BacklogInv'

\* The messages out that a step adds, at the end of the queue or of its tail.
LEMMA Queued ==
  ASSUME TypeOK, NEW ms \in Seq(Message), NEW c,
         \/ queue' = queue \o Wired(ms, c)
         \/ queue # <<>> /\ queue' = Tail(queue) \o Wired(ms, c)
  PROVE  /\ queue' \in Seq(Message)
         /\ \A m \in InFlight(queue') : m \in InFlight(queue) \/ m \in InFlight(ms)
<1>1. PICK out \in Seq(Message) :
        out = Wired(ms, c) /\ \A j \in DOMAIN out : \E i \in DOMAIN ms : out[j] = ms[i]
  BY WiredProperties
<1>2. PICK q \in Seq(Message) : queue' = q \o out /\ (q = queue \/ (queue # <<>> /\ q = Tail(queue)))
  BY <1>1, QueueParts DEF TypeOK
<1>3. InFlight(q) \subseteq InFlight(queue)
  BY <1>2, TailOrder DEF TypeOK
<1>4. InFlight(queue') \subseteq InFlight(q) \cup InFlight(out)
  BY <1>2, ConcatOrder
<1>5. InFlight(out) \subseteq InFlight(ms)
  BY <1>1 DEF InFlight
<1>6. queue' \in Seq(Message)
  BY <1>2, ConcatProperties
<1> QED BY <1>3, <1>4, <1>5, <1>6

\* Nothing is sent.
LEMMA NothingQueued ==
  ASSUME TypeOK, queue' = queue \/ (queue # <<>> /\ queue' = Tail(queue))
  PROVE  queue' \in Seq(Message) /\ \A m \in InFlight(queue') : m \in InFlight(queue)
<1>1. queue \in Seq(Message) /\ <<>> \in Seq(Message)
  BY DEF TypeOK
<1>2. CASE queue # <<>> /\ queue' = Tail(queue)
  BY <1>1, <1>2, QueueParts, TailOrder
<1> QED BY <1>1, <1>2

\* What a replica misses of the backlog is in the backlog.
LEMMA MissingProperties ==
  ASSUME NEW r, NEW kept \in Seq(Entry)
  PROVE  Missing(r, kept) \in Seq(Entry) /\ InFlight(Missing(r, kept)) \subseteq InFlight(kept)
<1> DEFINE I == {k \in DOMAIN kept : kept[k].offset > Len(hist[r])}
<1>1. I \in SUBSET DOMAIN kept /\ Missing(r, kept) = Kept(kept, I)
  BY DEF Missing
<1> HIDE DEF I
<1>2. /\ Kept(kept, I) \in Seq(Entry)
      /\ \A j \in DOMAIN Kept(kept, I) : \E k \in I : Kept(kept, I)[j] = kept[k]
  BY <1>1, KeptProperties
<1> QED BY <1>1, <1>2 DEF InFlight

\* What _synchronize sends: entries of the backlog, or the full state.
LEMMA SyncProperties ==
  ASSUME hist \in [Node -> Seq(Nat)],
         NEW r \in Node, NEW p \in Node, NEW g, g \in Nat, NEW id, id \in Nat,
         NEW kept \in Seq(Entry), NEW out, out = Sync(r, p, g, id, kept)
  PROVE  /\ out \in Seq(Message)
         /\ \A m \in InFlight(out) : Syncs(m, p, r, g, id, kept)
<1>1. CASE out = <<FullSyncMsg(p, r, g, id)>>
  <2>1. FullSyncMsg(p, r, g, id) \in Message
    BY DEF FullSyncMsg, Message
  <2>2. PICK f \in Message : f = FullSyncMsg(p, r, g, id)
    BY <2>1
  <2>3. out \in Seq(Message) /\ \A j \in DOMAIN out : out[j] = f
    BY <1>1, <2>2, OneProperties
  <2> QED BY <2>2, <2>3 DEF InFlight, Syncs
<1>2. CASE out = [k \in DOMAIN Missing(r, kept) |-> EntryMsg(p, r, Missing(r, kept)[k])]
  <2>1. PICK ms \in Seq(Entry) : ms = Missing(r, kept) /\ InFlight(ms) \subseteq InFlight(kept)
    BY MissingProperties
  <2>2. Len(ms) \in Nat /\ DOMAIN ms = 1..Len(ms) /\ \A j \in DOMAIN ms : ms[j] \in Entry
    BY LenProperties, ElementOfSeq
  <2>3. \A j \in DOMAIN ms : EntryMsg(p, r, ms[j]) \in Message
    BY <2>2 DEF EntryMsg, Message, Entry
  <2>4. out = [k \in 1..Len(ms) |-> EntryMsg(p, r, ms[k])]
    BY <1>2, <2>1, <2>2
  <2>5. out \in [1..Len(ms) -> Message]
    BY <2>2, <2>3, <2>4
  <2>6. out \in Seq(Message)
    BY <2>2, <2>5, FunctionIsSeq
  <2>7. \A j \in DOMAIN out : \E e \in InFlight(kept) : out[j] = EntryMsg(p, r, e)
    BY <2>1, <2>2, <2>4 DEF InFlight
  <2> QED BY <2>6, <2>7 DEF InFlight, Syncs
<1>3. \/ out = <<FullSyncMsg(p, r, g, id)>>
      \/ out = [k \in DOMAIN Missing(r, kept) |-> EntryMsg(p, r, Missing(r, kept)[k])]
  BY DEF Sync
<1> QED BY <1>1, <1>2, <1>3

\* Replica r is synchronized by the primary, over whole links.
LEMMA SyncQueued ==
  ASSUME TypeOK, UNCHANGED backlog, NEW r \in Node \ {primary}, NEW c,
         \/ queue' = queue \o Wired(Sync(r, primary, generation, replId[primary], backlog), c)
         \/ /\ queue # <<>>
            /\ queue' = Tail(queue) \o
                        Wired(Sync(r, primary, generation, replId[primary], backlog), c)
  PROVE  queue' \in Seq(Message) /\ \A m \in InFlight(queue') : m \in InFlight(queue) \/ Sent(m)
<1>1. PICK ms, id : ms = Sync(r, primary, generation, id, backlog) /\ id = replId[primary]
  OBVIOUS
<1>2. hist \in [Node -> Seq(Nat)] /\ primary \in Node /\ generation \in Nat
      /\ id \in Nat /\ backlog \in Seq(Entry) /\ r \in Node
  BY <1>1 DEF TypeOK
<1>3. ms \in Seq(Message) /\ \A m \in InFlight(ms) : Syncs(m, primary, r, generation, id, backlog)
  BY <1>1, <1>2, SyncProperties
<1>4. \A m \in InFlight(ms) : Sent(m)
  BY <1>1, <1>3 DEF Sent
<1> QED BY <1>1, <1>3, <1>4, Queued

\* The backlog still ends the primary's history when neither changes.
LEMMA SameBacklog ==
  ASSUME AsyncInv, UNCHANGED <<primary, generation, backlog>>,
         hist'[primary] = hist[primary], replId'[primary] = replId[primary]
  PROVE  BacklogInv'
<1>1. PICK p, h, r : p = primary /\ h = hist[p] /\ r = replId[p]
  OBVIOUS
<1>2. /\ primary' = p /\ hist'[p] = h /\ replId'[p] = r
      /\ generation' = generation /\ backlog' = backlog
  BY <1>1
<1> QED BY <1>1, <1>2 DEF AsyncInv, BacklogInv

\* A history begins itself.
LEMMA BeginsItself == ASSUME NEW h \in Seq(Nat) PROVE Begins(h, h) /\ Len(h) \in Nat
BY LenProperties DEF Begins

\* A step that leaves the nodes' data and the backlog alone.
LEMMA StillStep ==
  ASSUME AsyncInv, UNCHANGED <<hist, replId, durable, primary, generation, backlog, rolledBack>>,
         \A m \in InFlight(queue') : m \in InFlight(queue) \/ Sent(m), TypeOK'
  PROVE  Step
<1>1. BacklogInv'
  BY SameBacklog
<1>2. \A n \in Node : Image(n)' = Image(n)
  BY DEF Image
<1>3. Begins(hist[primary], hist'[primary])
  BY BeginsItself DEF AsyncInv, TypeOK
<1> QED BY <1>1, <1>2, <1>3 DEF Step, Summary

\* A message as it arrives.
LEMMA HeadProperties ==
  ASSUME TypeOK, queue # <<>>
  PROVE  /\ Head(queue) \in Message /\ Head(queue) \in InFlight(queue)
         /\ Head(queue).dst \in Node /\ Head(queue).replId \in Nat
         /\ Head(queue).type = "entry" => Head(queue).offset \in Nat /\ Head(queue).id \in Nat
         /\ Head(queue).type = "full_sync" => Head(queue).hist \in Seq(Nat)
<1>1. Head(queue) \in Message /\ Head(queue) \in InFlight(queue)
  BY QueueParts, EmptySeq DEF TypeOK
<1> QED BY <1>1 DEF Message

\* A message that is dropped.
LEMMA DiscardStep == ASSUME AsyncInv, Discard PROVE Step
<1>1. /\ TypeOK /\ queue # <<>> /\ queue' = Tail(queue)
      /\ UNCHANGED <<alive, hist, replId, durable, primary, generation, backlog, cut,
                     written, rolledBack>>
  BY DEF Discard, AsyncInv
<1>2. queue' \in Seq(Message) /\ \A m \in InFlight(queue') : m \in InFlight(queue)
  BY <1>1, NothingQueued
<1>3. TypeOK'
  BY <1>1, <1>2 DEF TypeOK
<1> QED BY <1>1, <1>2, <1>3, StillStep

\* A gap, a duplicate or another id.
LEMMA OutOfOrderStep == ASSUME AsyncInv, ReceiveOutOfOrder PROVE Step
<1> DEFINE m == Head(queue)
<1>1. /\ TypeOK /\ queue # <<>> /\ Current(m)
      /\ queue' = Tail(queue) \o
                  Wired(Sync(m.dst, primary, generation, replId[primary], backlog), cut)
      /\ UNCHANGED <<alive, hist, replId, durable, primary, generation, backlog, cut,
                     written, rolledBack>>
  BY DEF ReceiveOutOfOrder, AsyncInv, Arrives
<1>2. m \in InFlight(queue) /\ m.dst \in Node
  BY <1>1, HeadProperties
<1>3. m.dst \in Node \ {primary}
  BY <1>1, <1>2 DEF AsyncInv, ShippedInv, Current
<1>4. queue' \in Seq(Message) /\ \A x \in InFlight(queue') : x \in InFlight(queue) \/ Sent(x)
  BY <1>1, <1>3, SyncQueued
<1>5. TypeOK'
  BY <1>1, <1>4 DEF TypeOK
<1> QED BY <1>1, <1>4, <1>5, StillStep

\* A crash, or links that are cut.
LEMMA DownStep == ASSUME AsyncInv, NEW n \in Node, Crash(n) \/ Isolate(n) PROVE Step
<1>1. /\ TypeOK /\ (alive' = alive \/ alive' = [alive EXCEPT ![n] = FALSE])
      /\ cut' = cut \cup LinksOf(n)
      /\ UNCHANGED <<hist, replId, durable, primary, generation, backlog, queue, written, rolledBack>>
  BY DEF Crash, GoesDown, Isolate, AsyncInv
<1>2. queue' \in Seq(Message) /\ \A m \in InFlight(queue') : m \in InFlight(queue)
  BY <1>1, NothingQueued
<1>3. alive' \in [Node -> BOOLEAN] /\ cut' \subseteq Node \X Node
  BY <1>1 DEF TypeOK, LinksOf
<1>4. TypeOK'
  BY <1>1, <1>2, <1>3 DEF TypeOK
<1> QED BY <1>1, <1>2, <1>4, StillStep

\* A restart, or links that are restored.
LEMMA UpStep == ASSUME AsyncInv, NEW n \in Node, Restart(n) \/ Heal(n) PROVE Step
<1>1. /\ TypeOK /\ (alive' = alive \/ alive' = [alive EXCEPT ![n] = TRUE])
      /\ cut' = cut \ LinksOf(n)
      /\ \E up : Synchronize(n, up, cut')
      /\ UNCHANGED <<hist, replId, durable, primary, generation, backlog, written, rolledBack>>
  BY DEF Restart, Heal, AsyncInv
<1>2. queue' \in Seq(Message) /\ \A m \in InFlight(queue') : m \in InFlight(queue) \/ Sent(m)
  <2>1. CASE queue' = queue
    BY <1>1, <2>1, NothingQueued
  <2>2. CASE queue' # queue
    <3>1. PICK c : /\ n # primary
                   /\ queue' = queue \o
                               Wired(Sync(n, primary, generation, replId[primary], backlog), c)
      BY <1>1, <2>2 DEF Synchronize
    <3> QED BY <1>1, <3>1, SyncQueued
  <2> QED BY <2>1, <2>2
<1>3. alive' \in [Node -> BOOLEAN] /\ cut' \subseteq Node \X Node
  BY <1>1 DEF TypeOK, LinksOf
<1>4. TypeOK'
  BY <1>1, <1>2, <1>3 DEF TypeOK
<1> QED BY <1>1, <1>2, <1>4, StillStep

\* An fsync.
LEMMA FsyncStep == ASSUME AsyncInv, NEW n \in Node, Fsync(n) PROVE Step
<1>1. /\ TypeOK /\ durable' = [durable EXCEPT ![n] = Image(n)]
      /\ UNCHANGED <<alive, hist, replId, primary, generation, backlog, queue, cut,
                     written, rolledBack>>
  BY DEF Fsync, AsyncInv
<1>2. queue' \in Seq(Message) /\ \A m \in InFlight(queue') : m \in InFlight(queue)
  BY <1>1, NothingQueued
<1>3. \A k \in Node : Image(k)' = Image(k)
  BY <1>1 DEF Image
<1>4. \A k \in Node : durable'[k] \in {durable[k], Image(k)'}
  BY <1>1, <1>3 DEF TypeOK
<1>5. Begins(hist[primary], hist'[primary])
  BY <1>1, BeginsItself DEF TypeOK
<1>6. TypeOK'
  <2>1. Image(n) \in [hist : Seq(Nat), replId : Nat]
    BY <1>1 DEF Image, TypeOK
  <2>2. durable' \in [Node -> [hist : Seq(Nat), replId : Nat]]
    BY <1>1, <2>1 DEF TypeOK
  <2> QED BY <1>1, <1>2, <2>2 DEF TypeOK
<1>7. BacklogInv'
  BY <1>1, SameBacklog
<1> QED BY <1>1, <1>2, <1>3, <1>4, <1>5, <1>6, <1>7 DEF Step, Summary

\* A replica loses its power.
LEMMA ReplicaLossStep ==
  ASSUME AsyncInv, NEW n \in Node, n # primary, PowerLoss(n)
  PROVE  Step
<1>1. /\ TypeOK /\ alive' = [alive EXCEPT ![n] = FALSE] /\ cut' = cut \cup LinksOf(n)
      /\ hist' = [hist EXCEPT ![n] = durable[n].hist]
      /\ replId' = [replId EXCEPT ![n] = durable[n].replId]
      /\ UNCHANGED <<durable, primary, generation, backlog, queue, written, rolledBack>>
  BY DEF PowerLoss, GoesDown, KeptAfterLoss, AsyncInv
<1>2. queue' \in Seq(Message) /\ \A m \in InFlight(queue') : m \in InFlight(queue)
  BY <1>1, NothingQueued
<1>3. durable[n] \in [hist : Seq(Nat), replId : Nat]
  BY <1>1 DEF TypeOK
<1>4. hist'[primary] = hist[primary] /\ replId'[primary] = replId[primary]
  BY <1>1 DEF TypeOK
<1>5. \A k \in Node \ {primary} : Image(k)' \in {Image(k), durable[k]}
  <2>1. durable[n] = [hist |-> durable[n].hist, replId |-> durable[n].replId]
    BY <1>3
  <2>2. Image(n)' = durable[n]
    BY <1>1, <2>1 DEF Image, TypeOK
  <2>3. \A k \in Node \ {n} : Image(k)' = Image(k)
    BY <1>1 DEF Image, TypeOK
  <2> QED BY <2>2, <2>3
<1>6. TypeOK'
  <2>1. hist' \in [Node -> Seq(Nat)]
    BY <1>1, <1>3 DEF TypeOK
  <2>2. replId' \in [Node -> Nat]
    BY <1>1, <1>3 DEF TypeOK
  <2>3. alive' \in [Node -> BOOLEAN] /\ cut' \subseteq Node \X Node
    BY <1>1 DEF TypeOK, LinksOf
  <2> QED BY <1>1, <1>2, <2>1, <2>2, <2>3 DEF TypeOK
<1>7. BacklogInv'
  BY <1>1, <1>4, SameBacklog
<1>8. Begins(hist[primary], hist'[primary])
  BY <1>1, <1>4, BeginsItself DEF TypeOK
<1>9. \A k \in Node : durable'[k] \in {durable[k], Image(k)'}
  BY <1>1
<1> QED BY <1>1, <1>2, <1>4, <1>5, <1>6, <1>7, <1>8, <1>9 DEF Step, Summary

\* The next entry of a replica.
LEMMA EntryStep == ASSUME AsyncInv, ReceiveEntry PROVE Step
<1> DEFINE m == Head(queue)
           r == m.dst
<1>1. /\ TypeOK /\ queue # <<>> /\ queue' = Tail(queue)
      /\ m.type = "entry" /\ Current(m) /\ Follows(m)
      /\ hist' = [hist EXCEPT ![r] = Append(hist[r], m.id)]
      /\ UNCHANGED <<alive, replId, durable, primary, generation, backlog, cut,
                     written, rolledBack>>
  BY DEF ReceiveEntry, Arrives, AsyncInv
<1>2. m \in InFlight(queue) /\ r \in Node /\ m.id \in Nat
  BY <1>1, HeadProperties
<1>3. r # primary /\ replId[r] = replId[primary] /\ m.offset = Len(hist[r]) + 1
  BY <1>1, <1>2 DEF AsyncInv, ShippedInv, Current, Follows
<1>4. queue' \in Seq(Message) /\ \A x \in InFlight(queue') : x \in InFlight(queue)
  BY <1>1, NothingQueued
<1>5. PICK h \in Seq(Nat) : h = hist[r]
  BY <1>1, <1>2 DEF TypeOK
<1>6. PICK x \in Nat : x = m.id
  BY <1>2
<1>7. /\ Append(h, x) \in Seq(Nat) /\ Len(Append(h, x)) = Len(h) + 1 /\ Len(h) \in Nat
      /\ Append(h, x)[Len(h) + 1] = x /\ \A k \in 1..Len(h) : Append(h, x)[k] = h[k]
  BY AppendProperties, LenProperties
<1>8. hist'[r] = Append(h, x) /\ \A k \in Node \ {r} : hist'[k] = hist[k]
  BY <1>1, <1>2, <1>5, <1>6 DEF TypeOK
<1>9. Sound => Begins(hist'[r], hist[primary])
  <2> SUFFICES ASSUME Sound PROVE Begins(Append(h, x), hist[primary])
    BY <1>8
  <2>1. Image(r) \in Images /\ Image(r).replId = replId[r] /\ Image(r).hist = h
    BY <1>2, <1>5 DEF Images, Image
  <2>2. Begins(h, hist[primary])
    BY <1>3, <2>1 DEF AsyncInv, AheadInv
  <2>3. Has(hist[primary], Len(h) + 1, x)
    BY <1>1, <1>2, <1>3, <1>5, <1>6 DEF AsyncInv, ShippedInv
  <2> QED BY <1>7, <2>2, <2>3 DEF Begins, Has
<1>10. \A k \in Node \ {primary} : Image(k)' \in {Image(k), durable[k]} \/ Replicated(k)
  <2>1. Replicated(r)
    BY <1>1, <1>3, <1>9 DEF Replicated
  <2>2. \A k \in Node \ {r} : Image(k)' = Image(k)
    BY <1>1, <1>8 DEF Image
  <2> QED BY <2>1, <2>2
<1>11. hist'[primary] = hist[primary] /\ Begins(hist[primary], hist'[primary])
  BY <1>1, <1>3, <1>8, BeginsItself DEF TypeOK
<1>12. TypeOK'
  <2>1. hist' \in [Node -> Seq(Nat)]
    BY <1>1, <1>5, <1>6, <1>7 DEF TypeOK
  <2> QED BY <1>1, <1>4, <2>1 DEF TypeOK
<1>13. BacklogInv'
  BY <1>1, <1>11, SameBacklog
<1> QED BY <1>1, <1>4, <1>10, <1>11, <1>12, <1>13 DEF Step, Summary

\* The full state.
LEMMA FullSyncStep == ASSUME AsyncInv, ReceiveFullSync PROVE Step
<1> DEFINE m == Head(queue)
           r == m.dst
<1>1. /\ TypeOK /\ queue # <<>> /\ queue' = Tail(queue)
      /\ m.type = "full_sync" /\ Current(m)
      /\ hist' = [hist EXCEPT ![r] = m.hist]
      /\ replId' = [replId EXCEPT ![r] = m.replId]
      /\ UNCHANGED <<alive, durable, primary, generation, backlog, cut, written, rolledBack>>
  BY DEF ReceiveFullSync, Arrives, AsyncInv
<1>2. m \in InFlight(queue) /\ r \in Node /\ m.hist \in Seq(Nat) /\ m.replId \in Nat
  BY <1>1, HeadProperties
<1>3. r # primary /\ m.replId = replId[primary]
  BY <1>1, <1>2 DEF AsyncInv, ShippedInv, Current
<1>4. queue' \in Seq(Message) /\ \A x \in InFlight(queue') : x \in InFlight(queue)
  BY <1>1, NothingQueued
<1>5. /\ hist'[r] = m.hist /\ replId'[r] = m.replId
      /\ \A k \in Node \ {r} : hist'[k] = hist[k] /\ replId'[k] = replId[k]
  BY <1>1, <1>2 DEF TypeOK
<1>6. Replicated(r)
  BY <1>1, <1>2, <1>3, <1>5 DEF Replicated, AsyncInv, ShippedInv
<1>7. \A k \in Node \ {primary} : Image(k)' \in {Image(k), durable[k]} \/ Replicated(k)
  <2>1. \A k \in Node \ {r} : Image(k)' = Image(k)
    BY <1>5 DEF Image
  <2> QED BY <1>6, <2>1
<1>8. /\ hist'[primary] = hist[primary] /\ replId'[primary] = replId[primary]
      /\ Begins(hist[primary], hist'[primary])
  BY <1>1, <1>3, <1>5, BeginsItself DEF TypeOK
<1>9. TypeOK'
  <2>1. hist' \in [Node -> Seq(Nat)]
    BY <1>1, <1>2 DEF TypeOK
  <2>2. replId' \in [Node -> Nat]
    BY <1>1, <1>2 DEF TypeOK
  <2> QED BY <1>1, <1>4, <2>1, <2>2 DEF TypeOK
<1>10. BacklogInv'
  BY <1>1, <1>8, SameBacklog
<1> QED BY <1>1, <1>4, <1>7, <1>8, <1>9, <1>10 DEF Step, Summary

----------------------------------------------------------------------------
(* The backlog *)

\* A backlog to which the next write is added still ends the history.
LEMMA DequeEnds ==
  ASSUME NEW h \in Seq(Nat), NEW b \in Seq(Entry), Ends(h, b), Len(b) <= BacklogSize,
         NEW e \in Entry, e.offset = Len(h) + 1, NEW d, d = Deque(Append(b, e), BacklogSize)
  PROVE  Ends(Append(h, e.id), d)
<1>0. BacklogSize \in Nat \ {0}
  BY AsyncAssumption
<1>1. /\ d \in Seq(Entry) /\ e \in InFlight(d)
      /\ \A j \in DOMAIN d :
           /\ Len(b) + 1 - Len(d) + j \in 1..Len(b) + 1
           /\ d[j] = IF Len(b) + 1 - Len(d) + j = Len(b) + 1 THEN e
                                                            ELSE b[Len(b) + 1 - Len(d) + j]
  <2>1. PICK size \in Nat \ {0} : size = BacklogSize
    BY <1>0
  <2>2. Len(b) <= size /\ d = Deque(Append(b, e), size)
    BY <2>1
  <2>3. d \in Seq(Entry) /\ e \in InFlight(d)
    BY <2>2, DequeProperties
  <2>4. TakesEnd(d, b, e)
    BY <2>2, DequeProperties
  <2> QED BY <2>3, <2>4 DEF TakesEnd
<1>2. /\ Len(b) \in Nat /\ DOMAIN b = 1..Len(b) /\ Len(d) \in Nat /\ DOMAIN d = 1..Len(d)
      /\ Len(h) \in Nat /\ Len(b) <= Len(h)
  BY <1>1, LenProperties DEF Ends
<1>3. PICK x \in Nat : x = e.id
  BY DEF Entry
<1>4. PICK g \in Seq(Nat) : g = Append(h, x)
  BY AppendProperties
<1>5. Len(g) = Len(h) + 1 /\ g[Len(h) + 1] = x /\ \A k \in 1..Len(h) : g[k] = h[k]
  BY <1>4, AppendProperties
<1>6. Len(d) <= Len(b) + 1
  <2>1. 1 \in DOMAIN d
    BY <1>1, <1>2 DEF InFlight
  <2>2. Len(b) + 1 - Len(d) + 1 \in 1..Len(b) + 1
    BY <1>1, <1>2, <2>1
  <2> QED BY <1>2, <2>2
<1>7. ASSUME NEW k \in DOMAIN d
      PROVE  d[k].offset = Len(g) - Len(d) + k /\ g[Len(g) - Len(d) + k] = d[k].id
  <2>1. PICK at \in 1..Len(b) + 1 : /\ at = Len(b) + 1 - Len(d) + k
                                    /\ d[k] = IF at = Len(b) + 1 THEN e ELSE b[at]
    BY <1>1
  <2>2. Len(g) - Len(d) + k = Len(h) - Len(b) + at
    BY <1>2, <1>5, <2>1
  <2>3. CASE at = Len(b) + 1
    BY <1>2, <1>3, <1>5, <2>1, <2>2, <2>3
  <2>4. CASE at # Len(b) + 1
    <3>1. at \in DOMAIN b /\ d[k] = b[at]
      BY <1>2, <2>1, <2>4
    <3>2. b[at].offset = Len(h) - Len(b) + at /\ h[Len(h) - Len(b) + at] = b[at].id
      BY <3>1 DEF Ends
    <3>3. Len(h) - Len(b) + at \in 1..Len(h)
      BY <1>2, <3>1
    <3> QED BY <1>5, <2>2, <3>1, <3>2, <3>3
  <2> QED BY <2>3, <2>4
<1>8. Len(d) <= Len(g)
  BY <1>2, <1>5, <1>6
<1>9. Ends(g, d)
  BY <1>7, <1>8 DEF Ends
<1> QED BY <1>3, <1>4, <1>9

\* A backlog without the entries beyond a prefix of the history ends the prefix.
LEMMA KeptEnds ==
  ASSUME NEW h \in Seq(Nat), NEW b \in Seq(Entry), Ends(h, b), NEW d \in Seq(Nat), Begins(d, h)
  PROVE  Ends(d, Kept(b, {k \in DOMAIN b : b[k].offset <= Len(d)}))
<1>1. /\ Len(b) \in Nat /\ DOMAIN b = 1..Len(b) /\ Len(d) \in Nat /\ Len(h) \in Nat
      /\ Len(b) <= Len(h) /\ Len(d) <= Len(h)
  BY LenProperties DEF Ends, Begins
<1> DEFINE m == IF Len(d) <= Len(h) - Len(b) THEN 0 ELSE Len(d) - (Len(h) - Len(b))
<1>2. m \in Nat /\ m <= Len(b) /\ m <= Len(d) /\ (m # 0 => Len(d) - m = Len(h) - Len(b))
  BY <1>1
<1>3. {k \in DOMAIN b : b[k].offset <= Len(d)} = 1..m
  <2>1. \A k \in 1..Len(b) : b[k].offset = Len(h) - Len(b) + k
    BY <1>1 DEF Ends
  <2>2. \A k \in 1..Len(b) : b[k].offset <= Len(d) <=> k \in 1..m
    BY <1>1, <2>1
  <2> QED BY <1>1, <1>2, <2>2
<1> HIDE DEF m
<1>4. PICK f : f = Kept(b, 1..m)
  OBVIOUS
<1>5. f \in Seq(Entry) /\ Len(f) = m /\ DOMAIN f = 1..m /\ \A j \in 1..m : f[j] = b[j]
  <2>1. f \in Seq(Entry) /\ Len(f) = m /\ \A j \in 1..m : f[j] = b[j]
    BY <1>2, <1>4, KeptPrefix
  <2>2. DOMAIN f = 1..Len(f)
    BY <2>1, LenProperties
  <2> QED BY <2>1, <2>2
<1>6. ASSUME NEW k \in 1..m
      PROVE  f[k].offset = Len(d) - m + k /\ d[Len(d) - m + k] = f[k].id
  <2>0. k \in DOMAIN b /\ f[k] = b[k] /\ m # 0
    BY <1>1, <1>2, <1>5
  <2>1. k \in DOMAIN b /\ f[k] = b[k] /\ Len(d) - m + k = Len(h) - Len(b) + k
    BY <1>1, <1>2, <2>0
  <2>2. b[k].offset = Len(h) - Len(b) + k /\ h[Len(h) - Len(b) + k] = b[k].id
    BY <2>1 DEF Ends
  <2>3. Len(d) - m + k \in 1..Len(d)
    BY <1>1, <1>2
  <2> QED BY <2>1, <2>2, <2>3 DEF Begins
<1> QED BY <1>2, <1>3, <1>4, <1>5, <1>6 DEF Ends

\* A write is streamed to every replica.
LEMMA ShipProperties ==
  ASSUME NEW p \in Node, NEW e \in Entry,
         NEW out, out = [k \in DOMAIN PeersOf(p) |-> EntryMsg(p, PeersOf(p)[k], e)]
  PROVE  /\ out \in Seq(Message)
         /\ \A j \in DOMAIN out : \E r \in Node \ {p} : out[j] = EntryMsg(p, r, e)
<1>0. N \in Nat
  BY AsyncAssumption
<1>1. PICK ps \in Seq(Node \ {p}) : ps = PeersOf(p)
  BY <1>0, NodesInOrderProperties DEF PeersOf
<1>2. Len(ps) \in Nat /\ DOMAIN ps = 1..Len(ps) /\ \A k \in DOMAIN ps : ps[k] \in Node \ {p}
  BY LenProperties, ElementOfSeq
<1>3. out = [k \in 1..Len(ps) |-> EntryMsg(p, ps[k], e)]
  BY <1>1, <1>2
<1>4. \A k \in 1..Len(ps) : EntryMsg(p, ps[k], e) \in Message
  BY <1>2 DEF EntryMsg, Message, Entry
<1>5. out \in [1..Len(ps) -> Message]
  BY <1>3, <1>4
<1>6. out \in Seq(Message)
  BY <1>2, <1>5, FunctionIsSeq
<1> QED BY <1>2, <1>3, <1>6

\* A write.
LEMMA WriteStep == ASSUME AsyncInv, Write PROVE Step
<1>1. PICK p \in Node : p = primary
  BY DEF AsyncInv, TypeOK
<1>2. PICK h \in Seq(Nat) : h = hist[p]
  BY <1>1 DEF AsyncInv, TypeOK
<1>3. PICK e \in Entry :
        e = [generation |-> generation, replId |-> replId[p],
             offset |-> Len(h) + 1, id |-> written + 1]
  <2>1. Len(h) + 1 \in Nat /\ generation \in Nat /\ replId[p] \in Nat /\ written + 1 \in Nat
    BY LenProperties DEF AsyncInv, TypeOK
  <2> QED BY <2>1 DEF Entry
<1>4. /\ e.generation = generation /\ e.offset = Len(h) + 1 /\ e.id = written + 1
      /\ e.id \in Nat
  BY <1>3 DEF Entry
<1>5. PICK out : out = [k \in DOMAIN PeersOf(p) |-> EntryMsg(p, PeersOf(p)[k], e)]
  OBVIOUS
<1>6. /\ TypeOK /\ hist' = [hist EXCEPT ![p] = Append(h, e.id)]
      /\ backlog' = Deque(Append(backlog, e), BacklogSize)
      /\ queue' = queue \o Wired(out, cut)
      /\ written' = written + 1
      /\ UNCHANGED <<alive, replId, durable, primary, generation, cut, rolledBack>>
  BY <1>1, <1>2, <1>3, <1>4, <1>5 DEF Write, AsyncInv, Retain, Deque
<1>7. PICK b \in Seq(Entry) : b = backlog /\ Len(b) <= BacklogSize
  BY <1>6 DEF TypeOK
<1>8. PICK d \in Seq(Entry) :
        /\ d = backlog' /\ Len(d) <= BacklogSize /\ e \in InFlight(d)
        /\ InFlight(d) \subseteq InFlight(b) \cup {e}
        /\ d = Deque(Append(b, e), BacklogSize)
  <2>1. BacklogSize \in Nat \ {0}
    BY AsyncAssumption
  <2> QED BY <1>6, <1>7, <2>1, DequeProperties
<1>9. /\ out \in Seq(Message)
      /\ \A j \in DOMAIN out : \E r \in Node \ {p} : out[j] = EntryMsg(p, r, e)
  BY <1>5, ShipProperties
<1>10. queue' \in Seq(Message) /\ \A m \in InFlight(queue') : m \in InFlight(queue) \/ Sent(m)
  <2>1. queue' \in Seq(Message)
        /\ \A m \in InFlight(queue') : m \in InFlight(queue) \/ m \in InFlight(out)
    BY <1>6, <1>9, Queued
  <2>2. \A m \in InFlight(out) : \E r \in Node \ {p} : m = EntryMsg(p, r, e)
    BY <1>9 DEF InFlight
  <2>3. \A m \in InFlight(out) : Sent(m)
    BY <1>1, <1>8, <2>2 DEF Sent, Syncs
  <2> QED BY <2>1, <2>3
<1>11. /\ hist'[p] = Append(h, e.id) /\ \A n \in Node \ {p} : hist'[n] = hist[n]
  BY <1>6 DEF TypeOK
<1>12. /\ Begins(h, Append(h, e.id)) /\ Append(h, e.id) \in Seq(Nat)
  BY <1>4, BeginsProperties
<1>13. TypeOK'
  <2>1. hist' \in [Node -> Seq(Nat)]
    BY <1>6, <1>12 DEF TypeOK
  <2>2. written' \in Nat
    BY <1>6 DEF TypeOK
  <2>3. backlog' \in Seq(Entry) /\ Len(backlog') <= BacklogSize
    BY <1>8
  <2> QED BY <1>6, <1>10, <2>1, <2>2, <2>3 DEF TypeOK
<1>14. BacklogInv'
  <2> SUFFICES ASSUME replId[p] = generation PROVE Ends(Append(h, e.id), d)
    BY <1>1, <1>6, <1>8, <1>11 DEF BacklogInv
  <2>1. Ends(h, b)
    BY <1>1, <1>2, <1>7 DEF AsyncInv, BacklogInv
  <2> QED BY <1>4, <1>7, <1>8, <2>1, DequeEnds
<1>15. \A n \in Node \ {primary} : Image(n)' = Image(n)
  BY <1>1, <1>6, <1>11 DEF Image
<1>16. \A x \in InFlight(backlog') : x \in InFlight(backlog) \/ x.generation = generation
  BY <1>4, <1>7, <1>8
<1>17. Begins(hist[primary], hist'[primary]) /\ replId'[primary] = replId[primary]
  BY <1>1, <1>2, <1>6, <1>11, <1>12
<1>18. Summary
  BY <1>6, <1>10, <1>15, <1>16, <1>17 DEF Summary
<1> QED BY <1>13, <1>14, <1>18 DEF Step

\* Every step but the loss of the primary's power, and promotions.
LEMMA StepSummary ==
  ASSUME AsyncInv, [Next]_vars
  PROVE  Step \/ PowerLoss(primary) \/ \E n \in Node : Promote(n)
<1>1. CASE Deliver
  BY <1>1, DiscardStep, EntryStep, OutOfOrderStep, FullSyncStep DEF Deliver
<1>2. CASE Write
  BY <1>2, WriteStep
<1>3. ASSUME NEW n \in Node, Fsync(n) \/ Crash(n) \/ Restart(n) \/ Isolate(n) \/ Heal(n)
      PROVE  Step
  BY <1>3, FsyncStep, DownStep, UpStep
<1>4. ASSUME NEW n \in Node, PowerLoss(n)
      PROVE  Step \/ PowerLoss(primary)
  BY <1>4, ReplicaLossStep
<1>5. CASE UNCHANGED vars
  <2>1. TypeOK /\ TypeOK'
    BY <1>5 DEF AsyncInv, TypeOK, vars
  <2>2. \A m \in InFlight(queue') : m \in InFlight(queue)
    BY <1>5 DEF vars
  <2> QED BY <1>5, <2>1, <2>2, StillStep DEF vars
<1> QED BY <1>1, <1>2, <1>3, <1>4, <1>5 DEF Next

----------------------------------------------------------------------------
(* The invariant is kept by a step that leaves the primary where it is *)

\* Two histories that begin the same history: one begins the other.
LEMMA BeginsComparable ==
  ASSUME NEW s, NEW t, NEW u, Len(s) \in Nat, Len(t) \in Nat, Begins(s, u), Begins(t, u)
  PROVE  Begins(s, t) \/ Begins(t, s)
BY DEF Begins

\* What images are made of.
LEMMA ImageTypes ==
  ASSUME TypeOK
  PROVE  \A a \in Images : a.hist \in Seq(Nat) /\ Len(a.hist) \in Nat /\ a.replId \in Nat
<1>1. ASSUME NEW n \in Node
      PROVE  /\ Image(n).hist \in Seq(Nat) /\ Image(n).replId \in Nat
             /\ durable[n].hist \in Seq(Nat) /\ durable[n].replId \in Nat
  BY DEF TypeOK, Image
<1>2. \A a \in Images : a.hist \in Seq(Nat) /\ a.replId \in Nat
  BY <1>1 DEF Images
<1> QED BY <1>2, LenProperties

\* The same after a step.
LEMMA ImagesAfter ==
  ASSUME TypeOK'
  PROVE  \A a \in Images' : a.hist \in Seq(Nat) /\ Len(a.hist) \in Nat /\ a.replId \in Nat
<1>1. ASSUME NEW n \in Node
      PROVE  /\ Image(n)'.hist \in Seq(Nat) /\ Image(n)'.replId \in Nat
             /\ durable'[n].hist \in Seq(Nat) /\ durable'[n].replId \in Nat
  BY DEF TypeOK, Image
<1>2. \A a \in Images' : a.hist \in Seq(Nat) /\ a.replId \in Nat
  BY <1>1 DEF Images
<1> QED BY <1>2, LenProperties

\* What is in a sequence of messages.
LEMMA InFlightTypes == ASSUME NEW S, NEW q \in Seq(S), NEW m \in InFlight(q) PROVE m \in S
BY LenProperties, ElementOfSeq DEF InFlight

\* The entries that end a history are in it.
LEMMA EndsHas ==
  ASSUME NEW h, Len(h) \in Nat, NEW b \in Seq(Entry), Ends(h, b), NEW e \in InFlight(b)
  PROVE  Has(h, e.offset, e.id)
<1>1. Len(b) \in Nat /\ DOMAIN b = 1..Len(b) /\ Len(b) <= Len(h)
  BY LenProperties DEF Ends
<1>2. PICK k \in 1..Len(b) : e = b[k]
  BY <1>1 DEF InFlight
<1>3. e.offset = Len(h) - Len(b) + k /\ h[Len(h) - Len(b) + k] = e.id
  BY <1>1, <1>2 DEF Ends
<1>4. Len(h) - Len(b) + k \in 1..Len(h)
  BY <1>1, <1>2
<1> QED BY <1>3, <1>4 DEF Has

\* What nodes hold after such a step: what one held before, or something of the
\* primary's id, and nothing sound that is beyond the primary.
LEMMA ImagesStep ==
  ASSUME AsyncInv, Step, NEW a \in Images'
  PROVE  /\ a \in Images \/ a.replId = replId[primary]
         /\ Sound /\ a.replId = replId[primary] => Begins(a.hist, hist'[primary])
<1> DEFINE Fits(b) == /\ b \in Images \/ b.replId = replId[primary]
                      /\ Sound /\ b.replId = replId[primary] => Begins(b.hist, hist'[primary])
<1>1. TypeOK /\ TypeOK' /\ Summary
  BY DEF AsyncInv, Step
<1>2. PICK h \in Seq(Nat) : h = hist[primary]
  BY <1>1 DEF TypeOK
<1>3. PICK f \in Seq(Nat) : f = hist'[primary]
  BY <1>1 DEF TypeOK, Summary
<1>4. Len(h) \in Nat /\ Len(f) \in Nat /\ Begins(h, f) /\ Begins(f, f)
  BY <1>1, <1>2, <1>3, BeginsItself DEF Summary
<1>5. ASSUME NEW b \in Images PROVE Fits(b)
  <2> SUFFICES ASSUME Sound, b.replId = replId[primary] PROVE Begins(b.hist, f)
    BY <1>3, <1>5
  <2>1. Begins(b.hist, h) /\ Len(b.hist) \in Nat
    BY <1>1, <1>2, ImageTypes DEF AsyncInv, AheadInv
  <2> QED BY <1>4, <2>1, HasBegins
<1>6. ASSUME NEW n \in Node PROVE Fits(Image(n)')
  <2>1. CASE n = primary
    <3>1. Image(n)'.replId = replId[primary] /\ Image(n)'.hist = f
      BY <1>1, <1>3, <2>1 DEF Image, Summary
    <3> QED BY <1>3, <1>4, <3>1
  <2>2. CASE n # primary /\ Image(n)' \in {Image(n), durable[n]}
    <3>1. Image(n)' \in Images
      BY <2>2 DEF Images
    <3> QED BY <1>5, <3>1
  <2>3. CASE n # primary /\ Replicated(n)
    <3>1. /\ Image(n)'.replId = replId[primary] /\ Image(n)'.hist = hist'[n]
          /\ Sound => Begins(hist'[n], h)
      BY <1>2, <2>3 DEF Image, Replicated
    <3>2. Len(hist'[n]) \in Nat
      BY <1>1, LenProperties DEF TypeOK
    <3>3. Sound => Begins(hist'[n], f)
      BY <1>4, <3>1, <3>2, HasBegins
    <3> QED BY <1>3, <3>1, <3>3
  <2> QED BY <1>1, <2>1, <2>2, <2>3 DEF Summary
<1>7. ASSUME NEW n \in Node PROVE Fits(durable'[n])
  <2>1. durable'[n] \in {durable[n], Image(n)'}
    BY <1>1 DEF Summary
  <2>2. durable[n] \in Images
    BY DEF Images
  <2> HIDE DEF Fits
  <2> QED BY <1>5, <1>6, <2>1, <2>2
<1>8. (\E n \in Node : a = Image(n)') \/ (\E n \in Node : a = durable'[n])
  BY DEF Images
<1> HIDE DEF Fits
<1>9. Fits(a)
  BY <1>6, <1>7, <1>8
<1> QED BY <1>9 DEF Fits

\* Of no later generation than the group.
LEMMA IdsStep == ASSUME AsyncInv, Step PROVE IdsInv'
<1>1. TypeOK /\ TypeOK' /\ Summary /\ IdsInv
  BY DEF AsyncInv, Step
<1>2. PICK g \in Nat : g = generation /\ generation' = g
  BY <1>1 DEF TypeOK, Summary
<1>3. ASSUME NEW a \in Images' PROVE a.replId <= g
  <2>1. a \in Images \/ a.replId = replId[primary]
    BY ImagesStep
  <2>2. \A b \in Images : b.replId <= g
    <3>1. ASSUME NEW n \in Node PROVE Image(n).replId <= g /\ durable[n].replId <= g
      BY <1>1, <1>2 DEF IdsInv, Image
    <3> QED BY <3>1 DEF Images
  <2>3. replId[primary] <= g
    BY <1>1, <1>2 DEF IdsInv, TypeOK
  <2> QED BY <2>1, <2>2, <2>3
<1>4. ASSUME NEW n \in Node PROVE replId'[n] <= g /\ durable'[n].replId <= g
  <2>1. Image(n)' \in Images' /\ durable'[n] \in Images' /\ Image(n)'.replId = replId'[n]
    BY DEF Images, Image
  <2> QED BY <1>3, <2>1
<1>5. \A e \in InFlight(backlog') : e.generation <= g
  BY <1>1, <1>2 DEF Summary, IdsInv
<1>6. ASSUME NEW m \in InFlight(queue') PROVE m.generation <= g
  <2>1. CASE m \in InFlight(queue)
    BY <1>1, <1>2, <2>1 DEF IdsInv
  <2>2. CASE Sent(m)
    <3>1. m.generation = g \/ \E e \in InFlight(backlog') : m.generation = e.generation
      BY <1>2, <2>2 DEF Sent, Syncs, EntryMsg, FullSyncMsg
    <3> QED BY <1>2, <1>5, <3>1
  <2> QED BY <1>1, <2>1, <2>2 DEF Summary
<1>7. \A id \in rolledBack' : id <= g
  BY <1>1, <1>2 DEF Summary, IdsInv
<1> QED BY <1>2, <1>4, <1>5, <1>6, <1>7 DEF IdsInv

\* The primary's memory and disk.
LEMMA PrimaryStep == ASSUME AsyncInv, Step PROVE PrimaryInv'
<1>1. TypeOK /\ TypeOK' /\ Summary /\ PrimaryInv
  BY DEF AsyncInv, Step
<1>2. PICK p \in Node : p = primary /\ primary' = p
  BY <1>1 DEF TypeOK, Summary
<1>3. PICK h \in Seq(Nat) : h = hist[p]
  BY <1>1 DEF TypeOK
<1>4. PICK f \in Seq(Nat) : f = hist'[p]
  BY <1>1 DEF TypeOK
<1>5. Len(h) \in Nat /\ Len(f) \in Nat /\ Begins(h, f) /\ Begins(f, f)
  BY <1>1, <1>2, <1>3, <1>4, BeginsItself DEF Summary
<1>6. PICK i, g : i = replId[p] /\ replId'[p] = i /\ g = generation /\ generation' = g
  BY <1>1, <1>2 DEF Summary
<1>7. PICK old, new : old = durable[p] /\ new = durable'[p]
  OBVIOUS
<1>8. new = old \/ (new.replId = i /\ new.hist = f)
  BY <1>1, <1>2, <1>4, <1>6, <1>7 DEF Summary, Image
<1>9. /\ i # g => i \in rolledBack /\ old.replId # g
      /\ old.replId = g => Begins(old.hist, h)
  BY <1>1, <1>2, <1>3, <1>6, <1>7 DEF PrimaryInv
<1>10. Len(old.hist) \in Nat
  BY <1>1, <1>7, LenProperties DEF TypeOK
<1>11. i # g => i \in rolledBack' /\ new.replId # g
  BY <1>1, <1>8, <1>9 DEF Summary
<1>12. new.replId = g => Begins(new.hist, f)
  BY <1>5, <1>8, <1>9, <1>10, HasBegins
<1> QED BY <1>2, <1>4, <1>6, <1>7, <1>11, <1>12 DEF PrimaryInv

\* Nothing sound is beyond the primary.
LEMMA AheadStep == ASSUME AsyncInv, Step PROVE AheadInv'
<1>1. PICK p, i, f : p = primary /\ i = replId[p] /\ f = hist'[p]
  OBVIOUS
<1>2. primary' = p /\ replId'[p] = i /\ rolledBack' = rolledBack
  BY <1>1 DEF Step, Summary
<1>3. Sound' <=> Sound
  BY <1>1, <1>2 DEF Sound
<1>4. ASSUME Sound, NEW a \in Images', a.replId = i PROVE Begins(a.hist, f)
  BY <1>1, <1>4, ImagesStep
<1> QED BY <1>1, <1>2, <1>3, <1>4 DEF AheadInv

\* What is on its way.
LEMMA ShippedStep == ASSUME AsyncInv, Step PROVE ShippedInv'
<1>1. TypeOK /\ TypeOK' /\ Summary /\ ShippedInv /\ BacklogInv'
  BY DEF AsyncInv, Step
<1>2. PICK p \in Node : p = primary /\ primary' = p
  BY <1>1 DEF TypeOK, Summary
<1>3. PICK h \in Seq(Nat) : h = hist[p]
  BY <1>1 DEF TypeOK
<1>4. PICK f \in Seq(Nat) : f = hist'[p]
  BY <1>1 DEF TypeOK
<1>5. Len(h) \in Nat /\ Len(f) \in Nat /\ Begins(h, f)
  BY <1>1, <1>2, <1>3, <1>4, LenProperties DEF Summary
<1>6. PICK i, g : i = replId[p] /\ replId'[p] = i /\ g = generation /\ generation' = g
  BY <1>1, <1>2 DEF Summary
<1>7. Sound' <=> Sound
  BY <1>1, <1>2, <1>6 DEF Sound, Summary
<1>8. \A m : Current(m)' <=> Current(m)
  BY <1>1, <1>2, <1>6 DEF Current, Summary
<1>9. ASSUME NEW m \in InFlight(queue') PROVE m.dst # m.src
  <2>1. CASE Sent(m)
    BY <2>1 DEF Sent, Syncs, EntryMsg, FullSyncMsg
  <2> QED BY <1>1, <2>1 DEF Summary, ShippedInv
<1>10. ASSUME Sound, NEW m \in InFlight(queue'), Current(m)
       PROVE  /\ m.type = "entry" => Has(f, m.offset, m.id)
              /\ m.type = "full_sync" => Begins(m.hist, f)
  <2>1. CASE m \in InFlight(queue)
    <3>1. /\ m.type = "entry" => Has(h, m.offset, m.id)
          /\ m.type = "full_sync" => Begins(m.hist, h)
      BY <1>1, <1>2, <1>3, <1>10, <2>1 DEF ShippedInv
    <3>2. m.type = "full_sync" => Len(m.hist) \in Nat
      <4>1. m \in Message
        BY <1>1, <2>1, InFlightTypes DEF TypeOK
      <4>2. m.type = "full_sync" => m.hist \in Seq(Nat)
        BY <4>1 DEF Message
      <4> QED BY <4>2, LenProperties
    <3> QED BY <1>5, <3>1, <3>2, HasBegins
  <2>2. CASE \E r \in Node, e \in InFlight(backlog') : m = EntryMsg(p, r, e)
    <3>1. i = g
      BY <1>2, <1>6, <1>10 DEF AsyncInv, PrimaryInv, Sound
    <3>2. PICK b \in Seq(Entry) : b = backlog'
      BY <1>1 DEF TypeOK
    <3>3. Ends(f, b)
      BY <1>1, <1>2, <1>4, <1>6, <3>1, <3>2 DEF BacklogInv
    <3>4. PICK e \in InFlight(b) : m.type = "entry" /\ m.offset = e.offset /\ m.id = e.id
      BY <2>2, <3>2 DEF EntryMsg
    <3>5. Has(f, e.offset, e.id)
      BY <1>5, <3>3, EndsHas
    <3> QED BY <3>4, <3>5
  <2>3. CASE \E r \in Node : m = FullSyncMsg(p, r, g, i)
    BY <1>3, <1>5, <2>3 DEF FullSyncMsg
  <2> QED BY <1>1, <1>2, <1>6, <2>1, <2>2, <2>3 DEF Summary, Sent, Syncs
<1> QED BY <1>2, <1>4, <1>7, <1>8, <1>9, <1>10 DEF ShippedInv

\* One history for each id.
LEMMA ChainStep == ASSUME AsyncInv, Step PROVE ChainInv'
<1>1. TypeOK /\ TypeOK' /\ rolledBack' = rolledBack
  BY DEF AsyncInv, Step, Summary
<1>2. SUFFICES ASSUME NEW a \in Images', NEW b \in Images',
                      a.replId = b.replId, a.replId \notin rolledBack
               PROVE  Begins(a.hist, b.hist) \/ Begins(b.hist, a.hist)
  BY <1>1 DEF ChainInv
<1>3. Len(a.hist) \in Nat /\ Len(b.hist) \in Nat
  BY <1>1, ImagesAfter
<1>4. CASE a.replId = replId[primary]
  <2>1. Sound
    BY <1>2, <1>4 DEF Sound
  <2>2. Begins(a.hist, hist'[primary]) /\ Begins(b.hist, hist'[primary])
    BY <1>2, <1>4, <2>1, ImagesStep
  <2> QED BY <1>3, <2>2, BeginsComparable
<1>5. CASE a.replId # replId[primary]
  <2>1. a \in Images /\ b \in Images
    BY <1>2, <1>5, ImagesStep
  <2> QED BY <1>2, <2>1 DEF AsyncInv, ChainInv
<1> QED BY <1>4, <1>5

\* The invariant is kept.
LEMMA StepInv == ASSUME AsyncInv, Step PROVE AsyncInv'
BY IdsStep, PrimaryStep, AheadStep, ShippedStep, ChainStep DEF AsyncInv, Step

----------------------------------------------------------------------------
(* The loss of the primary's power *)

\* What the backlog keeps is of the backlog, and ends what the primary keeps.
LEMMA LossBacklog ==
  ASSUME AsyncInv, PowerLoss(primary)
  PROVE  /\ backlog' \in Seq(Entry) /\ Len(backlog') <= BacklogSize
         /\ InFlight(backlog') \subseteq InFlight(backlog)
         /\ durable[primary].replId = generation => Ends(durable[primary].hist, backlog')
<1>1. PICK p \in Node : p = primary
  BY DEF AsyncInv, TypeOK
<1>2. PICK b \in Seq(Entry) : b = backlog /\ Len(b) <= BacklogSize
  BY DEF AsyncInv, TypeOK
<1>3. PICK h \in Seq(Nat) : h = hist[p]
  BY DEF AsyncInv, TypeOK
<1>4. PICK d \in Seq(Nat) : d = durable[p].hist
  BY DEF AsyncInv, TypeOK
<1>5. PICK I \in SUBSET DOMAIN b : I = {k \in DOMAIN b : b[k].offset <= Len(d)}
  OBVIOUS
<1>6. PICK f : f = Kept(b, I)
  OBVIOUS
<1>7. backlog' = f
  BY <1>1, <1>2, <1>4, <1>5, <1>6 DEF PowerLoss, KeptAfterLoss
<1>8. f \in Seq(Entry) /\ DOMAIN f = 1..Cardinality(I)
      /\ \A j \in DOMAIN f : \E i \in I : f[j] = b[i]
  BY <1>6, KeptProperties
<1>9. InFlight(f) \subseteq InFlight(b)
  BY <1>8 DEF InFlight
<1>10. Len(f) <= Len(b)
  <2>1. Len(b) \in Nat /\ DOMAIN b = 1..Len(b)
    BY LenProperties
  <2>2. PICK l \in Nat : l = Len(b) /\ DOMAIN b = 1..l
    BY <2>1
  <2>3. IsFiniteSet(1..l) /\ Cardinality(1..l) = l
    BY FS_Interval
  <2>4. Cardinality(I) <= l /\ Cardinality(I) \in Nat
    BY <2>2, <2>3, FS_Subset, FS_CardinalityType
  <2>5. Len(f) \in Nat /\ DOMAIN f = 1..Len(f)
    BY <1>8, LenProperties
  <2> QED BY <1>8, <2>2, <2>4, <2>5
<1>11. ASSUME durable[p].replId = generation PROVE Ends(d, f)
  <2>1. replId[p] = generation /\ Begins(d, h)
    BY <1>1, <1>3, <1>4, <1>11 DEF AsyncInv, PrimaryInv
  <2>2. Ends(h, b)
    BY <1>1, <1>2, <1>3, <2>1 DEF AsyncInv, BacklogInv
  <2> QED BY <1>5, <1>6, <2>1, <2>2, KeptEnds
<1>12. Len(b) \in Nat /\ Len(f) \in Nat /\ BacklogSize \in Nat
  BY <1>8, AsyncAssumption, LenProperties
<1>13. Len(f) <= BacklogSize
  BY <1>2, <1>10, <1>12
<1> QED BY <1>1, <1>2, <1>4, <1>7, <1>8, <1>9, <1>11, <1>13

\* The invariant is kept: if the disk was behind the memory, the id on the disk
\* is not sound any more; if not, only the links and the backlog have changed.
LEMMA PrimaryLossStep == ASSUME AsyncInv, PowerLoss(primary) PROVE AsyncInv'
<1>1. PICK p \in Node : p = primary
  BY DEF AsyncInv, TypeOK
<1>2. PICK old : old = durable[p]
  OBVIOUS
<1>3. /\ TypeOK /\ alive' = [alive EXCEPT ![p] = FALSE] /\ cut' = cut \cup LinksOf(p)
      /\ hist' = [hist EXCEPT ![p] = old.hist]
      /\ replId' = [replId EXCEPT ![p] = old.replId]
      /\ rolledBack' = IF old # Image(p) THEN rolledBack \cup {old.replId} ELSE rolledBack
      /\ UNCHANGED <<durable, primary, generation, queue, written>>
  BY <1>1, <1>2 DEF PowerLoss, GoesDown, AsyncInv
<1>4. old \in [hist : Seq(Nat), replId : Nat]
  BY <1>2, <1>3 DEF TypeOK
<1>5. /\ backlog' \in Seq(Entry) /\ Len(backlog') <= BacklogSize
      /\ InFlight(backlog') \subseteq InFlight(backlog)
      /\ old.replId = generation => Ends(old.hist, backlog')
  BY <1>1, <1>2, LossBacklog
<1>6. /\ hist'[p] = old.hist /\ replId'[p] = old.replId
      /\ \A n \in Node \ {p} : hist'[n] = hist[n] /\ replId'[n] = replId[n]
  BY <1>3 DEF TypeOK
<1>7. Image(p)' = old /\ \A n \in Node \ {p} : Image(n)' = Image(n)
  <2>1. old = [hist |-> old.hist, replId |-> old.replId]
    BY <1>4
  <2> QED BY <1>6, <2>1 DEF Image
<1>8. Images' \subseteq Images
  BY <1>2, <1>3, <1>7 DEF Images
<1>9. TypeOK'
  <2>1. hist' \in [Node -> Seq(Nat)]
    BY <1>3, <1>4 DEF TypeOK
  <2>2. replId' \in [Node -> Nat]
    BY <1>3, <1>4 DEF TypeOK
  <2>3. alive' \in [Node -> BOOLEAN] /\ cut' \subseteq Node \X Node
    BY <1>3 DEF TypeOK, LinksOf
  <2>4. rolledBack' \subseteq Nat
    BY <1>3, <1>4 DEF TypeOK
  <2> QED BY <1>3, <1>5, <2>1, <2>2, <2>3, <2>4 DEF TypeOK
<1>10. PICK g \in Nat : g = generation /\ generation' = g
  BY <1>3 DEF TypeOK
<1>11. old.replId <= g
  BY <1>2, <1>10 DEF AsyncInv, IdsInv
<1>12. IdsInv'
  <2>1. \A n \in Node : replId'[n] <= g /\ durable'[n].replId <= g
    BY <1>3, <1>6, <1>10, <1>11 DEF AsyncInv, IdsInv
  <2>2. \A m \in InFlight(queue') : m.generation <= g
    BY <1>3, <1>10 DEF AsyncInv, IdsInv
  <2>3. \A e \in InFlight(backlog') : e.generation <= g
    BY <1>5, <1>10 DEF AsyncInv, IdsInv
  <2>4. \A id \in rolledBack' : id <= g
    BY <1>3, <1>10, <1>11 DEF AsyncInv, IdsInv
  <2> QED BY <1>10, <2>1, <2>2, <2>3, <2>4 DEF IdsInv
<1>13. old.replId # g => old.replId \in rolledBack'
  <2> SUFFICES ASSUME old.replId # g, old = Image(p) PROVE old.replId \in rolledBack
    BY <1>3
  <2>1. replId[p] = old.replId
    BY DEF Image
  <2> QED BY <1>1, <1>10, <2>1 DEF AsyncInv, PrimaryInv
<1>14. PrimaryInv'
  <2>1. primary' = p /\ generation' = g /\ durable'[p] = old /\ replId'[p] = old.replId
        /\ hist'[p] = old.hist
    BY <1>1, <1>2, <1>3, <1>6, <1>10
  <2>2. Begins(old.hist, old.hist)
    BY <1>4, BeginsItself
  <2> QED BY <1>13, <2>1, <2>2 DEF PrimaryInv
<1>15. BacklogInv'
  <2>1. PICK b : b = backlog'
    OBVIOUS
  <2>2. primary' = p /\ generation' = g /\ replId'[p] = old.replId /\ hist'[p] = old.hist
    BY <1>1, <1>3, <1>6, <1>10
  <2>3. old.replId = g => Ends(old.hist, b)
    BY <1>5, <1>10, <2>1
  <2> QED BY <2>1, <2>2, <2>3 DEF BacklogInv
<1>16. Sound' => /\ Sound /\ replId'[p] = replId[p] /\ hist'[p] = hist[p]
  <2> SUFFICES ASSUME old.replId \notin rolledBack'
               PROVE  Sound /\ old.replId = replId[p] /\ old.hist = hist[p]
    BY <1>1, <1>3, <1>6 DEF Sound
  <2>1. old = Image(p) /\ rolledBack' = rolledBack
    BY <1>3
  <2>2. old.replId = replId[p] /\ old.hist = hist[p]
    BY <2>1 DEF Image
  <2> QED BY <1>1, <2>1, <2>2 DEF Sound
<1>17. AheadInv'
  <2> SUFFICES ASSUME Sound', NEW a \in Images', a.replId = replId'[p]
               PROVE  Begins(a.hist, hist'[p])
    BY <1>1, <1>3 DEF AheadInv
  <2>1. Sound /\ a \in Images /\ a.replId = replId[p] /\ hist'[p] = hist[p]
    BY <1>8, <1>16
  <2> QED BY <1>1, <2>1 DEF AsyncInv, AheadInv
<1>18. ShippedInv'
  <2>1. \A m \in InFlight(queue') : m.dst # m.src
    BY <1>3 DEF AsyncInv, ShippedInv
  <2>2. ASSUME Sound', NEW m \in InFlight(queue'), Current(m)'
        PROVE  /\ m.type = "entry" => Has(hist'[p], m.offset, m.id)
               /\ m.type = "full_sync" => Begins(m.hist, hist'[p])
    <3>1. Sound /\ hist'[p] = hist[p] /\ replId'[p] = replId[p] /\ m \in InFlight(queue)
      BY <1>3, <1>16, <2>2
    <3>2. Current(m)
      BY <1>1, <1>3, <2>2, <3>1 DEF Current
    <3> QED BY <1>1, <3>1, <3>2 DEF AsyncInv, ShippedInv
  <2>3. primary' = p
    BY <1>1, <1>3
  <2> QED BY <2>1, <2>2, <2>3 DEF ShippedInv
<1>19. ChainInv'
  BY <1>3, <1>8 DEF AsyncInv, ChainInv
<1> QED BY <1>9, <1>12, <1>14, <1>15, <1>17, <1>18, <1>19 DEF AsyncInv

----------------------------------------------------------------------------
(* A promotion *)

\* A replica that has nothing of the new id gets the full state.
LEMMA FirstSync ==
  ASSUME AsyncInv, NEW n \in Node, NEW r \in Node \ {n}, NEW g, g = generation + 1
  PROVE  Sync(r, n, g, g, <<>>) = <<FullSyncMsg(n, r, g, g)>>
<1>1. generation \in Nat /\ replId[r] \in Nat /\ replId[r] <= generation
  BY DEF AsyncInv, TypeOK, IdsInv
<1>2. replId[r] # g
  BY <1>1
<1> QED BY <1>2 DEF Sync, CanPartial

\* The types, and what is sent: the full state, of the new id.
LEMMA PromoteParts ==
  ASSUME AsyncInv, NEW n \in Node, Promote(n), NEW g, g = generation + 1
  PROVE  /\ TypeOK'
         /\ primary' = n /\ generation' = g /\ replId' = [replId EXCEPT ![n] = g]
         /\ backlog' = <<>> /\ UNCHANGED <<hist, durable, rolledBack>>
         /\ \A m \in InFlight(queue') :
              \/ m \in InFlight(queue)
              \/ \E r \in Node \ {n} : m = FullSyncMsg(n, r, g, g)
<1> DEFINE S == {r \in Node \ {n} : alive[r]}
           rs == NodesInOrder(S)
           outs == [k \in DOMAIN rs |-> Sync(rs[k], n, g, g, <<>>)]
<1>1. /\ TypeOK
      /\ primary' = n /\ generation' = g
      /\ replId' = [replId EXCEPT ![n] = g]
      /\ backlog' = <<>>
      /\ queue' = queue \o Wired(FlattenSeq(outs), cut)
      /\ UNCHANGED <<alive, hist, durable, cut, written, rolledBack>>
  BY DEF Promote, NewReplicationId, AsyncInv
<1>2. g \in Nat /\ hist \in [Node -> Seq(Nat)] /\ queue \in Seq(Message)
  BY <1>1 DEF TypeOK
<1>3. rs \in Seq(S) /\ S \subseteq Node \ {n}
  <2>1. N \in Nat
    BY AsyncAssumption
  <2> QED BY <2>1, NodesInOrderProperties
<1> HIDE DEF rs, S
<1>4. Len(rs) \in Nat /\ DOMAIN rs = 1..Len(rs) /\ \A k \in DOMAIN rs : rs[k] \in Node \ {n}
  BY <1>3, LenProperties, ElementOfSeq
<1>5. ASSUME NEW r \in Node \ {n}, NEW out, out = Sync(r, n, g, g, <<>>)
      PROVE  out \in Seq(Message) /\ \A j \in DOMAIN out : out[j] = FullSyncMsg(n, r, g, g)
  <2>1. FullSyncMsg(n, r, g, g) \in Message
    BY <1>2 DEF FullSyncMsg, Message
  <2>2. PICK m \in Message : m = FullSyncMsg(n, r, g, g)
    BY <2>1
  <2>3. out = <<m>>
    BY <1>5, <2>2, FirstSync
  <2> QED BY <2>2, <2>3, OneProperties
<1>6. /\ outs \in Seq(Seq(Message)) /\ DOMAIN outs = DOMAIN rs
      /\ \A k \in DOMAIN outs : outs[k] = Sync(rs[k], n, g, g, <<>>)
  <2>1. outs \in [1..Len(rs) -> Seq(Message)]
    BY <1>4, <1>5
  <2> QED BY <1>4, <2>1, FunctionIsSeq
<1> HIDE DEF outs
<1>7. PICK all \in Seq(Message) :
        /\ all = FlattenSeq(outs)
        /\ \A j \in DOMAIN all : \E i \in DOMAIN outs : \E k \in DOMAIN outs[i] :
             all[j] = outs[i][k]
  BY <1>6, FlattenProperties DEF Gathers
<1>8. \A j \in DOMAIN all : \E r \in Node \ {n} : all[j] = FullSyncMsg(n, r, g, g)
  BY <1>4, <1>5, <1>6, <1>7
<1>9. queue' \in Seq(Message)
      /\ \A m \in InFlight(queue') : m \in InFlight(queue) \/ m \in InFlight(all)
  BY <1>1, <1>7, Queued
<1>10. \A m \in InFlight(all) : \E r \in Node \ {n} : m = FullSyncMsg(n, r, g, g)
  BY <1>8 DEF InFlight
<1>11. TypeOK'
  <2>1. replId' \in [Node -> Nat]
    BY <1>1, <1>2 DEF TypeOK
  <2>2. BacklogSize \in Nat
    BY AsyncAssumption
  <2>3. backlog' \in Seq(Entry) /\ Len(backlog') <= BacklogSize
    BY <1>1, <2>2
  <2> QED BY <1>1, <1>2, <1>9, <2>1, <2>3 DEF TypeOK
<1> QED BY <1>1, <1>9, <1>10, <1>11

\* The invariant is kept: nothing held, kept or on its way is of the new id, but
\* for the full state that is sent.
LEMMA PromoteStep == ASSUME AsyncInv, NEW n \in Node, Promote(n) PROVE AsyncInv'
<1>1. PICK g \in Nat : g = generation + 1 /\ generation \in Nat /\ g # generation
  BY DEF AsyncInv, TypeOK
<1>2. /\ TypeOK /\ TypeOK'
      /\ primary' = n /\ generation' = g /\ replId' = [replId EXCEPT ![n] = g]
      /\ backlog' = <<>> /\ UNCHANGED <<hist, durable, rolledBack>>
      /\ \A m \in InFlight(queue') :
           \/ m \in InFlight(queue)
           \/ \E r \in Node \ {n} : m = FullSyncMsg(n, r, g, g)
  BY <1>1, PromoteParts DEF AsyncInv
<1>3. PICK h \in Seq(Nat) : h = hist[n] /\ hist'[n] = h
  BY <1>2 DEF TypeOK
<1>4. replId'[n] = g /\ \A r \in Node \ {n} : replId'[r] = replId[r]
  BY <1>2 DEF TypeOK
<1>5. /\ \A r \in Node : replId[r] \in Nat /\ replId[r] < g
      /\ \A r \in Node : durable[r].replId \in Nat /\ durable[r].replId < g
  <2>1. ASSUME NEW r \in Node
        PROVE  /\ replId[r] \in Nat /\ replId[r] <= generation
               /\ durable[r].replId \in Nat /\ durable[r].replId <= generation
    BY <1>2 DEF AsyncInv, IdsInv, TypeOK
  <2> QED BY <1>1, <2>1
<1>6. \A m \in InFlight(queue) : m.generation < g
  <2>1. ASSUME NEW m \in InFlight(queue) PROVE m.generation \in Nat
    <3>1. m \in Message
      BY <1>2, InFlightTypes DEF TypeOK
    <3> QED BY <3>1 DEF Message
  <2> QED BY <1>1, <2>1 DEF AsyncInv, IdsInv
<1>7. \A id \in rolledBack : id <= g
  <2>1. \A id \in rolledBack : id \in Nat /\ id <= generation
    BY DEF AsyncInv, IdsInv, TypeOK
  <2> QED BY <1>1, <2>1
<1>8. ASSUME NEW a \in Images'
      PROVE  (a \in Images /\ a.replId < g) \/ (a.replId = g /\ a.hist = h)
  <2>1. CASE a = Image(n)'
    BY <1>3, <1>4, <2>1 DEF Image
  <2>2. CASE \E r \in Node \ {n} : a = Image(r)'
    <3>1. PICK r \in Node \ {n} : a = Image(r)'
      BY <2>2
    <3>2. a = Image(r)
      BY <1>2, <1>4, <3>1 DEF Image
    <3>3. a.replId = replId[r]
      BY <3>2 DEF Image
    <3> QED BY <1>5, <3>2, <3>3 DEF Images
  <2>3. CASE \E r \in Node : a = durable'[r]
    BY <1>2, <1>5, <2>3 DEF Images
  <2> QED BY <2>1, <2>2, <2>3 DEF Images
<1>9. IdsInv'
  <2>1. \A r \in Node : replId'[r] <= g /\ durable'[r].replId <= g
    BY <1>1, <1>2, <1>4, <1>5
  <2>2. ASSUME NEW m \in InFlight(queue') PROVE m.generation <= g
    <3>1. CASE m \in InFlight(queue)
      <4>1. m.generation \in Nat
        <5>1. m \in Message
          BY <1>2, <3>1, InFlightTypes DEF TypeOK
        <5> QED BY <5>1 DEF Message
      <4> QED BY <1>6, <3>1, <4>1
    <3>2. CASE \E r \in Node \ {n} : m = FullSyncMsg(n, r, g, g)
      BY <1>1, <3>2 DEF FullSyncMsg
    <3> QED BY <1>2, <3>1, <3>2
  <2>3. InFlight(backlog') = {}
    BY <1>2 DEF InFlight
  <2>4. \A id \in rolledBack' : id <= g
    BY <1>2, <1>7
  <2> QED BY <1>2, <2>1, <2>2, <2>3, <2>4 DEF IdsInv
<1>10. PrimaryInv'
  <2>1. durable'[n].replId # g
    BY <1>2, <1>5
  <2> QED BY <1>2, <1>4, <2>1 DEF PrimaryInv
<1>11. Begins(h, h) /\ Len(h) \in Nat
  BY BeginsItself
<1>12. AheadInv'
  <2>1. ASSUME NEW a \in Images', a.replId = g PROVE Begins(a.hist, h)
    BY <1>1, <1>8, <1>11, <2>1
  <2> QED BY <1>2, <1>3, <1>4, <2>1 DEF AheadInv
<1>13. ShippedInv'
  <2>1. ASSUME NEW m \in InFlight(queue') PROVE m.dst # m.src
    BY <1>2 DEF AsyncInv, ShippedInv, FullSyncMsg
  <2>2. ASSUME NEW m \in InFlight(queue'), m.generation = g
        PROVE  m.type = "full_sync" /\ m.hist = h
    <3>1. m \notin InFlight(queue)
      BY <1>1, <1>6, <2>2
    <3> QED BY <1>2, <1>3, <3>1 DEF FullSyncMsg
  <2>3. ASSUME NEW m \in InFlight(queue'), Current(m)'
        PROVE  /\ m.type = "entry" => Has(h, m.offset, m.id)
               /\ m.type = "full_sync" => Begins(m.hist, h)
    <3>1. m.generation = g
      BY <1>2, <2>3 DEF Current
    <3> QED BY <1>11, <2>2, <3>1
  <2> QED BY <1>2, <1>3, <2>1, <2>3 DEF ShippedInv
<1>14. BacklogInv'
  <2>1. Ends(h, <<>>)
    BY <1>11 DEF Ends
  <2> QED BY <1>2, <1>3, <2>1 DEF BacklogInv
<1>15. ChainInv'
  <2> SUFFICES ASSUME NEW a \in Images', NEW b \in Images',
                      a.replId = b.replId, a.replId \notin rolledBack
               PROVE  Begins(a.hist, b.hist) \/ Begins(b.hist, a.hist)
    BY <1>2 DEF ChainInv
  <2>1. CASE a.replId = g
    <3>1. ~(g < g)
      BY <1>1
    <3>2. a.hist = h /\ b.hist = h
      BY <1>8, <2>1, <3>1
    <3> QED BY <1>11, <3>2
  <2>2. CASE a.replId # g
    <3>1. a \in Images /\ b \in Images
      BY <1>8, <2>2
    <3> QED BY <3>1 DEF AsyncInv, ChainInv
  <2> QED BY <2>1, <2>2
<1> QED BY <1>2, <1>9, <1>10, <1>12, <1>13, <1>14, <1>15 DEF AsyncInv

----------------------------------------------------------------------------
(* The theorems *)

\* The invariant holds of the first state: every node holds nothing.
LEMMA InitInv == ASSUME Init PROVE AsyncInv
<1>1. /\ <<>> \in Seq(Nat) /\ <<>> \in Seq(Message) /\ <<>> \in Seq(Entry)
      /\ Len(<<>>) = 0 /\ InFlight(<<>>) = {} /\ DOMAIN <<>> = {}
  BY DEF InFlight
<1>2. primary \in Node /\ BacklogSize \in Nat
  BY AsyncAssumption DEF Init, Node
<1>3. \A n \in Node : Image(n) = [hist |-> <<>>, replId |-> 1] /\ durable[n] = Image(n)
  BY DEF Init, Image
<1>4. durable \in [Node -> [hist : Seq(Nat), replId : Nat]]
  <2>1. durable = [n \in Node |-> [hist |-> <<>>, replId |-> 1]]
    BY DEF Init, Image
  <2> QED BY <1>1, <2>1
<1>5. TypeOK
  BY <1>1, <1>2, <1>4 DEF Init, TypeOK
<1>6. \A a \in Images : a.hist = <<>> /\ a.replId = 1
  BY <1>3 DEF Images
<1>7. Begins(<<>>, <<>>)
  BY <1>1, BeginsItself
<1>8. IdsInv
  BY <1>1, <1>3 DEF Init, IdsInv
<1>9. PrimaryInv
  BY <1>2, <1>3, <1>7 DEF Init, PrimaryInv
<1>10. AheadInv /\ ChainInv
  BY <1>2, <1>6, <1>7 DEF Init, AheadInv, ChainInv
<1>11. ShippedInv
  BY <1>1 DEF Init, ShippedInv
<1>12. BacklogInv
  BY <1>1, <1>2 DEF Init, BacklogInv, Ends
<1> QED BY <1>5, <1>8, <1>9, <1>10, <1>11, <1>12 DEF AsyncInv

\* Every step keeps the invariant.
LEMMA NextInv == ASSUME AsyncInv, [Next]_vars PROVE AsyncInv'
BY StepSummary, StepInv, PrimaryLossStep, PromoteStep

\* AsyncInv is an invariant of the group.
THEOREM AsyncInvHolds == Spec => []AsyncInv
<1>1. Init => AsyncInv
  BY InitInv
<1>2. AsyncInv /\ [Next]_vars => AsyncInv'
  BY NextInv
<1> QED BY <1>1, <1>2, PTL DEF Spec

\* The group's state keeps its types, and the backlog its bound, also when a
\* power loss takes entries from it.
THEOREM TypeCorrect == Spec => []TypeOK
<1>1. AsyncInv => TypeOK
  BY DEF AsyncInv
<1> QED BY <1>1, AsyncInvHolds, PTL

\* Unless a power loss took a primary back on it, a replication id is one
\* history: of two nodes on it, one holds a prefix of what the other holds.
THEOREM LineageIsOneHistoryHolds == Spec => []LineageIsOneHistory
<1>1. ASSUME AsyncInv, NEW m \in Node, NEW n \in Node,
             replId[m] = replId[n], replId[m] \notin rolledBack
      PROVE  IsPrefix(hist[m], hist[n]) \/ IsPrefix(hist[n], hist[m])
  <2>1. /\ Image(m) \in Images /\ Image(m).hist = hist[m] /\ Image(m).replId = replId[m]
        /\ Image(n) \in Images /\ Image(n).hist = hist[n] /\ Image(n).replId = replId[n]
    BY DEF Images, Image
  <2>2. Begins(hist[m], hist[n]) \/ Begins(hist[n], hist[m])
    BY <1>1, <2>1 DEF AsyncInv, ChainInv
  <2>3. hist[m] \in Seq(Nat) /\ hist[n] \in Seq(Nat)
    BY <1>1 DEF AsyncInv, TypeOK
  <2> QED BY <2>2, <2>3, PrefixProperties
<1>2. AsyncInv => LineageIsOneHistory
  BY <1>1 DEF LineageIsOneHistory
<1> QED BY <1>2, AsyncInvHolds, PTL

\* Unless a primary was rolled back on that id, no replica on the primary's id
\* holds anything that the primary does not.
THEOREM PrimaryIsAheadHolds == Spec => []PrimaryIsAhead
<1>1. ASSUME AsyncInv, replId[primary] \notin rolledBack,
             NEW n \in Node, replId[n] = replId[primary]
      PROVE  IsPrefix(hist[n], hist[primary])
  <2>1. Image(n) \in Images /\ Image(n).hist = hist[n] /\ Image(n).replId = replId[n]
    BY DEF Images, Image
  <2>2. Begins(hist[n], hist[primary])
    BY <1>1, <2>1 DEF AsyncInv, AheadInv, Sound
  <2>3. hist[n] \in Seq(Nat) /\ hist[primary] \in Seq(Nat)
    BY <1>1 DEF AsyncInv, TypeOK
  <2> QED BY <2>2, <2>3, PrefixProperties
<1>2. AsyncInv => PrimaryIsAhead
  BY <1>1 DEF PrimaryIsAhead
<1> QED BY <1>2, AsyncInvHolds, PTL

\* The positions of the backlog b beyond the offset l.
Beyond(b, l) == {k \in DOMAIN b : b[k].offset > l}

\* A backlog that ends the history and reaches back to a prefix of it holds,
\* beyond the prefix, the rest of the history.
LEMMA BeyondEnds ==
  ASSUME NEW h \in Seq(Nat), NEW b \in Seq(Entry), Ends(h, b),
         NEW d \in Seq(Nat), Begins(d, h), Len(d) >= Len(h) - Len(b),
         NEW f, f = Kept(b, Beyond(b, Len(d)))
  PROVE  /\ f \in Seq(Entry) /\ Len(d) + Len(f) = Len(h)
         /\ \A j \in DOMAIN f : f[j].id = h[Len(d) + j] /\ h[Len(d) + j] \in Nat
<1>0. PICK lb, ld, lh \in Nat : lb = Len(b) /\ ld = Len(d) /\ lh = Len(h)
  BY LenProperties
<1>1. lb <= lh /\ ld <= lh /\ ld >= lh - lb
  BY <1>0 DEF Ends, Begins
<1>2. /\ DOMAIN b = 1..lb /\ \A k \in 1..lh : h[k] \in Nat
      /\ \A k \in 1..lb : b[k].offset = lh - lb + k /\ h[lh - lb + k] = b[k].id
  BY <1>0, LenProperties, ElementOfSeq DEF Ends
<1>3. PICK m, s \in Nat : m = ld - (lh - lb) /\ m <= lb /\ s = lb - m
  <2>1. ld - (lh - lb) \in Nat /\ ld - (lh - lb) <= lb
    BY <1>1
  <2>2. lb - (ld - (lh - lb)) \in Nat
    BY <1>1
  <2> QED BY <2>1, <2>2
<1>4. PICK I : I = After(b, m)
  OBVIOUS
<1>5. f = Kept(b, I)
  <2>1. \A k \in 1..lb : lh - lb + k > ld <=> k > m
    BY <1>1, <1>3
  <2>2. I = {k \in 1..lb : k > m} /\ Beyond(b, Len(d)) = {k \in 1..lb : b[k].offset > ld}
    BY <1>0, <1>2, <1>4 DEF After, Beyond
  <2>3. Beyond(b, Len(d)) = I
    BY <1>2, <2>1, <2>2
  <2> QED BY <2>3
<1>6. f \in Seq(Entry) /\ Len(f) = s /\ \A j \in 1..s : f[j] = b[m + j]
  <2>1. m <= Len(b)
    BY <1>0, <1>3
  <2>2. /\ Kept(b, I) \in Seq(Entry) /\ Len(Kept(b, I)) = Len(b) - m
        /\ \A j \in 1..Len(b) - m : Kept(b, I)[j] = b[m + j]
    BY <1>4, <2>1, KeptSuffix
  <2> QED BY <1>0, <1>3, <1>5, <2>2
<1>7. DOMAIN f = 1..s
  BY <1>6, LenProperties
<1>8. ASSUME NEW j \in 1..s PROVE f[j].id = h[ld + j] /\ h[ld + j] \in Nat
  <2>1. m + j \in 1..lb /\ lh - lb + (m + j) = ld + j /\ ld + j \in 1..lh
    BY <1>1, <1>3
  <2>2. h[lh - lb + (m + j)] = b[m + j].id
    BY <1>2, <2>1
  <2> QED BY <1>2, <1>6, <2>1, <2>2
<1>9. ld + s = lh
  BY <1>1, <1>3
<1> QED BY <1>0, <1>6, <1>7, <1>8, <1>9

\* A prefix of a history followed by the rest of it is the history.
LEMMA PrefixAndRest ==
  ASSUME NEW h \in Seq(Nat), NEW d \in Seq(Nat), NEW r \in Seq(Nat), Begins(d, h),
         Len(d) + Len(r) = Len(h), \A j \in DOMAIN r : r[j] = h[Len(d) + j]
  PROVE  d \o r = h
<1>1. PICK ld, lr \in Nat : ld = Len(d) /\ lr = Len(r) /\ DOMAIN r = 1..lr /\ ld + lr = Len(h)
  BY LenProperties
<1>2. PICK e \in Seq(Nat) : e = d \o r
  BY ConcatProperties
<1>3. /\ Len(e) = ld + lr
      /\ \A j \in 1..ld + lr : e[j] = IF j <= ld THEN d[j] ELSE r[j - ld]
  <2>1. /\ Len(e) = Len(d) + Len(r)
        /\ \A j \in 1..Len(d) + Len(r) : e[j] = IF j <= Len(d) THEN d[j] ELSE r[j - Len(d)]
    BY <1>2, ConcatProperties
  <2> QED BY <1>1, <2>1
<1>4. ASSUME NEW j \in 1..ld + lr PROVE e[j] = h[j]
  <2>1. CASE j <= ld
    <3>1. j \in 1..Len(d)
      BY <1>1, <2>1
    <3> QED BY <1>3, <2>1, <3>1 DEF Begins
  <2>2. CASE ~(j <= ld)
    <3>1. j - ld \in DOMAIN r /\ ld + (j - ld) = j
      BY <1>1, <2>2
    <3> QED BY <1>1, <1>3, <2>2, <3>1
  <2> QED BY <2>1, <2>2
<1> QED BY <1>1, <1>2, <1>3, <1>4, SeqEqual

\* While the primary is on its generation's id the backlog is the end of its
\* history, whatever it was rolled back to.  If no primary was rolled back on the
\* id, what a partial resynchronization sends to a node is all that it lacks, and
\* brings it to exactly the primary's state.
THEOREM BacklogEndsHistoryHolds == Spec => []BacklogEndsHistory
<1>1. ASSUME AsyncInv, replId[primary] = generation, NEW k \in DOMAIN backlog
      PROVE  LET at == Len(hist[primary]) - Len(backlog) + k
             IN  backlog[k].offset = at /\ hist[primary][at] = backlog[k].id
  BY <1>1 DEF AsyncInv, BacklogInv, Ends
<1>2. ASSUME AsyncInv, replId[primary] = generation, replId[primary] \notin rolledBack,
             NEW n \in Node, CanPartial(n, primary, replId[primary], backlog)
      PROVE  Completes(n)
  <2>1. PICK h, d \in Seq(Nat), b \in Seq(Entry) :
          h = hist[primary] /\ d = hist[n] /\ b = backlog
    BY <1>2 DEF AsyncInv, TypeOK
  <2>2. Ends(h, b)
    BY <1>2, <2>1 DEF AsyncInv, BacklogInv
  <2>3. Begins(d, h)
    <3>1. Image(n) \in Images /\ Image(n).hist = d /\ Image(n).replId = replId[primary]
      BY <1>2, <2>1 DEF Images, Image, CanPartial
    <3> QED BY <1>2, <2>1, <3>1 DEF AsyncInv, AheadInv, Sound
  <2>4. Len(d) >= Len(h) - Len(b)
    <3>1. Len(d) \in Nat /\ Len(h) \in Nat /\ Len(b) \in Nat /\ DOMAIN b = 1..Len(b)
      BY LenProperties
    <3>2. Len(d) = Len(h) \/ (b # <<>> /\ Len(d) >= Head(b).offset - 1)
      BY <1>2, <2>1 DEF CanPartial
    <3>3. CASE b # <<>> /\ Len(d) >= Head(b).offset - 1
      <4>1. Head(b) = b[1] /\ 1 \in DOMAIN b
        BY <3>1, <3>3, EmptySeq, HeadTailProperties
      <4>2. b[1].offset = Len(h) - Len(b) + 1
        BY <2>2, <4>1 DEF Ends
      <4> QED BY <3>1, <3>3, <4>1, <4>2
    <3> QED BY <3>1, <3>2, <3>3
  <2>5. PICK f : f = Kept(b, Beyond(b, Len(d)))
    OBVIOUS
  <2>6. /\ f \in Seq(Entry) /\ Len(d) + Len(f) = Len(h)
        /\ \A j \in DOMAIN f : f[j].id = h[Len(d) + j] /\ h[Len(d) + j] \in Nat
    BY <2>2, <2>3, <2>4, <2>5, BeyondEnds
  <2>7. PICK l \in Nat : l = Len(f) /\ DOMAIN f = 1..l
    BY <2>6, LenProperties
  <2>8. PICK ids \in [1..l -> Nat] : ids = [k \in DOMAIN f |-> f[k].id]
    BY <2>6, <2>7
  <2>9. ids \in Seq(Nat) /\ Len(ids) = l /\ DOMAIN ids = 1..l
    BY FunctionIsSeq
  <2>10. d \o ids = h
    <3>1. \A j \in DOMAIN ids : ids[j] = h[Len(d) + j]
      BY <2>6, <2>7, <2>8, <2>9
    <3> QED BY <2>3, <2>6, <2>7, <2>9, <3>1, PrefixAndRest
  <2>11. f = Missing(n, backlog)
    BY <2>1, <2>5 DEF Missing, Beyond
  <2> QED BY <2>1, <2>8, <2>10, <2>11 DEF Completes
<1>3. AsyncInv => BacklogEndsHistory
  BY <1>1, <1>2 DEF BacklogEndsHistory
<1> QED BY <1>3, AsyncInvHolds, PTL
=============================================================================
