------------------------------- MODULE Async -------------------------------
(***************************************************************************)
(* protocols/async_primary/group.py: a primary that answers before any      *)
(* replica has its write, a bounded backlog for partial resynchronization,  *)
(* and a manual promotion that starts a new replication id.                 *)
(*                                                                          *)
(* hist[n] is the sequence of the writes (their numbers) that make up       *)
(* node.data, so Len(hist[n]) is node.offset; the id "repl-g" is the number *)
(* g.  sync_mode, which only probes read, is left out, and so are reads,    *)
(* which change nothing.                                                    *)
(***************************************************************************)
EXTENDS Network, SequencesExt

CONSTANT BacklogSize

ASSUME AsyncAssumption ==
  /\ N \in Nat /\ N >= 2
  /\ BacklogSize \in Nat \ {0}

VARIABLES
  alive, hist, replId, durable,      \* the nodes
  primary, generation, backlog,      \* the group
  queue, cut,                        \* SimNet
  written,                           \* history: writes made
  rolledBack                         \* history: ids to which a power loss took a primary back

vars == <<alive, hist, replId, durable, primary, generation, backlog, queue, cut,
          written, rolledBack>>

Image(n) == [hist |-> hist[n], replId |-> replId[n]]

Init ==
  /\ alive = [n \in Node |-> TRUE]
  /\ hist = [n \in Node |-> <<>>]
  /\ replId = [n \in Node |-> 1]
  /\ durable = [n \in Node |-> Image(n)]
  /\ primary = 1 /\ generation = 1 /\ backlog = <<>>
  /\ queue = <<>> /\ cut = {}
  /\ written = 0 /\ rolledBack = {}

----------------------------------------------------------------------------
(* Messages and resynchronization *)

EntryMsg(p, r, e) ==
  [type |-> "entry", src |-> p, dst |-> r, generation |-> e.generation,
   replId |-> e.replId, offset |-> e.offset, id |-> e.id]

FullSyncMsg(p, r, g, id) ==
  [type |-> "full_sync", src |-> p, dst |-> r, generation |-> g,
   replId |-> id, hist |-> hist[p]]

Missing(r, kept) == Kept(kept, {k \in DOMAIN kept : kept[k].offset > Len(hist[r])})

\* Mutant: no full resynchronization is ever started.
SyncFromBacklog(r, p, g, id, kept) ==
  [k \in DOMAIN Missing(r, kept) |-> EntryMsg(p, r, Missing(r, kept)[k])]

\* Replica r is on the primary's id and the backlog reaches back to its offset.
CanPartial(r, p, id, kept) ==
  LET at == Len(hist[r])
  IN  /\ replId[r] = id
      /\ at = Len(hist[p]) \/ (kept # <<>> /\ at >= Head(kept).offset - 1)

\* _synchronize of replica r by primary p with replication id `id`: what r
\* misses of the backlog, if that can do, and the full state otherwise.
Sync(r, p, g, id, kept) ==
  IF CanPartial(r, p, id, kept)
  THEN [k \in DOMAIN Missing(r, kept) |-> EntryMsg(p, r, Missing(r, kept)[k])]
  ELSE <<FullSyncMsg(p, r, g, id)>>

----------------------------------------------------------------------------
(* Deliveries *)

Arrives ==
  /\ queue # <<>>
  /\ LET m == Head(queue)
     IN  <<m.src, m.dst>> \notin cut /\ alive[m.dst] /\ alive[m.src]

\* Mutant: nothing tells a queued delivery of an earlier primary apart.
CurrentAnyLineage(m) == TRUE

\* Only the current primary's deliveries of the current lineage are accepted.
Current(m) ==
  m.src = primary /\ m.generation = generation /\ m.replId = replId[primary]

Discard ==
  /\ queue # <<>>
  /\ ~Arrives \/ ~Current(Head(queue))
  /\ queue' = Tail(queue)
  /\ UNCHANGED <<alive, hist, replId, durable, primary, generation, backlog, cut,
                 written, rolledBack>>

\* Mutant: a gap in the stream is not noticed.
FollowsAnyLater(m) == m.replId = replId[m.dst] /\ m.offset > Len(hist[m.dst])

Follows(m) == m.replId = replId[m.dst] /\ m.offset = Len(hist[m.dst]) + 1

ReceiveEntry ==
  LET m == Head(queue)
  IN  /\ Arrives /\ m.type = "entry" /\ Current(m) /\ Follows(m)
      /\ hist' = [hist EXCEPT ![m.dst] = Append(@, m.id)]
      /\ queue' = Tail(queue)
      /\ UNCHANGED <<alive, replId, durable, primary, generation, backlog, cut,
                     written, rolledBack>>

\* A gap, a duplicate or another id: the primary synchronizes the replica.
ReceiveOutOfOrder ==
  LET m == Head(queue)
  IN  /\ Arrives /\ m.type = "entry" /\ Current(m) /\ ~Follows(m)
      /\ queue' = Tail(queue) \o
                  Wired(Sync(m.dst, primary, generation, replId[primary], backlog), cut)
      /\ UNCHANGED <<alive, hist, replId, durable, primary, generation, backlog, cut,
                     written, rolledBack>>

ReceiveFullSync ==
  LET m == Head(queue)
  IN  /\ Arrives /\ m.type = "full_sync" /\ Current(m)
      /\ hist' = [hist EXCEPT ![m.dst] = m.hist]
      /\ replId' = [replId EXCEPT ![m.dst] = m.replId]
      /\ queue' = Tail(queue)
      /\ UNCHANGED <<alive, durable, primary, generation, backlog, cut, written, rolledBack>>

----------------------------------------------------------------------------
(* The operations of the group *)

\* Mutant: one entry too many stays in the backlog.
RetainOneMore(kept) ==
  SubSeq(kept, IF Len(kept) > BacklogSize + 1 THEN 2 ELSE 1, Len(kept))

\* The backlog, a deque of BacklogSize entries, when one has been added to it.
Retain(kept) == SubSeq(kept, IF Len(kept) > BacklogSize THEN 2 ELSE 1, Len(kept))

\* client_write: applied by the primary, kept, streamed and acknowledged.
Write ==
  LET p   == primary
      e   == [generation |-> generation, replId |-> replId[p],
              offset |-> Len(hist[p]) + 1, id |-> written + 1]
      out == [k \in DOMAIN PeersOf(p) |-> EntryMsg(p, PeersOf(p)[k], e)]
  IN  /\ alive[p]
      /\ hist' = [hist EXCEPT ![p] = Append(@, e.id)]
      /\ backlog' = Retain(Append(backlog, e))
      /\ queue' = queue \o Wired(out, cut)
      /\ written' = written + 1
      /\ UNCHANGED <<alive, replId, durable, primary, generation, cut, rolledBack>>

Fsync(n) ==
  /\ alive[n]
  /\ durable' = [durable EXCEPT ![n] = Image(n)]
  /\ UNCHANGED <<alive, hist, replId, primary, generation, backlog, queue, cut,
                 written, rolledBack>>

GoesDown(n) ==
  /\ alive[n]
  /\ alive' = [alive EXCEPT ![n] = FALSE]
  /\ cut' = cut \cup LinksOf(n)
  /\ UNCHANGED <<durable, primary, generation, queue, written>>

Crash(n) ==
  /\ GoesDown(n)
  /\ UNCHANGED <<hist, replId, backlog, rolledBack>>

\* Mutant: the entries that went with the power stay in the backlog.
KeptWhole(n) == backlog

\* What stays in the backlog when n loses its power.
KeptAfterLoss(n) ==
  IF n = primary
  THEN Kept(backlog, {k \in DOMAIN backlog : backlog[k].offset <= Len(durable[n].hist)})
  ELSE backlog

\* A crash with lose_unfsynced.
PowerLoss(n) ==
  /\ GoesDown(n)
  /\ hist' = [hist EXCEPT ![n] = durable[n].hist]
  /\ replId' = [replId EXCEPT ![n] = durable[n].replId]
  /\ backlog' = KeptAfterLoss(n)
  /\ rolledBack' = IF n = primary /\ durable[n] # Image(n)
                   THEN rolledBack \cup {durable[n].replId} ELSE rolledBack

\* Restarting, healing or promoting synchronizes; while the primary is down
\* that raises after the other effects, and nothing is sent.
Synchronize(r, up, c) ==
  queue' = IF r # primary /\ up[primary]
           THEN queue \o Wired(Sync(r, primary, generation, replId[primary], backlog), c)
           ELSE queue

Restart(n) ==
  /\ ~alive[n]
  /\ alive' = [alive EXCEPT ![n] = TRUE]
  /\ cut' = cut \ LinksOf(n)
  /\ Synchronize(n, alive', cut')
  /\ UNCHANGED <<hist, replId, durable, primary, generation, backlog, written, rolledBack>>

Isolate(n) ==
  /\ alive[n]
  /\ cut' = cut \cup LinksOf(n)
  /\ UNCHANGED <<alive, hist, replId, durable, primary, generation, backlog, queue,
                 written, rolledBack>>

Heal(n) ==
  /\ alive[n]
  /\ cut' = cut \ LinksOf(n)
  /\ Synchronize(n, alive, cut')
  /\ UNCHANGED <<alive, hist, replId, durable, primary, generation, backlog,
                 written, rolledBack>>

\* Mutant: the promoted replica keeps its replication id.
SameReplicationId(n, g) == replId[n]

\* _new_replication_id, of generation g, for the promoted node n.
NewReplicationId(n, g) == g

Promote(n) ==
  LET g  == generation + 1
      id == NewReplicationId(n, g)
      rs == NodesInOrder({r \in Node \ {n} : alive[r]})
  IN  /\ alive[n] /\ n # primary
      /\ primary' = n /\ generation' = g
      /\ replId' = [replId EXCEPT ![n] = id]
      /\ backlog' = <<>>
      /\ queue' = queue \o Wired(FlattenSeq([k \in DOMAIN rs |->
                                    Sync(rs[k], n, g, id, <<>>)]), cut)
      /\ UNCHANGED <<alive, hist, durable, cut, written, rolledBack>>

----------------------------------------------------------------------------
Deliver == Discard \/ ReceiveEntry \/ ReceiveOutOfOrder \/ ReceiveFullSync

Next ==
  \/ Deliver \/ Write
  \/ \E n \in Node : \/ Fsync(n) \/ Crash(n) \/ PowerLoss(n) \/ Restart(n)
                     \/ Isolate(n) \/ Heal(n) \/ Promote(n)

Spec == Init /\ [][Next]_vars

\* Ticks go on and deliver what is due.
Fairness == WF_vars(Deliver)

----------------------------------------------------------------------------
(* Properties *)

Entry == [generation : Nat, replId : Nat, offset : Nat, id : Nat]
Message ==
  [type : {"entry"}, src : Node, dst : Node, generation : Nat, replId : Nat,
   offset : Nat, id : Nat]
  \cup
  [type : {"full_sync"}, src : Node, dst : Node, generation : Nat, replId : Nat,
   hist : Seq(Nat)]

\* The type invariant of the group, with the bound on the backlog.
TypeOK ==
  /\ alive \in [Node -> BOOLEAN]
  /\ hist \in [Node -> Seq(Nat)] /\ replId \in [Node -> Nat]
  /\ durable \in [Node -> [hist : Seq(Nat), replId : Nat]]
  /\ primary \in Node /\ generation \in Nat
  /\ backlog \in Seq(Entry) /\ Len(backlog) <= BacklogSize
  /\ queue \in Seq(Message)
  /\ cut \subseteq Node \X Node
  /\ written \in Nat /\ rolledBack \subseteq Nat

\* A replication id and an offset identify a position in one history: live or
\* crashed, two nodes at the same position hold the same writes.
PositionIdentifiesHistory ==
  \A m, n \in Node :
    replId[m] = replId[n] /\ Len(hist[m]) = Len(hist[n]) => hist[m] = hist[n]

\* Unless a power loss took a primary back on it, every replication id is one
\* history, through promotions, crashes, power losses of replicas and stale
\* deliveries: of two nodes on it, one holds a prefix of what the other holds.
LineageIsOneHistory ==
  \A m, n \in Node :
    replId[m] = replId[n] /\ replId[m] \notin rolledBack =>
      IsPrefix(hist[m], hist[n]) \/ IsPrefix(hist[n], hist[m])

\* Unless a primary was rolled back on that id, no replica on the primary's id
\* holds anything that the primary does not: replication never carries a write
\* of an earlier primary over.
PrimaryIsAhead ==
  replId[primary] \notin rolledBack =>
    \A n \in Node : replId[n] = replId[primary] => IsPrefix(hist[n], hist[primary])

\* What n holds and what it misses of the backlog make up the primary's history.
Completes(n) ==
  hist[n] \o [k \in DOMAIN Missing(n, backlog) |-> Missing(n, backlog)[k].id] = hist[primary]

\* While the primary is on its generation's id, rolled back on it or not, the
\* backlog is the end of its history.  If no primary was rolled back on the id,
\* what a partial resynchronization sends to a node is all that it lacks, and
\* brings it to exactly the primary's state.
BacklogEndsHistory ==
  replId[primary] = generation =>
    /\ \A k \in DOMAIN backlog :
         LET at == Len(hist[primary]) - Len(backlog) + k
         IN  backlog[k].offset = at /\ hist[primary][at] = backlog[k].id
    /\ replId[primary] \notin rolledBack =>
         \A n \in Node : CanPartial(n, primary, replId[primary], backlog) => Completes(n)

\* Every node up, every link whole, and no primary was ever rolled back.
Calm == cut = {} /\ rolledBack = {} /\ \A n \in Node : alive[n]
=============================================================================
