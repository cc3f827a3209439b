------------------------------ MODULE Network ------------------------------
(***************************************************************************)
(* What a replication group sees of SimNet.  Every group builds its SimNet  *)
(* with min_delay = max_delay and leaves drop_rate and reorder_rate at 0,   *)
(* so all messages have one delay and the scheduler's (due_tick, order)     *)
(* heap is one first-in first-out queue for the whole group: run simnet     *)
(* checks that SimNet implements it.  A message is lost only on a cut link, *)
(* which SimNet tests when the message is sent and again when it is due.    *)
(* A message is a record with (at least) the fields src and dst.            *)
(***************************************************************************)
EXTENDS Integers, Sequences, FiniteSets

CONSTANT N          \* the number of nodes: node i is the i-th of node_ids

Node == 1..N

\* A link is a <<source, destination>> pair of SimNet._partitions.
LinksOf(n) == ({n} \X (Node \ {n})) \cup ((Node \ {n}) \X {n})

\* The messages of `out` that SimNet.send puts on the wire.
Sendable(out, cut) == {m \in out : <<m.src, m.dst>> \notin cut}

\* The order of a handler's sends: one loop over node_ids, so by destination.
\* (There is exactly one such sequence when the destinations are distinct.)
InOrder(S) ==
  {s \in [1..Cardinality(S) -> S] :
     \A a, b \in DOMAIN s : a < b => s[a].dst < s[b].dst}

\* The queues that can follow `q` when the set of messages `out` is sent.
Enqueued(q, out, cut) == {q \o s : s \in InOrder(Sendable(out, cut))}

\* The elements of the sequence s at the positions I, in their order: as
\* SelectSeq, in a form that can be reasoned about.
Kept(s, I) ==
  [j \in 1..Cardinality(I) |-> s[CHOOSE i \in I : Cardinality({h \in I : h <= i}) = j]]

\* The same for a handler that sends the messages of the sequence ms in turn.
Wired(ms, cut) == Kept(ms, {k \in DOMAIN ms : <<ms[k].src, ms[k].dst>> \notin cut})

\* The nodes of S in the order of node_ids, and the nodes other than n.
NodesInOrder(S) == Kept([i \in Node |-> i], S)
PeersOf(n) == NodesInOrder(Node \ {n})

\* The set of messages in the queue q.
InFlight(q) == {q[k] : k \in DOMAIN q}
============================================================================
