----------------------------- MODULE RaftProofs -----------------------------
(***************************************************************************)
(* Types, votes and logs of Raft, for any number of nodes and any keys and  *)
(* values.  For the logs, what each step may do to logs, roles, messages    *)
(* and stores is summed up first; then every log and every AppendEntries in *)
(* flight is seen as a set of links, each an entry with its index and the   *)
(* term of the entry before it, and only a leader, at the end of its own    *)
(* log, ever makes a new link.                                              *)
(***************************************************************************)
EXTENDS Raft, NetworkProofs

----------------------------------------------------------------------------
(* Quorums *)

\* Node is finite and has N elements.
LEMMA NodeIsFinite == IsFiniteSet(Node) /\ Cardinality(Node) = N
BY RaftAssumption, FS_Interval DEF Node

\* Any two quorums share a node.
LEMMA QuorumsMeet ==
  ASSUME NEW S \in SUBSET Node, NEW T \in SUBSET Node, IsQuorum(S), IsQuorum(T)
  PROVE  \E n \in Node : n \in S /\ n \in T
<1>1. Cardinality(S) \in Nat /\ Cardinality(T) \in Nat
  BY NodeIsFinite, FS_Subset, FS_CardinalityType
<1>2. Cardinality(S) + Cardinality(T) > Cardinality(Node)
  BY <1>1, NodeIsFinite, RaftAssumption DEF IsQuorum
<1>3. S \cap T # {}
  BY <1>2, NodeIsFinite, FS_MajoritiesIntersect
<1> QED BY <1>3

----------------------------------------------------------------------------
(* The queue *)

\* What is in flight after a send was in flight before it or has been sent.
LEMMA EnqueuedProperties ==
  ASSUME NEW S, NEW q \in Seq(S), NEW out \in SUBSET S, IsFiniteSet(out), NEW c,
         NEW r \in Enqueued(q, out, c)
  PROVE  r \in Seq(S) /\ InFlight(r) \subseteq InFlight(q) \cup out
<1> DEFINE sent == Sendable(out, c)
<1>1. Cardinality(sent) \in Nat /\ sent \subseteq out
  BY FS_Subset, FS_CardinalityType DEF Sendable
<1>2. PICK s \in InOrder(sent) : r = q \o s
  BY DEF Enqueued
<1>3. s \in Seq(sent) /\ s \in Seq(S)
  <2>1. PICK n \in Nat : s \in [1..n -> sent]
    BY <1>1 DEF InOrder
  <2>2. s \in [1..n -> S]
    BY <2>1, <1>1
  <2> QED BY <2>1, <2>2
<1>4. r \in Seq(S) /\ Len(r) = Len(q) + Len(s)
  BY <1>2, <1>3, ConcatProperties
<1>5. ASSUME NEW k \in DOMAIN r PROVE r[k] \in InFlight(q) \cup out
  <2>1. k \in 1..Len(q) + Len(s) /\ Len(q) \in Nat /\ Len(s) \in Nat
    BY <1>3, <1>4, LenProperties
  <2>2. CASE k <= Len(q)
    BY <2>1, <2>2, <1>2, <1>3, ConcatProperties, LenProperties DEF InFlight
  <2>3. CASE k > Len(q)
    <3>1. r[k] = s[k - Len(q)] /\ k - Len(q) \in 1..Len(s)
      BY <2>1, <2>3, <1>2, <1>3, ConcatProperties
    <3> QED BY <3>1, <1>1, <1>3, ElementOfSeq
  <2> QED BY <2>1, <2>2, <2>3
<1> QED BY <1>4, <1>5 DEF InFlight

\* Handling the head leaves the rest in flight.
LEMMA TailProperties ==
  ASSUME NEW S, NEW q \in Seq(S), q # <<>>
  PROVE  /\ Head(q) \in S /\ Head(q) \in InFlight(q)
         /\ Tail(q) \in Seq(S) /\ InFlight(Tail(q)) \subseteq InFlight(q)
<1>1. /\ Head(q) \in S /\ Tail(q) \in Seq(S) /\ Len(Tail(q)) = Len(q) - 1
      /\ \A i \in 1..Len(Tail(q)) : Tail(q)[i] = q[i + 1]
  BY HeadTailProperties
<1>2. Len(q) \in Nat \ {0} /\ DOMAIN q = 1..Len(q) /\ DOMAIN Tail(q) = 1..Len(Tail(q))
  BY <1>1, EmptySeq, LenProperties
<1>3. Head(q) = q[1]
  BY <1>2
<1> QED BY <1>1, <1>2, <1>3 DEF InFlight

\* The messages to the peers of a node are finitely many.
LEMMA PeersFinite ==
  ASSUME NEW i \in Node, NEW f, DOMAIN f = Node \ {i}
  PROVE  IsFiniteSet({f[j] : j \in Node \ {i}})
<1> DEFINE P == Node \ {i}
           T == {f[j] : j \in P}
           g == [j \in P |-> f[j]]
<1>1. IsFiniteSet(P)
  BY NodeIsFinite, FS_RemoveElement
<1>2. g \in Surjection(P, T)
  BY DEF Surjection
<1> QED BY <1>1, <1>2, FS_Surjection

----------------------------------------------------------------------------
(* Least and greatest elements *)

\* A nonempty set of natural numbers with a bound has a greatest element.
LEMMA GreatestNat ==
  ASSUME NEW S \in SUBSET Nat, S # {}, NEW b \in Nat, \A x \in S : x <= b
  PROVE  \E x \in S : \A y \in S : y <= x
<1> DEFINE T == {n \in Nat : \E x \in S : n = b - x}
<1>1. T \in SUBSET Nat /\ T # {}
  <2>1. PICK x \in S : TRUE
    OBVIOUS
  <2>2. b - x \in T
    BY <2>1
  <2> QED BY <2>2
<1>2. PICK n \in T : \A y \in T : n <= y
  <2> HIDE DEF T
  <2> QED BY <1>1, LeastNat
<1>3. PICK x \in S : n = b - x
  BY <1>2
<1>4. ASSUME NEW y \in S PROVE y <= x
  <2>1. b - y \in T
    OBVIOUS
  <2> QED BY <2>1, <1>2, <1>3
<1> QED BY <1>4

----------------------------------------------------------------------------
(* Logs and stores keep their types *)

\* Replaying entries of a log into a store gives a store.
LEMMA ReplayType ==
  ASSUME NEW d \in Store, NEW l \in Seq(Entry), NEW from \in Nat, NEW to \in Nat,
         to <= Len(l) \/ to <= from
  PROVE  Replay(d, l, from, to) \in Store
<1> DEFINE writes(k) == {j \in from+1..to : l[j].key = k}
           last(k) == CHOOSE j \in writes(k) : \A w \in writes(k) : w <= j
           new(k) == IF writes(k) = {} THEN d[k] ELSE l[last(k)].value
<1>1. Replay(d, l, from, to) = [k \in Key |-> new(k)]
  BY DEF Replay
<1>2. ASSUME NEW k \in Key PROVE new(k) \in Value \cup {None}
  <2>1. CASE writes(k) = {}
    BY <2>1 DEF Store
  <2>2. CASE writes(k) # {}
    <3>1. writes(k) \in SUBSET Nat /\ \A x \in writes(k) : x <= to /\ x \in 1..Len(l)
      BY LenProperties
    <3>2. \E x \in writes(k) : \A y \in writes(k) : y <= x
      <4> HIDE DEF writes
      <4> QED BY <3>1, <2>2, GreatestNat
    <3>3. last(k) \in writes(k)
      <4> HIDE DEF writes
      <4> QED BY <3>2
    <3>4. l[last(k)] \in Entry
      BY <3>1, <3>3, ElementOfSeq
    <3> HIDE DEF last, writes
    <3> QED BY <3>4, <2>2 DEF Entry
  <2> QED BY <2>1, <2>2
<1> HIDE DEF new
<1> QED BY <1>1, <1>2 DEF Store

\* Merging entries after an index that the log has gives a log.
LEMMA MergeType ==
  ASSUME NEW l \in Seq(Entry), NEW es \in Seq(Entry), NEW prev \in 0..Len(l)
  PROVE  Merge(l, prev, es) \in Seq(Entry)
<1> DEFINE conflicts == {k \in 1..Len(es) :
                           prev + k <= Len(l) /\ l[prev + k].term # es[k].term}
           first == CHOOSE k \in conflicts : \A c \in conflicts : k <= c
           kept == IF conflicts = {} THEN l ELSE SubSeq(l, 1, prev - 1 + first)
<1>0. Len(l) \in Nat /\ Len(es) \in Nat /\ prev \in Nat
  BY LenProperties
<1>1. kept \in Seq(Entry) /\ Len(kept) >= prev
  <2>1. CASE conflicts = {}
    BY <2>1, <1>0
  <2>2. CASE conflicts # {}
    <3>1. \E k \in conflicts : \A c \in conflicts : k <= c
      <4>1. conflicts \in SUBSET Nat
        BY <1>0
      <4> HIDE DEF conflicts
      <4> QED BY <4>1, <2>2, LeastNat
    <3>2. first \in 1..Len(es) /\ prev + first <= Len(l)
      BY <3>1
    <3> HIDE DEF first
    <3>3. \A k \in 1..(prev - 1 + first) : l[k] \in Entry
      BY <3>2, <1>0, ElementOfSeq
    <3>4. /\ SubSeq(l, 1, prev - 1 + first) \in Seq(Entry)
          /\ Len(SubSeq(l, 1, prev - 1 + first)) = prev - 1 + first
      BY <3>2, <3>3, <1>0, SubSeqProperties
    <3> QED BY <3>4, <3>2, <2>2, <1>0
  <2> QED BY <2>1, <2>2
<1> HIDE DEF kept
<1>2. \A k \in (Len(kept) - prev + 1)..Len(es) : es[k] \in Entry
  BY <1>0, <1>1, ElementOfSeq, LenProperties
<1>3. SubSeq(es, Len(kept) - prev + 1, Len(es)) \in Seq(Entry)
  BY <1>0, <1>1, <1>2, SubSeqProperties, LenProperties
<1>4. Merge(l, prev, es) = kept \o SubSeq(es, Len(kept) - prev + 1, Len(es))
  BY DEF Merge, kept
<1> QED BY <1>1, <1>3, <1>4, ConcatProperties

\* Where a run of equal terms begins is an index.
LEMMA FirstOfTermType ==
  ASSUME NEW l \in Seq(Entry), NEW prev \in 1..Len(l)
  PROVE  FirstOfTerm(l, prev) \in 1..prev
<1> DEFINE S == {c \in 1..prev : \A k \in c..prev : l[k].term = l[prev].term}
<1>1. prev \in Nat /\ prev >= 1
  BY LenProperties
<1>2. prev \in S /\ S \in SUBSET Nat
  BY <1>1
<1>3. PICK c \in S : \A y \in S : c <= y
  BY <1>2, LeastNat
<1>4. c = 1 \/ l[c - 1].term # l[prev].term
  <2>1. SUFFICES ASSUME c # 1, l[c - 1].term = l[prev].term PROVE FALSE
    OBVIOUS
  <2>2. c - 1 \in 1..prev /\ \A k \in (c - 1)..prev : k = c - 1 \/ k \in c..prev
    BY <2>1, <1>1, <1>3
  <2>3. c - 1 \in S
    BY <2>1, <2>2, <1>3
  <2> QED BY <2>3, <1>3, <1>1
<1> QED BY <1>3, <1>4 DEF FirstOfTerm

----------------------------------------------------------------------------
(* Messages keep their types *)

\* An AppendEntries whose entries start the log follows the sentinel's term 0.
SoundMessage == {m \in Message : m.type = "Append" /\ m.prevIndex = 0 => m.prevTerm = 0}

\* TypeOK in the parts that actions write together, with what makes it
\* inductive: a leader's cursors are at least 1, so that the previous index it
\* sends is a natural number, and the messages in flight are sound.
DurableType ==
  /\ currentTerm \in [Node -> Nat]
  /\ votedFor \in [Node -> Node \cup {None}]
  /\ log \in [Node -> Seq(Entry)]

LeaderType ==
  /\ role \in [Node -> {"follower", "candidate", "leader"}]
  /\ votes \in [Node -> SUBSET Node]
  /\ nextIndex \in [Node -> [Node -> Nat]]
  /\ matchIndex \in [Node -> [Node -> Nat]]
  /\ readAcks \in [Node -> SUBSET (Nat \X Node)]
  /\ \A i, j \in Node : role[i] = "leader" => nextIndex[i][j] >= 1

StoreType ==
  /\ commitIndex \in [Node -> Nat]
  /\ data \in [Node -> Store]
  /\ chosen \in Seq([entry : Entry, at : Nat])

QueueType == queue \in Seq(SoundMessage) /\ queue \in Seq(Message)

OtherType ==
  /\ alive \in [Node -> BOOLEAN]
  /\ cut \subseteq Node \X Node
  /\ client \in Call
  /\ nextContext \in Nat

TypeInv == DurableType /\ LeaderType /\ StoreType /\ QueueType /\ OtherType

\* The inductive invariant gives the type invariant that the runs check.
LEMMA TypeInvImpliesTypeOK == TypeInv => TypeOK
BY DEF TypeInv, TypeOK, DurableType, LeaderType, StoreType, QueueType, OtherType

\* What _send_append builds.
LEMMA AppendMsgType ==
  ASSUME NEW i \in Node, NEW j \in Node, NEW t \in Nat, NEW l \in Seq(Entry),
         NEW next \in Nat, next >= 1, NEW commit \in Nat, NEW ctx \in Nat
  PROVE  AppendMsg(i, j, t, l, next, commit, ctx) \in SoundMessage
<1>1. Len(l) \in Nat /\ DOMAIN l = 1..Len(l) /\ \A k \in 1..Len(l) : l[k] \in Entry
  BY LenProperties, ElementOfSeq
<1>2. SubSeq(l, next, Len(l)) \in Seq(Entry)
  BY <1>1, SubSeqProperties
<1>3. TermAt(l, next - 1) \in Nat /\ (next - 1 = 0 => TermAt(l, next - 1) = 0)
  BY <1>1 DEF TermAt, Entry
<1> QED BY <1>2, <1>3 DEF AppendMsg, SoundMessage, Message

\* What _broadcast_append sends.
LEMMA AppendsToPeersType ==
  ASSUME NEW i \in Node, NEW t \in Nat, NEW l \in Seq(Entry), NEW next \in [Node -> Nat],
         \A j \in Node : next[j] >= 1, NEW commit \in Nat, NEW ctx \in Nat
  PROVE  /\ AppendsToPeers(i, t, l, next, commit, ctx) \in SUBSET SoundMessage
         /\ IsFiniteSet(AppendsToPeers(i, t, l, next, commit, ctx))
<1> DEFINE f == [j \in Node \ {i} |-> AppendMsg(i, j, t, l, next[j], commit, ctx)]
<1>1. AppendsToPeers(i, t, l, next, commit, ctx) = {f[j] : j \in Node \ {i}}
  BY DEF AppendsToPeers
<1>2. \A j \in Node \ {i} : f[j] \in SoundMessage
  BY AppendMsgType
<1>3. IsFiniteSet({f[j] : j \in Node \ {i}})
  <2> HIDE DEF f
  <2>1. DOMAIN f = Node \ {i}
    BY DEF f
  <2> QED BY <2>1, PeersFinite
<1> QED BY <1>1, <1>2, <1>3

\* What _start_election sends.
LEMMA RequestVotesType ==
  ASSUME NEW i \in Node, NEW t \in Nat, NEW l \in Seq(Entry)
  PROVE  /\ {RequestVoteMsg(i, j, t, l) : j \in Node \ {i}} \in SUBSET SoundMessage
         /\ IsFiniteSet({RequestVoteMsg(i, j, t, l) : j \in Node \ {i}})
<1> DEFINE f == [j \in Node \ {i} |-> RequestVoteMsg(i, j, t, l)]
<1>1. {RequestVoteMsg(i, j, t, l) : j \in Node \ {i}} = {f[j] : j \in Node \ {i}}
  OBVIOUS
<1>2. Len(l) \in Nat /\ LastTerm(l) \in Nat
  <2>1. Len(l) \in Nat /\ DOMAIN l = 1..Len(l) /\ \A k \in 1..Len(l) : l[k] \in Entry
    BY LenProperties, ElementOfSeq
  <2> QED BY <2>1 DEF LastTerm, TermAt, Entry
<1>3. \A j \in Node \ {i} : f[j] \in SoundMessage
  BY <1>2 DEF RequestVoteMsg, SoundMessage, Message
<1>4. IsFiniteSet({f[j] : j \in Node \ {i}})
  <2> HIDE DEF f
  <2>1. DOMAIN f = Node \ {i}
    BY DEF f
  <2> QED BY <2>1, PeersFinite
<1> QED BY <1>1, <1>3, <1>4

\* The two responses.
LEMMA VoteResponseMsgType ==
  ASSUME NEW i \in Node, NEW j \in Node, NEW t \in Nat, NEW b \in BOOLEAN
  PROVE  VoteResponseMsg(i, j, t, b) \in SoundMessage
BY DEF VoteResponseMsg, SoundMessage, Message

\* What _send_append_response builds.
LEMMA AppendResponseMsgType ==
  ASSUME NEW i \in Node, NEW j \in Node, NEW t \in Nat, NEW b \in BOOLEAN,
         NEW match \in Nat, NEW conflict \in Nat, NEW ctx \in Nat
  PROVE  AppendResponseMsg(i, j, t, b, match, conflict, ctx) \in SoundMessage
BY DEF AppendResponseMsg, SoundMessage, Message

\* Sending sound messages keeps the queue sound.
LEMMA SendType ==
  ASSUME TypeInv, NEW out \in SUBSET SoundMessage, IsFiniteSet(out),
         Send(out) \/ (queue # <<>> /\ Reply(out))
  PROVE  queue' \in Seq(SoundMessage) /\ queue' \in Seq(Message)
<1>1. queue \in Seq(SoundMessage) /\ (queue # <<>> => Tail(queue) \in Seq(SoundMessage))
  BY TailProperties DEF TypeInv, QueueType
<1>2. queue' \in Seq(SoundMessage)
  BY <1>1, EnqueuedProperties DEF Send, Reply
<1> QED BY <1>2, SeqMonotonic DEF SoundMessage

\* One message is a finite set of messages.
LEMMA ReplyOneType ==
  ASSUME TypeInv, NEW m \in SoundMessage, queue # <<>>, Reply({m})
  PROVE  queue' \in Seq(SoundMessage) /\ queue' \in Seq(Message)
<1>1. IsFiniteSet({m}) /\ {m} \in SUBSET SoundMessage
  BY FS_Singleton
<1> QED BY <1>1, SendType

\* Dropping the head keeps the queue sound.
LEMMA NoReplyType ==
  ASSUME TypeInv, queue # <<>>, NoReply
  PROVE  queue' \in Seq(SoundMessage) /\ queue' \in Seq(Message)
<1>1. queue' \in Seq(SoundMessage)
  BY TailProperties DEF TypeInv, QueueType, NoReply
<1> QED BY <1>1, SeqMonotonic DEF SoundMessage

----------------------------------------------------------------------------
(* Every step keeps TypeInv. *)

\* The parts that a step leaves alone keep their types.
LEMMA PartsUnchanged ==
  /\ DurableType /\ UNCHANGED durableVars => DurableType'
  /\ LeaderType /\ UNCHANGED leaderVars => LeaderType'
  /\ StoreType /\ UNCHANGED <<stateVars, chosen>> => StoreType'
  /\ OtherType /\ UNCHANGED <<alive, cut, clientVars>> => OtherType'
  /\ QueueType /\ UNCHANGED queue => QueueType'
BY DEF DurableType, durableVars, LeaderType, leaderVars, StoreType, stateVars,
   OtherType, clientVars, QueueType

\* A node that loses its role keeps its types.
LEMMA LoseRoleType ==
  ASSUME LeaderType, NEW i \in Node, LoseRole(i)
  PROVE  LeaderType'
<1>1. [j \in Node |-> 0] \in [Node -> Nat] /\ {} \in SUBSET Node /\ {} \in SUBSET (Nat \X Node)
  OBVIOUS
<1> QED BY <1>1 DEF LeaderType, LoseRole


\* _start_election keeps the types.
LEMMA TimeoutType ==
  ASSUME TypeInv, NEW i \in Node, Timeout(i)
  PROVE  TypeInv'
<1>0. DurableType /\ LeaderType /\ StoreType /\ QueueType /\ OtherType
  BY DEF TypeInv
<1>1. currentTerm[i] + 1 \in Nat /\ log[i] \in Seq(Entry)
  BY <1>0 DEF DurableType
<1>2. QueueType'
  BY <1>1, RequestVotesType, SendType DEF Timeout, QueueType
<1>3. DurableType'
  BY <1>0 DEF Timeout, DurableType
<1>4. LeaderType'
  BY <1>0 DEF Timeout, LeaderType
<1>5. StoreType' /\ OtherType'
  BY <1>0, PartsUnchanged DEF Timeout
<1> QED BY <1>2, <1>3, <1>4, <1>5 DEF TypeInv

\* A leader's heartbeat keeps the types.
LEMMA HeartbeatType ==
  ASSUME TypeInv, NEW i \in Node, Heartbeat(i)
  PROVE  TypeInv'
<1>0. DurableType /\ LeaderType /\ StoreType /\ QueueType /\ OtherType
  BY DEF TypeInv
<1>1. /\ currentTerm[i] \in Nat /\ log[i] \in Seq(Entry) /\ commitIndex[i] \in Nat
      /\ nextIndex[i] \in [Node -> Nat] /\ \A j \in Node : nextIndex[i][j] >= 1
  BY <1>0 DEF DurableType, LeaderType, StoreType, Heartbeat
<1>2. QueueType'
  BY <1>1, AppendsToPeersType, SendType DEF Heartbeat, QueueType
<1> QED BY <1>0, <1>2, PartsUnchanged DEF TypeInv, Heartbeat

\* _receive_request_vote keeps the types.
LEMMA RequestVoteType ==
  ASSUME TypeInv, queue # <<>>, NEW i \in Node, NEW m \in SoundMessage,
         m.type = "RequestVote", HandleRequestVote(i, m), UNCHANGED <<alive, cut, clientVars>>
  PROVE  TypeInv'
<1> DEFINE term == Larger(m.term, currentTerm[i])
           voted == IF m.term > currentTerm[i] THEN None ELSE votedFor[i]
           granted == Grants(i, m, voted)
<1>0. DurableType /\ LeaderType /\ StoreType /\ QueueType /\ OtherType
  BY DEF TypeInv
<1>1. m.src \in Node /\ m.term \in Nat /\ currentTerm[i] \in Nat
  BY <1>0 DEF DurableType, SoundMessage, Message
<1>2. term \in Nat /\ voted \in Node \cup {None} /\ granted \in BOOLEAN
  BY <1>0, <1>1 DEF DurableType, Larger, Grants, UpToDate
<1>3. /\ currentTerm' = [currentTerm EXCEPT ![i] = term]
      /\ votedFor' = [votedFor EXCEPT ![i] = IF granted THEN m.src ELSE voted]
      /\ LoseRole(i) \/ UNCHANGED leaderVars
      /\ Reply({VoteResponseMsg(i, m.src, term, granted)})
      /\ UNCHANGED <<log, stateVars, chosen>>
  BY DEF HandleRequestVote
<1> HIDE DEF term, voted, granted
<1>4. QueueType'
  <2>1. VoteResponseMsg(i, m.src, term, granted) \in SoundMessage
    BY <1>1, <1>2, VoteResponseMsgType
  <2> QED BY <1>3, <2>1, ReplyOneType DEF QueueType
<1>5. DurableType'
  BY <1>0, <1>1, <1>2, <1>3 DEF DurableType
<1>6. LeaderType'
  BY <1>0, <1>3, LoseRoleType, PartsUnchanged
<1>7. StoreType' /\ OtherType'
  BY <1>0, <1>3, PartsUnchanged
<1> QED BY <1>4, <1>5, <1>6, <1>7 DEF TypeInv

\* A response of a higher term.
LEMMA AdoptTermType ==
  ASSUME TypeInv, queue # <<>>, NEW i \in Node, NEW m \in SoundMessage,
         AdoptTerm(i, m), NoReply, UNCHANGED <<stateVars, chosen>>,
         UNCHANGED <<alive, cut, clientVars>>
  PROVE  TypeInv'
<1>0. DurableType /\ LeaderType /\ StoreType /\ QueueType /\ OtherType
  BY DEF TypeInv
<1>1. m.term \in Nat
  BY DEF SoundMessage, Message
<1>2. DurableType' /\ LeaderType'
  BY <1>0, <1>1, LoseRoleType DEF AdoptTerm, DurableType
<1>3. StoreType' /\ OtherType' /\ QueueType'
  BY <1>0, PartsUnchanged, NoReplyType DEF QueueType
<1> QED BY <1>2, <1>3 DEF TypeInv

\* A response that changes nothing.
LEMMA IgnoredType ==
  ASSUME TypeInv, queue # <<>>, NoReply, UNCHANGED <<durableVars, leaderVars>>,
         UNCHANGED <<stateVars, chosen>>, UNCHANGED <<alive, cut, clientVars>>
  PROVE  TypeInv'
<1>1. QueueType'
  BY NoReplyType DEF QueueType
<1> QED BY <1>1, PartsUnchanged DEF TypeInv

\* The winner of an election, its no-op and its cursors.
LEMMA BecomeLeaderType ==
  ASSUME TypeInv, queue # <<>>, NEW i \in Node, BecomeLeader(i),
         votes' \in [Node -> SUBSET Node], UNCHANGED <<currentTerm, votedFor, readAcks>>,
         UNCHANGED <<stateVars, chosen>>, UNCHANGED <<alive, cut, clientVars>>
  PROVE  TypeInv'
<1> DEFINE last == Len(log[i])
           l == Append(log[i], NoOp(currentTerm[i]))
           next == [j \in Node |-> last + 1]
           match == [j \in Node |-> IF j = i THEN last + 1 ELSE 0]
<1>0. DurableType /\ LeaderType /\ StoreType /\ QueueType /\ OtherType
  BY DEF TypeInv
<1>1. log[i] \in Seq(Entry) /\ currentTerm[i] \in Nat /\ commitIndex[i] \in Nat
  BY <1>0 DEF DurableType, StoreType
<1>2. last \in Nat
  BY <1>1, LenProperties
<1>3. l \in Seq(Entry)
  <2>1. NoOp(currentTerm[i]) \in Entry
    BY <1>1 DEF NoOp, Entry
  <2> QED BY <1>1, <2>1, AppendProperties
<1>4. next \in [Node -> Nat] /\ match \in [Node -> Nat] /\ \A j \in Node : next[j] >= 1
  BY <1>2
<1>5. /\ role' = [role EXCEPT ![i] = "leader"]
      /\ nextIndex' = [nextIndex EXCEPT ![i] = next]
      /\ matchIndex' = [matchIndex EXCEPT ![i] = match]
      /\ log' = [log EXCEPT ![i] = l]
      /\ Reply(AppendsToPeers(i, currentTerm[i], l, next, commitIndex[i], 0))
  BY DEF BecomeLeader, FreshNext
<1> HIDE DEF last, l, next, match
<1>6. QueueType'
  BY <1>1, <1>3, <1>4, <1>5, AppendsToPeersType, SendType DEF QueueType
<1>7. DurableType'
  BY <1>0, <1>3, <1>5 DEF DurableType
<1>8. LeaderType'
  BY <1>0, <1>4, <1>5 DEF LeaderType
<1>9. StoreType' /\ OtherType'
  BY <1>0, PartsUnchanged
<1> QED BY <1>6, <1>7, <1>8, <1>9 DEF TypeInv

\* _receive_vote_response keeps the types, whether or not the vote makes a leader.
LEMMA VoteResponseType ==
  ASSUME TypeInv, queue # <<>>, NEW i \in Node, NEW m \in SoundMessage,
         m.type = "VoteResponse", HandleVoteResponse(i, m), UNCHANGED <<alive, cut, clientVars>>
  PROVE  TypeInv'
<1>0. UNCHANGED <<stateVars, chosen>>
  BY DEF HandleVoteResponse
<1>1. CASE AdoptTerm(i, m) /\ NoReply
  BY <1>0, <1>1, AdoptTermType
<1>2. CASE UNCHANGED <<durableVars, leaderVars>> /\ NoReply
  BY <1>0, <1>2, IgnoredType
<1>3. CASE /\ votes' = [votes EXCEPT ![i] = @ \cup {m.src}]
           /\ UNCHANGED <<currentTerm, votedFor, readAcks>>
           /\ \/ BecomeLeader(i)
              \/ UNCHANGED <<role, nextIndex, matchIndex, log>> /\ NoReply
  <2>0. DurableType /\ LeaderType /\ StoreType /\ QueueType /\ OtherType
    BY DEF TypeInv
  <2>1. votes' \in [Node -> SUBSET Node]
    BY <1>3, <2>0 DEF LeaderType, SoundMessage, Message
  <2>2. CASE BecomeLeader(i)
    BY <1>0, <1>3, <2>1, <2>2, BecomeLeaderType
  <2>3. CASE UNCHANGED <<role, nextIndex, matchIndex, log>> /\ NoReply
    <3>1. QueueType'
      BY <2>3, NoReplyType DEF QueueType
    <3>2. DurableType' /\ LeaderType'
      BY <1>3, <2>0, <2>1, <2>3 DEF DurableType, LeaderType
    <3> QED BY <1>0, <2>0, <3>1, <3>2, PartsUnchanged DEF TypeInv
  <2> QED BY <1>3, <2>2, <2>3
<1> QED BY <1>1, <1>2, <1>3 DEF HandleVoteResponse

\* The hint of a follower that refuses is a natural number.
LEMMA ConflictIndexType ==
  ASSUME NEW l \in Seq(Entry), NEW m \in SoundMessage, m.type = "Append", ~HasPrevious(l, m)
  PROVE  ConflictIndex(l, m) \in Nat
<1>1. Len(l) \in Nat /\ DOMAIN l = 1..Len(l) /\ m.prevIndex \in Nat
  BY LenProperties DEF SoundMessage, Message
<1>2. CASE m.prevIndex > Len(l)
  BY <1>1, <1>2 DEF ConflictIndex
<1>3. CASE m.prevIndex <= Len(l)
  <2>1. m.prevIndex # 0
    BY <1>1, <1>3 DEF HasPrevious, TermAt, SoundMessage
  <2>2. FirstOfTerm(l, m.prevIndex) \in 1..m.prevIndex
    BY <1>1, <1>3, <2>1, FirstOfTermType
  <2> QED BY <1>1, <1>3, <2>2 DEF ConflictIndex
<1> QED BY <1>1, <1>2, <1>3

\* A follower commits no further than its log, or not at all.
LEMMA FollowerCommitType ==
  ASSUME NEW c \in Nat, NEW l \in Seq(Entry), NEW m, m.commit \in Nat
  PROVE  /\ FollowerCommit(c, l, m) \in Nat
         /\ FollowerCommit(c, l, m) <= Len(l) \/ FollowerCommit(c, l, m) <= c
<1>1. Len(l) \in Nat
  BY LenProperties
<1> QED BY <1>1 DEF FollowerCommit, Smaller

\* _receive_append_entries keeps the types in each of its three outcomes.
LEMMA AppendType ==
  ASSUME TypeInv, queue # <<>>, NEW i \in Node, NEW m \in SoundMessage,
         m.type = "Append", HandleAppend(i, m), UNCHANGED <<alive, cut, clientVars>>
  PROVE  TypeInv'
<1>0. DurableType /\ LeaderType /\ StoreType /\ QueueType /\ OtherType
  BY DEF TypeInv
<1>1. /\ m.src \in Node /\ m.term \in Nat /\ m.ctx \in Nat /\ m.commit \in Nat
      /\ m.prevIndex \in Nat /\ m.entries \in Seq(Entry)
  BY DEF SoundMessage, Message
<1>2. /\ currentTerm[i] \in Nat /\ log[i] \in Seq(Entry) /\ Len(log[i]) \in Nat
      /\ commitIndex[i] \in Nat /\ data[i] \in Store
  BY <1>0, LenProperties DEF DurableType, StoreType
<1>3. OtherType' /\ UNCHANGED chosen
  BY <1>0, PartsUnchanged DEF HandleAppend
<1>4. CASE m.term < currentTerm[i]
  <2>1. /\ Reply({AppendResponseMsg(i, m.src, currentTerm[i], FALSE, 0, Len(log[i]) + 1, m.ctx)})
        /\ UNCHANGED <<durableVars, leaderVars, stateVars>>
    BY <1>1, <1>2, <1>4 DEF HandleAppend
  <2>2. AppendResponseMsg(i, m.src, currentTerm[i], FALSE, 0, Len(log[i]) + 1, m.ctx)
          \in SoundMessage
    <3>1. Len(log[i]) + 1 \in Nat
      BY <1>2
    <3> QED BY <1>1, <1>2, <3>1, AppendResponseMsgType
  <2>3. QueueType'
    BY <2>1, <2>2, ReplyOneType DEF QueueType
  <2> QED BY <1>0, <1>3, <2>1, <2>3, PartsUnchanged DEF TypeInv
<1>5. CASE m.term >= currentTerm[i]
  <2>1. /\ currentTerm' = [currentTerm EXCEPT ![i] = m.term]
        /\ votedFor' = IF m.term > currentTerm[i]
                       THEN [votedFor EXCEPT ![i] = None] ELSE votedFor
        /\ LoseRole(i) \/ UNCHANGED leaderVars
    BY <1>1, <1>2, <1>5 DEF HandleAppend
  <2>2. LeaderType'
    BY <1>0, <2>1, LoseRoleType, PartsUnchanged
  <2>3. currentTerm' \in [Node -> Nat] /\ votedFor' \in [Node -> Node \cup {None}]
    BY <1>0, <1>1, <2>1 DEF DurableType
  <2>4. CASE ~HasPrevious(log[i], m)
    <3>1. /\ Reply({AppendResponseMsg(i, m.src, m.term, FALSE, 0,
                                      ConflictIndex(log[i], m), m.ctx)})
          /\ UNCHANGED <<log, stateVars>>
      BY <1>1, <1>2, <1>5, <2>4 DEF HandleAppend
    <3>2. AppendResponseMsg(i, m.src, m.term, FALSE, 0, ConflictIndex(log[i], m), m.ctx)
            \in SoundMessage
      BY <1>1, <1>2, <2>4, ConflictIndexType, AppendResponseMsgType
    <3>3. QueueType'
      BY <3>1, <3>2, ReplyOneType DEF QueueType
    <3>4. DurableType' /\ StoreType'
      BY <1>0, <1>3, <2>3, <3>1, PartsUnchanged DEF DurableType
    <3> QED BY <1>3, <2>2, <3>3, <3>4 DEF TypeInv
  <2>5. CASE HasPrevious(log[i], m)
    <3> DEFINE l == Merge(log[i], m.prevIndex, m.entries)
               c == FollowerCommit(commitIndex[i], l, m)
               r == AppendResponseMsg(i, m.src, m.term, TRUE,
                                      m.prevIndex + Len(m.entries), Len(l) + 1, m.ctx)
    <3>1. /\ log' = [log EXCEPT ![i] = l]
          /\ commitIndex' = [commitIndex EXCEPT ![i] = c]
          /\ data' = [data EXCEPT ![i] = Replay(data[i], l, commitIndex[i], c)]
          /\ Reply({r})
      BY <1>1, <1>2, <1>5, <2>5 DEF HandleAppend
    <3>2. l \in Seq(Entry)
      BY <1>1, <1>2, <2>5, MergeType DEF HasPrevious
    <3> HIDE DEF l
    <3>3. c \in Nat /\ (c <= Len(l) \/ c <= commitIndex[i])
      BY <1>1, <1>2, <3>2, FollowerCommitType
    <3>4. Len(l) \in Nat /\ Len(m.entries) \in Nat
      BY <1>1, <3>2, LenProperties
    <3>5. r \in SoundMessage
      <4>1. Len(l) + 1 \in Nat /\ m.prevIndex + Len(m.entries) \in Nat
        BY <1>1, <3>4
      <4> QED BY <1>1, <4>1, AppendResponseMsgType
    <3> HIDE DEF c, r
    <3>6. Replay(data[i], l, commitIndex[i], c) \in Store
      BY <1>2, <3>2, <3>3, ReplayType
    <3>7. QueueType'
      BY <3>1, <3>5, ReplyOneType DEF QueueType
    <3>8. DurableType' /\ StoreType'
      BY <1>0, <1>3, <2>3, <3>1, <3>2, <3>3, <3>6 DEF DurableType, StoreType
    <3> QED BY <1>3, <2>2, <3>7, <3>8 DEF TypeInv
  <2> QED BY <2>4, <2>5
<1> QED BY <1>1, <1>2, <1>4, <1>5

\* What the history records of a commit.
LEMMA ChooseType ==
  ASSUME TypeInv, NEW i \in Node, NEW c \in Nat, c <= Len(log[i]), Choose(i, c)
  PROVE  chosen' \in Seq([entry : Entry, at : Nat])
<1> DEFINE E == [entry : Entry, at : Nat]
<1>1. /\ chosen \in Seq(E) /\ Len(chosen) \in Nat /\ currentTerm[i] \in Nat
      /\ Len(log[i]) \in Nat /\ \A k \in 1..Len(log[i]) : log[i][k] \in Entry
  BY LenProperties, ElementOfSeq DEF TypeInv, StoreType, DurableType
<1>2. CASE c <= Len(chosen)
  BY <1>1, <1>2 DEF Choose
<1>3. CASE c > Len(chosen)
  <2> DEFINE n == c - Len(chosen)
             new == [k \in 1..n |-> [entry |-> log[i][Len(chosen) + k], at |-> currentTerm[i]]]
  <2>1. chosen' = chosen \o new
    BY <1>1, <1>3 DEF Choose
  <2>2. n \in Nat /\ \A k \in 1..n : Len(chosen) + k \in 1..Len(log[i])
    BY <1>1, <1>3
  <2>3. new \in [1..n -> E]
    BY <1>1, <2>2
  <2> HIDE DEF n, new
  <2>4. new \in Seq(E)
    <3> HIDE DEF E
    <3> QED BY <2>2, <2>3, FunctionIsSeq
  <2> HIDE DEF E
  <2> QED BY <1>1, <2>1, <2>4, ConcatProperties DEF E
<1> QED BY <1>1, <1>2, <1>3

\* A leader's commit, whatever cursors it has just updated.
LEMMA AdvanceCommitType ==
  ASSUME TypeInv, queue # <<>>, NEW i \in Node, NEW match, NEW next \in [Node -> Nat],
         \A j \in Node : next[j] >= 1, AdvanceCommit(i, match, next)
  PROVE  StoreType' /\ QueueType'
<1>1. /\ currentTerm[i] \in Nat /\ log[i] \in Seq(Entry) /\ Len(log[i]) \in Nat
      /\ commitIndex[i] \in Nat /\ data[i] \in Store
  BY LenProperties DEF TypeInv, DurableType, StoreType
<1>2. CASE NoReply /\ UNCHANGED <<stateVars, chosen>>
  <2>1. QueueType'
    BY <1>2, NoReplyType DEF QueueType
  <2> QED BY <1>2, <2>1, PartsUnchanged DEF TypeInv
<1>3. ASSUME NEW c \in Committable(i, match),
             commitIndex' = [commitIndex EXCEPT ![i] = c],
             data' = [data EXCEPT ![i] = Replay(data[i], log[i], commitIndex[i], c)],
             Choose(i, c),
             Reply(AppendsToPeers(i, currentTerm[i], log[i], next, c, 0))
      PROVE  StoreType' /\ QueueType'
  <2>1. c \in Nat /\ c <= Len(log[i])
    BY <1>1 DEF Committable
  <2>2. Replay(data[i], log[i], commitIndex[i], c) \in Store
    BY <1>1, <2>1, ReplayType
  <2>3. chosen' \in Seq([entry : Entry, at : Nat])
    BY <1>3, <2>1, ChooseType
  <2>4. QueueType'
    BY <1>1, <1>3, <2>1, AppendsToPeersType, SendType DEF QueueType
  <2> QED BY <1>3, <2>1, <2>2, <2>3, <2>4 DEF TypeInv, StoreType
<1> QED BY <1>2, <1>3 DEF AdvanceCommit

\* _receive_append_response keeps the types in each of its four outcomes.
LEMMA AppendResponseType ==
  ASSUME TypeInv, queue # <<>>, NEW i \in Node, NEW m \in SoundMessage,
         m.type = "AppendResponse", HandleAppendResponse(i, m),
         UNCHANGED <<alive, cut, clientVars>>
  PROVE  TypeInv'
<1> DEFINE match == [matchIndex[i] EXCEPT ![m.src] = Larger(@, m.match)]
           next  == [nextIndex[i] EXCEPT ![m.src] = match[m.src] + 1]
           retry == [nextIndex[i] EXCEPT ![m.src] = Larger(1, m.conflict)]
<1>0. DurableType /\ LeaderType /\ StoreType /\ QueueType /\ OtherType
  BY DEF TypeInv
<1>1. /\ m.src \in Node /\ m.term \in Nat /\ m.match \in Nat /\ m.conflict \in Nat
      /\ m.ctx \in Nat
  BY DEF SoundMessage, Message
<1>2. /\ currentTerm[i] \in Nat /\ log[i] \in Seq(Entry) /\ commitIndex[i] \in Nat
      /\ matchIndex[i] \in [Node -> Nat] /\ nextIndex[i] \in [Node -> Nat]
  BY <1>0 DEF DurableType, LeaderType, StoreType
<1>3. CASE AdoptTerm(i, m) /\ NoReply /\ UNCHANGED <<stateVars, chosen>>
  BY <1>3, AdoptTermType
<1>4. CASE NoReply /\ UNCHANGED <<durableVars, leaderVars, stateVars, chosen>>
  BY <1>4, IgnoredType
<1>5. CASE /\ role[i] = "leader"
           /\ nextIndex' = [nextIndex EXCEPT ![i] = retry]
           /\ Reply({AppendMsg(i, m.src, currentTerm[i], log[i], retry[m.src],
                               commitIndex[i], m.ctx)})
           /\ UNCHANGED <<durableVars, role, votes, matchIndex, readAcks, stateVars, chosen>>
  <2>1. /\ retry \in [Node -> Nat] /\ retry[m.src] >= 1
        /\ \A j \in Node : retry[j] >= 1
    BY <1>0, <1>1, <1>2, <1>5 DEF LeaderType, Larger
  <2> HIDE DEF retry
  <2>2. QueueType'
    <3>1. AppendMsg(i, m.src, currentTerm[i], log[i], retry[m.src], commitIndex[i], m.ctx)
            \in SoundMessage
      BY <1>1, <1>2, <2>1, AppendMsgType
    <3> QED BY <1>5, <3>1, ReplyOneType DEF QueueType
  <2>3. LeaderType'
    BY <1>0, <1>5, <2>1 DEF LeaderType
  <2> QED BY <1>0, <1>5, <2>2, <2>3, PartsUnchanged DEF TypeInv
<1>6. CASE /\ role[i] = "leader"
           /\ matchIndex' = [matchIndex EXCEPT ![i] = match]
           /\ nextIndex' = [nextIndex EXCEPT ![i] = next]
           /\ readAcks' = [readAcks EXCEPT ![i] = WithAck(i, m)]
           /\ AdvanceCommit(i, match, next)
           /\ UNCHANGED <<durableVars, role, votes>>
  <2>1. match \in [Node -> Nat]
    BY <1>1, <1>2 DEF Larger
  <2>2. next \in [Node -> Nat] /\ \A j \in Node : next[j] >= 1
    <3> HIDE DEF match
    <3>1. match[m.src] + 1 \in Nat /\ match[m.src] + 1 >= 1
      BY <1>1, <2>1
    <3> QED BY <1>0, <1>1, <1>2, <1>6, <3>1 DEF LeaderType
  <2>3. WithAck(i, m) \in SUBSET (Nat \X Node)
    BY <1>0, <1>1 DEF WithAck, LeaderType
  <2> HIDE DEF match, next
  <2>4. StoreType' /\ QueueType'
    BY <1>6, <2>2, AdvanceCommitType
  <2>5. LeaderType'
    BY <1>0, <1>6, <2>1, <2>2, <2>3 DEF LeaderType
  <2> QED BY <1>0, <1>6, <2>4, <2>5, PartsUnchanged DEF TypeInv
<1> HIDE DEF match, next, retry
<1> QED BY <1>3, <1>4, <1>5, <1>6 DEF HandleAppendResponse, match, next, retry

\* The head of the queue is handled.
LEMMA DeliverType ==
  ASSUME TypeInv, Deliver
  PROVE  TypeInv'
<1> DEFINE m == Head(queue)
<1>1. queue # <<>> /\ m \in SoundMessage /\ UNCHANGED <<alive, cut, clientVars>>
  BY TailProperties DEF Deliver, TypeInv, QueueType
<1>2. m.dst \in Node
  BY <1>1 DEF SoundMessage, Message
<1> HIDE DEF m
<1>3. \/ m.type = "RequestVote" /\ HandleRequestVote(m.dst, m)
      \/ m.type = "VoteResponse" /\ HandleVoteResponse(m.dst, m)
      \/ m.type = "Append" /\ HandleAppend(m.dst, m)
      \/ m.type = "AppendResponse" /\ HandleAppendResponse(m.dst, m)
  BY DEF Deliver, m
<1> QED BY <1>1, <1>2, <1>3, RequestVoteType, VoteResponseType, AppendType, AppendResponseType

\* client_write keeps the types up to its first wait.
LEMMA ClientWriteType ==
  ASSUME TypeInv, NEW i \in Node, NEW k \in Key, NEW v \in Value, ClientWrite(i, k, v)
  PROVE  TypeInv'
<1> DEFINE e == [term |-> currentTerm[i], key |-> k, value |-> v]
           l == Append(log[i], e)
<1>0. DurableType /\ LeaderType /\ StoreType /\ QueueType /\ OtherType
  BY DEF TypeInv
<1>1. /\ currentTerm[i] \in Nat /\ log[i] \in Seq(Entry) /\ commitIndex[i] \in Nat
      /\ nextIndex[i] \in [Node -> Nat] /\ \A j \in Node : nextIndex[i][j] >= 1
  BY <1>0 DEF DurableType, StoreType, LeaderType, ClientWrite, IsCurrentLeader
<1>2. e \in Entry /\ l \in Seq(Entry) /\ Len(l) \in Nat
  <2>1. e \in Entry
    BY <1>1 DEF Entry
  <2> QED BY <1>1, <2>1, AppendProperties, LenProperties
<1>3. /\ log' = [log EXCEPT ![i] = l]
      /\ matchIndex' = [matchIndex EXCEPT ![i][i] = Len(l)]
      /\ client' = [op |-> "write", leader |-> i, index |-> Len(l), entry |-> e]
      /\ Send(AppendsToPeers(i, currentTerm[i], l, nextIndex[i], commitIndex[i], 0))
      /\ UNCHANGED <<currentTerm, votedFor, alive, role, votes, nextIndex, readAcks,
                     stateVars, cut, nextContext, chosen>>
  BY DEF ClientWrite
<1> HIDE DEF e, l
<1>4. QueueType'
  BY <1>1, <1>2, <1>3, AppendsToPeersType, SendType DEF QueueType
<1>5. DurableType' /\ LeaderType'
  BY <1>0, <1>2, <1>3 DEF DurableType, LeaderType
<1>6. OtherType'
  BY <1>0, <1>2, <1>3 DEF OtherType, Call
<1> QED BY <1>0, <1>3, <1>4, <1>5, <1>6, PartsUnchanged DEF TypeInv

\* client_read keeps the types up to its first wait.
LEMMA ReadStartType ==
  ASSUME TypeInv, NEW i \in Node, ReadStart(i)
  PROVE  TypeInv'
<1>0. DurableType /\ LeaderType /\ StoreType /\ QueueType /\ OtherType
  BY DEF TypeInv
<1>1. /\ currentTerm[i] \in Nat /\ log[i] \in Seq(Entry) /\ commitIndex[i] \in Nat
      /\ nextIndex[i] \in [Node -> Nat] /\ \A j \in Node : nextIndex[i][j] >= 1
      /\ nextContext \in Nat /\ Len(chosen) \in Nat
  BY <1>0, LenProperties
  DEF DurableType, StoreType, LeaderType, OtherType, ReadStart, IsCurrentLeader
<1>2. QueueType'
  BY <1>1, AppendsToPeersType, SendType DEF QueueType, ReadStart
<1>3. LeaderType'
  BY <1>0, <1>1 DEF LeaderType, ReadStart
<1>4. OtherType'
  BY <1>0, <1>1 DEF OtherType, Call, ReadStart
<1> QED BY <1>0, <1>2, <1>3, <1>4, PartsUnchanged DEF TypeInv, ReadStart

\* The ends of the client calls.
LEMMA CallEndType ==
  ASSUME TypeInv, WriteAccepted \/ WriteUnknown \/ ReadAnswered \/ ReadFailed
  PROVE  TypeInv'
<1>0. DurableType /\ LeaderType /\ StoreType /\ QueueType /\ OtherType
  BY DEF TypeInv
<1>1. OtherType'
  BY <1>0 DEF OtherType, Call, WriteAccepted, WriteUnknown, ReadAnswered, ReadFailed, ReadEnd
<1>2. CASE WriteAccepted \/ WriteUnknown
  BY <1>0, <1>1, <1>2, PartsUnchanged DEF TypeInv, WriteAccepted, WriteUnknown
<1>3. CASE client.op = "read" /\ ReadEnd
  <2>1. client.leader \in Node
    BY <1>0, <1>3 DEF OtherType, Call, Idle
  <2>2. LeaderType'
    BY <1>0, <1>3, <2>1 DEF LeaderType, ReadEnd
  <2> QED BY <1>0, <1>1, <1>3, <2>2, PartsUnchanged DEF TypeInv, ReadEnd
<1> QED BY <1>2, <1>3 DEF ReadAnswered, ReadFailed

\* Crash, restart, isolate, heal, and the loss of a message.
LEMMA FaultType ==
  ASSUME TypeInv,
         Discard \/ \E i \in Node : Crash(i) \/ Restart(i) \/ Isolate(i) \/ Heal(i)
  PROVE  TypeInv'
<1>0. DurableType /\ LeaderType /\ StoreType /\ QueueType /\ OtherType
  BY DEF TypeInv
<1>1. CASE Discard
  <2>1. queue # <<>> /\ NoReply /\ UNCHANGED <<durableVars, leaderVars>>
        /\ UNCHANGED <<stateVars, chosen>> /\ UNCHANGED <<alive, cut, clientVars>>
    BY <1>1 DEF Discard
  <2> QED BY <2>1, IgnoredType
<1>2. ASSUME NEW i \in Node, Crash(i) PROVE TypeInv'
  <2>1. StoreType'
    BY <1>0, <1>2 DEF StoreType, Crash, EmptyStore, Store
  <2>2. LeaderType'
    BY <1>0, <1>2, LoseRoleType DEF Crash
  <2>3. OtherType'
    BY <1>0, <1>2 DEF OtherType, Crash, clientVars
  <2> QED BY <1>0, <1>2, <2>1, <2>2, <2>3, PartsUnchanged DEF TypeInv, Crash
<1>3. ASSUME NEW i \in Node, Restart(i) \/ Isolate(i) \/ Heal(i) PROVE TypeInv'
  <2>1. OtherType'
    BY <1>0, <1>3 DEF OtherType, Restart, Isolate, Heal, LinksOf, clientVars
  <2> QED BY <1>0, <1>3, <2>1, PartsUnchanged DEF TypeInv, Restart, Isolate, Heal
<1> QED BY <1>1, <1>2, <1>3

----------------------------------------------------------------------------
\* TypeInv is inductive.
LEMMA TypeInvInit == Init => TypeInv
<1> SUFFICES ASSUME Init PROVE TypeInv
  OBVIOUS
<1>1. DurableType /\ LeaderType /\ OtherType
  BY DEF Init, DurableType, LeaderType, OtherType, Call
<1>2. StoreType
  BY DEF Init, StoreType, EmptyStore, Store
<1>3. QueueType
  BY DEF Init, QueueType
<1> QED BY <1>1, <1>2, <1>3 DEF TypeInv

\* Every step of the group keeps TypeInv.
LEMMA TypeInvStep == TypeInv /\ [Next]_vars => TypeInv'
<1> SUFFICES ASSUME TypeInv, [Next]_vars PROVE TypeInv'
  OBVIOUS
<1>1. CASE Next
  BY <1>1, TimeoutType, HeartbeatType, ClientWriteType, ReadStartType, FaultType,
     DeliverType, CallEndType
  DEF Next
<1>2. CASE UNCHANGED vars
  BY <1>2, PartsUnchanged DEF TypeInv, vars
<1> QED BY <1>1, <1>2

\* Every reachable state of the group is well typed, for every number of nodes
\* and all keys and values.
THEOREM TypeCorrect == Spec => []TypeOK
<1>1. Spec => []TypeInv
  BY TypeInvInit, TypeInvStep, PTL DEF Spec
<1> QED BY <1>1, TypeInvImpliesTypeOK, PTL

----------------------------------------------------------------------------
(* Elections.  The argument follows each vote from the voter's disk through *)
(* the network to the candidate's tally: a vote that is held or in flight   *)
(* was cast by a node whose term has since passed or whose voted_for still  *)
(* names the candidate, and no voter has two such votes in one term.        *)

\* Voter v has voted for c in term t, as far as its disk still tells.
VotedIn(v, t, c) ==
  currentTerm[v] > t \/ (currentTerm[v] = t /\ votedFor[v] = c)

\* c counts v's vote in term t, or v's grant is on its way to c.
HeldVote(v, t, c) == role[c] # "follower" /\ currentTerm[c] = t /\ v \in votes[c]
SentVote(v, t, c) ==
  \E m \in InFlight(queue) :
    m.type = "VoteResponse" /\ m.granted /\ m.src = v /\ m.dst = c /\ m.term = t
Claim(v, t, c) == HeldVote(v, t, c) \/ SentVote(v, t, c)

VoteInv ==
  /\ \A v, c \in Node : \A t \in Nat : Claim(v, t, c) => VotedIn(v, t, c)
  /\ \A v, c, d \in Node : \A t \in Nat : Claim(v, t, c) /\ Claim(v, t, d) => c = d
  /\ \A c \in Node : role[c] = "leader" => IsQuorum(votes[c])

\* Two leaders of one term would share a voter, who has one vote.
LEMMA VoteInvImpliesElectionSafety ==
  ASSUME TypeInv, VoteInv
  PROVE  ElectionSafety
<1> SUFFICES ASSUME NEW i \in Node, NEW j \in Node, role[i] = "leader", role[j] = "leader",
                    currentTerm[i] = currentTerm[j]
             PROVE  i = j
  BY DEF ElectionSafety
<1>1. /\ votes[i] \in SUBSET Node /\ votes[j] \in SUBSET Node
      /\ IsQuorum(votes[i]) /\ IsQuorum(votes[j]) /\ currentTerm[i] \in Nat
  BY DEF VoteInv, TypeInv, LeaderType, DurableType
<1>2. PICK v \in Node : v \in votes[i] /\ v \in votes[j]
  BY <1>1, QuorumsMeet
<1>3. Claim(v, currentTerm[i], i) /\ Claim(v, currentTerm[i], j)
  BY <1>2 DEF Claim, HeldVote
<1> QED BY <1>1, <1>3 DEF VoteInv

----------------------------------------------------------------------------
(* What a step does to terms and votes *)

\* The step predicate of VotesAreFinal.
Final ==
  \A v \in Node :
    /\ currentTerm'[v] >= currentTerm[v]
    /\ currentTerm'[v] = currentTerm[v] /\ votedFor[v] # None => votedFor'[v] = votedFor[v]

\* v casts its only vote of term t, for c.
Cast(v, t, c) ==
  /\ currentTerm'[v] = t /\ votedFor'[v] = c
  /\ \A d \in Node : VotedIn(v, t, d) => d = c

\* Every vote held or in flight after the step was there before or is cast by it.
VotesAccounted ==
  \A v, c \in Node : \A t \in Nat : Claim(v, t, c)' => Claim(v, t, c) \/ Cast(v, t, c)

LeadersElected == \A c \in Node : role'[c] = "leader" => IsQuorum(votes'[c])

\* A step that adds no claim to a vote and elects nobody without a majority keeps VoteInv.
LEMMA VoteInvKept ==
  ASSUME TypeInv, TypeInv', VoteInv, Final, VotesAccounted, LeadersElected
  PROVE  VoteInv'
<1>0. \A v \in Node : currentTerm[v] \in Nat /\ currentTerm'[v] \in Nat
  BY DEF TypeInv, DurableType
<1>1. ASSUME NEW v \in Node, NEW c \in Node, NEW t \in Nat, VotedIn(v, t, c)
      PROVE  VotedIn(v, t, c)'
  <2>1. c # None
    BY RaftAssumption
  <2> QED BY <1>0, <1>1, <2>1 DEF VotedIn, Final
<1>2. ASSUME NEW v \in Node, NEW c \in Node, NEW t \in Nat, Claim(v, t, c)'
      PROVE  VotedIn(v, t, c)'
  <2>1. CASE Claim(v, t, c)
    BY <2>1, <1>1 DEF VoteInv
  <2>2. CASE Cast(v, t, c)
    BY <2>2 DEF Cast, VotedIn
  <2> QED BY <1>2, <2>1, <2>2 DEF VotesAccounted
<1>3. ASSUME NEW v \in Node, NEW c \in Node, NEW d \in Node, NEW t \in Nat,
             Claim(v, t, c)', Claim(v, t, d)'
      PROVE  c = d
  <2>1. CASE Claim(v, t, c) /\ Claim(v, t, d)
    BY <2>1 DEF VoteInv
  <2>2. CASE Claim(v, t, c) /\ Cast(v, t, d)
    BY <2>2 DEF VoteInv, Cast
  <2>3. CASE Cast(v, t, c) /\ Claim(v, t, d)
    BY <2>3 DEF VoteInv, Cast
  <2>4. CASE Cast(v, t, c) /\ Cast(v, t, d)
    BY <2>4 DEF Cast
  <2> QED BY <1>3, <2>1, <2>2, <2>3, <2>4 DEF VotesAccounted
<1> QED BY <1>2, <1>3 DEF VoteInv, LeadersElected

\* No vote is put on the wire.
NoVoteSent == \A m \in InFlight(queue') : m.type = "VoteResponse" => m \in InFlight(queue)

\* A step that neither sends a vote nor lets anyone count one.
LEMMA QuietStep ==
  ASSUME TypeInv, VoteInv, NoVoteSent,
         \A c \in Node : role'[c] # "follower" =>
           role'[c] = role[c] /\ currentTerm'[c] = currentTerm[c] /\ votes'[c] = votes[c]
  PROVE  VotesAccounted /\ LeadersElected
<1>1. LeadersElected
  BY DEF LeadersElected, VoteInv
<1>2. ASSUME NEW v \in Node, NEW c \in Node, NEW t \in Nat, Claim(v, t, c)'
      PROVE  Claim(v, t, c)
  <2>1. CASE HeldVote(v, t, c)'
    BY <2>1 DEF HeldVote, Claim
  <2>2. CASE SentVote(v, t, c)'
    BY <2>2 DEF SentVote, Claim, NoVoteSent
  <2> QED BY <1>2, <2>1, <2>2 DEF Claim
<1> QED BY <1>1, <1>2 DEF VotesAccounted

\* What the sends of each kind leave in flight.
LEMMA SentMessages ==
  ASSUME TypeInv, NEW out \in SUBSET SoundMessage, IsFiniteSet(out),
         Send(out) \/ (queue # <<>> /\ Reply(out))
  PROVE  InFlight(queue') \subseteq InFlight(queue) \cup out
<1>1. queue \in Seq(SoundMessage)
  BY DEF TypeInv, QueueType
<1>2. CASE Send(out)
  BY <1>1, <1>2, EnqueuedProperties DEF Send
<1>3. CASE queue # <<>> /\ Reply(out)
  <2>1. Tail(queue) \in Seq(SoundMessage) /\ InFlight(Tail(queue)) \subseteq InFlight(queue)
    BY <1>1, <1>3, TailProperties
  <2>2. InFlight(queue') \subseteq InFlight(Tail(queue)) \cup out
    BY <1>3, <2>1, EnqueuedProperties DEF Reply
  <2> QED BY <2>1, <2>2
<1> QED BY <1>2, <1>3

\* Messages other than vote responses are no votes.
LEMMA OtherMessagesSent ==
  ASSUME TypeInv, NEW out \in SUBSET SoundMessage, IsFiniteSet(out),
         Send(out) \/ (queue # <<>> /\ Reply(out)),
         \A m \in out : m.type # "VoteResponse"
  PROVE  NoVoteSent
BY SentMessages DEF NoVoteSent

\* Taking the head off the queue puts no vote in flight.
LEMMA NothingSent ==
  ASSUME TypeInv, UNCHANGED queue \/ (queue # <<>> /\ NoReply)
  PROVE  NoVoteSent
BY TailProperties DEF NoVoteSent, NoReply, TypeInv, QueueType

----------------------------------------------------------------------------
(* The actions *)

VoteStep == Final /\ VotesAccounted /\ LeadersElected

\* Steps that change neither terms, votes nor roles, and send at most appends.
LEMMA SameVotesStep ==
  ASSUME TypeInv, VoteInv, NoVoteSent, UNCHANGED <<currentTerm, votedFor, role, votes>>
  PROVE  VoteStep
<1>1. Final
  BY DEF Final, TypeInv, DurableType
<1> QED BY <1>1, QuietStep DEF VoteStep

\* Steps in which a node loses its role and may move to a later term.
LEMMA LoseRoleStep ==
  ASSUME TypeInv, VoteInv, NoVoteSent, NEW i \in Node, LoseRole(i), Final,
         \A c \in Node \ {i} : currentTerm'[c] = currentTerm[c]
  PROVE  VoteStep
<1>1. \A c \in Node : role'[c] # "follower" =>
        role'[c] = role[c] /\ currentTerm'[c] = currentTerm[c] /\ votes'[c] = votes[c]
  BY DEF LoseRole, TypeInv, LeaderType
<1> QED BY <1>1, QuietStep DEF VoteStep

\* A response of a higher term makes its receiver a follower that has not voted.
LEMMA AdoptTermStep ==
  ASSUME TypeInv, VoteInv, queue # <<>>, NEW i \in Node, NEW m \in SoundMessage,
         m.term > currentTerm[i], AdoptTerm(i, m), NoReply
  PROVE  VoteStep
<1>1. m.term \in Nat
  BY DEF SoundMessage, Message
<1>2. Final /\ \A c \in Node \ {i} : currentTerm'[c] = currentTerm[c]
  BY <1>1 DEF Final, AdoptTerm, TypeInv, DurableType
<1> QED BY <1>2, NothingSent, LoseRoleStep DEF AdoptTerm

\* A broadcast of AppendEntries holds no vote.
LEMMA AppendsAreNoVotes ==
  ASSUME NEW i, NEW t, NEW l, NEW next, NEW commit, NEW ctx
  PROVE  \A m \in AppendsToPeers(i, t, l, next, commit, ctx) : m.type # "VoteResponse"
BY DEF AppendsToPeers, AppendMsg

\* A node that times out casts its vote for itself, in a term it never voted in.
LEMMA TimeoutStep ==
  ASSUME TypeInv, VoteInv, NEW i \in Node, Timeout(i)
  PROVE  VoteStep
<1>0. currentTerm[i] \in Nat /\ log[i] \in Seq(Entry) /\ \A c \in Node : currentTerm[c] \in Nat
  BY DEF TypeInv, DurableType
<1>1. /\ role' = [role EXCEPT ![i] = "candidate"]
      /\ currentTerm' = [currentTerm EXCEPT ![i] = currentTerm[i] + 1]
      /\ votedFor' = [votedFor EXCEPT ![i] = i]
      /\ votes' = [votes EXCEPT ![i] = {i}]
  BY DEF Timeout
<1>2. /\ role \in [Node -> {"follower", "candidate", "leader"}] /\ votes \in [Node -> SUBSET Node]
      /\ currentTerm \in [Node -> Nat] /\ votedFor \in [Node -> Node \cup {None}]
  BY DEF TypeInv, LeaderType, DurableType
<1>3. Final
  BY <1>0, <1>1, <1>2 DEF Final
<1>4. LeadersElected
  BY <1>1, <1>2 DEF LeadersElected, VoteInv
<1>5. NoVoteSent
  <2> DEFINE out == {RequestVoteMsg(i, j, currentTerm[i] + 1, log[i]) : j \in Node \ {i}}
  <2>1. currentTerm[i] + 1 \in Nat
    BY <1>0
  <2>2. out \in SUBSET SoundMessage /\ IsFiniteSet(out)
    BY <1>0, <2>1, RequestVotesType
  <2>3. \A m \in out : m.type # "VoteResponse"
    BY DEF RequestVoteMsg
  <2>4. Send(out)
    BY DEF Timeout
  <2> HIDE DEF out
  <2> QED BY <2>2, <2>3, <2>4, OtherMessagesSent
<1>6. ASSUME NEW v \in Node, NEW c \in Node, NEW t \in Nat, Claim(v, t, c)'
      PROVE  Claim(v, t, c) \/ Cast(v, t, c)
  <2>1. CASE SentVote(v, t, c)'
    BY <1>5, <2>1 DEF SentVote, NoVoteSent, Claim
  <2>2. CASE HeldVote(v, t, c)' /\ c # i
    BY <1>1, <1>2, <2>2 DEF HeldVote, Claim
  <2>3. CASE HeldVote(v, t, c)' /\ c = i
    <3>1. v = i /\ t = currentTerm[i] + 1
      BY <1>1, <1>2, <2>3 DEF HeldVote
    <3>2. \A d \in Node : ~VotedIn(v, t, d)
      BY <1>0, <3>1 DEF VotedIn
    <3> QED BY <1>0, <1>1, <1>2, <2>3, <3>1, <3>2 DEF Cast
  <2> QED BY <1>6, <2>1, <2>2, <2>3 DEF Claim
<1> QED BY <1>3, <1>4, <1>6 DEF VoteStep, VotesAccounted

\* A vote is granted by a node that has not voted in the term, or to the same
\* candidate again.
LEMMA RequestVoteStep ==
  ASSUME TypeInv, VoteInv, queue # <<>>, NEW i \in Node, NEW m \in SoundMessage,
         m.type = "RequestVote", HandleRequestVote(i, m)
  PROVE  VoteStep
<1> DEFINE term == Larger(m.term, currentTerm[i])
           voted == IF m.term > currentTerm[i] THEN None ELSE votedFor[i]
           granted == Grants(i, m, voted)
           r == VoteResponseMsg(i, m.src, term, granted)
<1>0. /\ m.src \in Node /\ m.term \in Nat
      /\ role \in [Node -> {"follower", "candidate", "leader"}] /\ votes \in [Node -> SUBSET Node]
      /\ currentTerm \in [Node -> Nat] /\ votedFor \in [Node -> Node \cup {None}]
  BY DEF SoundMessage, Message, TypeInv, LeaderType, DurableType
<1>1. /\ currentTerm' = [currentTerm EXCEPT ![i] = term]
      /\ votedFor' = [votedFor EXCEPT ![i] = IF granted THEN m.src ELSE voted]
      /\ (m.term > currentTerm[i] /\ LoseRole(i)) \/ (m.term <= currentTerm[i] /\ UNCHANGED leaderVars)
      /\ Reply({r})
  BY <1>0 DEF HandleRequestVote
<1>2. /\ term \in Nat /\ granted \in BOOLEAN /\ term >= currentTerm[i]
      /\ m.term > currentTerm[i] => term = m.term
      /\ m.term <= currentTerm[i] => term = currentTerm[i] /\ voted = votedFor[i]
      /\ granted => voted \in {None, m.src} /\ term = m.term
  BY <1>0 DEF Larger, Grants, UpToDate
<1>3. InFlight(queue') \subseteq InFlight(queue) \cup {r}
  <2>1. r \in SoundMessage
    <3> HIDE DEF term, granted
    <3> QED BY <1>0, <1>2, VoteResponseMsgType
  <2>2. {r} \in SUBSET SoundMessage /\ IsFiniteSet({r})
    BY <2>1, FS_Singleton
  <2> HIDE DEF r
  <2> QED BY <1>1, <2>2, SentMessages
<1>4. /\ r.src = i /\ r.dst = m.src /\ r.term = term /\ r.granted = granted
  BY DEF VoteResponseMsg
<1> HIDE DEF term, voted, granted, r
<1>5. Final
  BY <1>0, <1>1, <1>2, RaftAssumption DEF Final
<1>6. \A c \in Node : role'[c] # "follower" =>
        role'[c] = role[c] /\ currentTerm'[c] = currentTerm[c] /\ votes'[c] = votes[c]
  BY <1>0, <1>1, <1>2 DEF LoseRole, leaderVars
<1>7. LeadersElected
  BY <1>6 DEF LeadersElected, VoteInv
<1>8. ASSUME NEW v \in Node, NEW c \in Node, NEW t \in Nat, Claim(v, t, c)'
      PROVE  Claim(v, t, c) \/ Cast(v, t, c)
  <2>1. CASE HeldVote(v, t, c)'
    BY <1>6, <2>1 DEF HeldVote, Claim
  <2>2. CASE SentVote(v, t, c)'
    <3>1. PICK x \in InFlight(queue') :
            x.type = "VoteResponse" /\ x.granted /\ x.src = v /\ x.dst = c /\ x.term = t
      BY <2>2 DEF SentVote
    <3>2. CASE x \in InFlight(queue)
      BY <3>1, <3>2 DEF SentVote, Claim
    <3>3. CASE x = r
      <4>1. v = i /\ c = m.src /\ t = term /\ granted
        BY <1>4, <3>1, <3>3
      <4>2. currentTerm'[v] = t /\ votedFor'[v] = c
        BY <1>0, <1>1, <4>1
      <4>3. ASSUME NEW d \in Node, VotedIn(v, t, d) PROVE d = c
        <5>1. d # None
          BY RaftAssumption
        <5> QED BY <1>0, <1>2, <4>1, <4>3, <5>1 DEF VotedIn
      <4> QED BY <4>2, <4>3 DEF Cast
    <3> QED BY <1>3, <3>1, <3>2, <3>3
  <2> QED BY <1>8, <2>1, <2>2 DEF Claim
<1> QED BY <1>5, <1>7, <1>8 DEF VoteStep, VotesAccounted

\* A candidate counts a vote that was on its way to it.
LEMMA VoteResponseStep ==
  ASSUME TypeInv, VoteInv, queue # <<>>, NEW i \in Node, NEW m \in SoundMessage,
         m = Head(queue), m.dst = i, m.type = "VoteResponse", HandleVoteResponse(i, m)
  PROVE  VoteStep
<1>0. /\ m.src \in Node /\ m.term \in Nat
      /\ role \in [Node -> {"follower", "candidate", "leader"}] /\ votes \in [Node -> SUBSET Node]
      /\ currentTerm \in [Node -> Nat] /\ log \in [Node -> Seq(Entry)]
      /\ commitIndex \in [Node -> Nat]
  BY DEF SoundMessage, Message, TypeInv, LeaderType, DurableType, StoreType
<1>1. CASE m.term > currentTerm[i] /\ AdoptTerm(i, m) /\ NoReply
  BY <1>1, AdoptTermStep
<1>2. CASE UNCHANGED <<durableVars, leaderVars>> /\ NoReply
  BY <1>2, NothingSent, SameVotesStep DEF durableVars, leaderVars
<1>3. CASE /\ m.term = currentTerm[i] /\ role[i] = "candidate" /\ m.granted
           /\ votes' = [votes EXCEPT ![i] = votes[i] \cup {m.src}]
           /\ UNCHANGED <<currentTerm, votedFor, readAcks>>
           /\ \/ IsQuorum(votes[i] \cup {m.src}) /\ BecomeLeader(i)
              \/ UNCHANGED <<role, nextIndex, matchIndex, log>> /\ NoReply
  <2>1. Final
    BY <1>0, <1>3 DEF Final
  <2>2. \/ role' = [role EXCEPT ![i] = "leader"] /\ IsQuorum(votes[i] \cup {m.src})
        \/ role' = role
    BY <1>3 DEF BecomeLeader
  <2>3. LeadersElected
    BY <1>0, <1>3, <2>2 DEF LeadersElected, VoteInv
  <2>4. NoVoteSent
    <3>1. CASE NoReply
      BY <3>1, NothingSent
    <3>2. CASE BecomeLeader(i)
      <4> DEFINE last == Len(log[i])
                 l == Append(log[i], NoOp(currentTerm[i]))
                 next == [j \in Node |-> last + 1]
                 out == AppendsToPeers(i, currentTerm[i], l, next, commitIndex[i], 0)
      <4>1. last \in Nat /\ l \in Seq(Entry)
        <5>1. NoOp(currentTerm[i]) \in Entry
          BY <1>0 DEF NoOp, Entry
        <5> QED BY <1>0, <5>1, AppendProperties, LenProperties
      <4>2. next \in [Node -> Nat] /\ \A j \in Node : next[j] >= 1
        BY <4>1
      <4>3. Reply(out)
        BY <3>2 DEF BecomeLeader, FreshNext
      <4> HIDE DEF l, next
      <4>4. out \in SUBSET SoundMessage /\ IsFiniteSet(out)
        BY <1>0, <4>1, <4>2, AppendsToPeersType
      <4>5. \A x \in out : x.type # "VoteResponse"
        BY AppendsAreNoVotes
      <4> HIDE DEF out
      <4> QED BY <4>3, <4>4, <4>5, OtherMessagesSent
    <3> QED BY <1>3, <3>1, <3>2
  <2>5. m \in InFlight(queue)
    BY TailProperties DEF TypeInv, QueueType
  <2>6. ASSUME NEW v \in Node, NEW c \in Node, NEW t \in Nat, Claim(v, t, c)'
        PROVE  Claim(v, t, c)
    <3>1. CASE SentVote(v, t, c)'
      BY <2>4, <3>1 DEF SentVote, NoVoteSent, Claim
    <3>2. CASE HeldVote(v, t, c)' /\ c # i
      BY <1>0, <1>3, <2>2, <3>2 DEF HeldVote, Claim
    <3>3. CASE HeldVote(v, t, c)' /\ c = i /\ v \in votes[i]
      BY <1>0, <1>3, <3>3 DEF HeldVote, Claim
    <3>4. CASE HeldVote(v, t, c)' /\ c = i /\ v = m.src
      <4>1. SentVote(v, t, c)
        BY <1>0, <1>3, <2>5, <3>4 DEF HeldVote, SentVote
      <4> QED BY <4>1 DEF Claim
    <3> QED BY <1>0, <1>3, <2>6, <3>1, <3>2, <3>3, <3>4 DEF Claim, HeldVote
  <2> QED BY <2>1, <2>3, <2>6 DEF VoteStep, VotesAccounted
<1> QED BY <1>1, <1>2, <1>3 DEF HandleVoteResponse

\* _receive_append_entries keeps VoteInv: it answers with no vote, and may only move on to a later term.
LEMMA AppendStep ==
  ASSUME TypeInv, VoteInv, queue # <<>>, NEW i \in Node, NEW m \in SoundMessage,
         m.type = "Append", HandleAppend(i, m), QueueType'
  PROVE  VoteStep
<1>0. /\ m.term \in Nat /\ currentTerm \in [Node -> Nat]
      /\ votedFor \in [Node -> Node \cup {None}]
      /\ role \in [Node -> {"follower", "candidate", "leader"}] /\ votes \in [Node -> SUBSET Node]
  BY DEF SoundMessage, Message, TypeInv, DurableType, LeaderType
<1>1. PICK t, b, match, conflict :
        Reply({AppendResponseMsg(i, m.src, t, b, match, conflict, m.ctx)})
  BY DEF HandleAppend
<1>2. NoVoteSent
  <2> DEFINE r == AppendResponseMsg(i, m.src, t, b, match, conflict, m.ctx)
  <2>1. r.type # "VoteResponse"
    BY DEF AppendResponseMsg
  <2>2. Tail(queue) \in Seq(SoundMessage) /\ InFlight(Tail(queue)) \subseteq InFlight(queue)
    BY TailProperties DEF TypeInv, QueueType
  <2>3. Tail(queue) \in Seq(SoundMessage \cup {r}) /\ {r} \in SUBSET (SoundMessage \cup {r})
        /\ IsFiniteSet({r})
    BY <2>2, SeqMonotonic, FS_Singleton
  <2>4. InFlight(queue') \subseteq InFlight(Tail(queue)) \cup {r}
    <3> HIDE DEF r
    <3>1. queue' \in Enqueued(Tail(queue), {r}, cut)
      BY <1>1 DEF Reply, r
    <3> QED BY <2>3, <3>1, EnqueuedProperties
  <2> HIDE DEF r
  <2> QED BY <2>1, <2>2, <2>4 DEF NoVoteSent
<1>3. CASE m.term < currentTerm[i]
  <2>1. UNCHANGED <<currentTerm, votedFor, role, votes>>
    BY <1>0, <1>3 DEF HandleAppend, durableVars, leaderVars
  <2> QED BY <1>2, <2>1, SameVotesStep
<1>4. CASE m.term >= currentTerm[i]
  <2>1. /\ currentTerm' = [currentTerm EXCEPT ![i] = m.term]
        /\ votedFor' = IF m.term > currentTerm[i]
                       THEN [votedFor EXCEPT ![i] = None] ELSE votedFor
        /\ \/ LoseRole(i)
           \/ m.term = currentTerm[i] /\ UNCHANGED leaderVars
    BY <1>0, <1>4 DEF HandleAppend
  <2>2. Final /\ \A c \in Node \ {i} : currentTerm'[c] = currentTerm[c]
    BY <1>0, <1>4, <2>1 DEF Final
  <2>3. CASE LoseRole(i)
    BY <1>2, <2>2, <2>3, LoseRoleStep
  <2>4. CASE m.term = currentTerm[i] /\ UNCHANGED leaderVars
    <3>1. UNCHANGED <<currentTerm, votedFor, role, votes>>
      BY <1>0, <2>1, <2>4 DEF leaderVars
    <3> QED BY <1>2, <3>1, SameVotesStep
  <2> QED BY <2>1, <2>3, <2>4
<1> QED BY <1>0, <1>3, <1>4

\* _receive_append_response keeps VoteInv: what it sends are appends.
LEMMA AppendResponseStep ==
  ASSUME TypeInv, VoteInv, queue # <<>>, NEW i \in Node, NEW m \in SoundMessage,
         m.type = "AppendResponse", HandleAppendResponse(i, m)
  PROVE  VoteStep
<1> DEFINE match == [matchIndex[i] EXCEPT ![m.src] = Larger(@, m.match)]
           next  == [nextIndex[i] EXCEPT ![m.src] = match[m.src] + 1]
           retry == [nextIndex[i] EXCEPT ![m.src] = Larger(1, m.conflict)]
<1>0. /\ m.src \in Node /\ m.term \in Nat /\ m.match \in Nat /\ m.conflict \in Nat
      /\ m.ctx \in Nat /\ currentTerm[i] \in Nat /\ log[i] \in Seq(Entry)
      /\ commitIndex[i] \in Nat /\ Len(log[i]) \in Nat
      /\ matchIndex[i] \in [Node -> Nat] /\ nextIndex[i] \in [Node -> Nat]
      /\ role[i] = "leader" => \A j \in Node : nextIndex[i][j] >= 1
  BY LenProperties
  DEF SoundMessage, Message, TypeInv, LeaderType, DurableType, StoreType
<1>1. CASE m.term > currentTerm[i] /\ AdoptTerm(i, m) /\ NoReply
  BY <1>1, AdoptTermStep
<1>2. CASE NoReply /\ UNCHANGED <<durableVars, leaderVars>>
  BY <1>2, NothingSent, SameVotesStep DEF durableVars, leaderVars
<1>3. CASE /\ role[i] = "leader"
           /\ Reply({AppendMsg(i, m.src, currentTerm[i], log[i], retry[m.src],
                               commitIndex[i], m.ctx)})
           /\ UNCHANGED <<durableVars, role, votes>>
  <2> DEFINE r == AppendMsg(i, m.src, currentTerm[i], log[i], retry[m.src], commitIndex[i], m.ctx)
  <2>1. retry[m.src] \in Nat /\ retry[m.src] >= 1
    BY <1>0 DEF Larger
  <2> HIDE DEF retry
  <2>2. r \in SoundMessage
    BY <1>0, <2>1, AppendMsgType
  <2>3. r.type # "VoteResponse"
    BY DEF AppendMsg
  <2>4. {r} \in SUBSET SoundMessage /\ IsFiniteSet({r}) /\ Reply({r})
    BY <1>3, <2>2, FS_Singleton
  <2> HIDE DEF r
  <2>5. NoVoteSent
    BY <2>3, <2>4, OtherMessagesSent
  <2> QED BY <1>3, <2>5, SameVotesStep DEF durableVars
<1>4. CASE /\ role[i] = "leader"
           /\ AdvanceCommit(i, match, next)
           /\ UNCHANGED <<durableVars, role, votes>>
  <2>1. match \in [Node -> Nat]
    BY <1>0 DEF Larger
  <2>2. next \in [Node -> Nat] /\ \A j \in Node : next[j] >= 1
    <3> HIDE DEF match
    <3>1. match[m.src] + 1 \in Nat /\ match[m.src] + 1 >= 1
      BY <1>0, <2>1
    <3> QED BY <1>0, <1>4, <3>1
  <2> HIDE DEF match, next
  <2>3. NoVoteSent
    <3>1. CASE NoReply
      BY <3>1, NothingSent
    <3>2. ASSUME NEW c \in Committable(i, match),
                 Reply(AppendsToPeers(i, currentTerm[i], log[i], next, c, 0))
          PROVE  NoVoteSent
      <4> DEFINE out == AppendsToPeers(i, currentTerm[i], log[i], next, c, 0)
      <4>1. c \in Nat
        BY <1>0 DEF Committable
      <4>2. out \in SUBSET SoundMessage /\ IsFiniteSet(out)
        BY <1>0, <2>2, <4>1, AppendsToPeersType
      <4>3. \A x \in out : x.type # "VoteResponse"
        BY AppendsAreNoVotes
      <4> HIDE DEF out
      <4> QED BY <3>2, <4>2, <4>3, OtherMessagesSent DEF out
    <3> QED BY <1>4, <3>1, <3>2 DEF AdvanceCommit
  <2> QED BY <1>4, <2>3, SameVotesStep DEF durableVars
<1> HIDE DEF match, next, retry
<1> QED BY <1>1, <1>2, <1>3, <1>4 DEF HandleAppendResponse, match, next, retry

\* Whichever handler the head of the queue goes to, VoteInv is kept.
LEMMA DeliverStep ==
  ASSUME TypeInv, VoteInv, Deliver, TypeInv'
  PROVE  VoteStep
<1> DEFINE m == Head(queue)
<1>1. queue # <<>> /\ m \in SoundMessage /\ QueueType'
  BY TailProperties DEF Deliver, TypeInv, QueueType
<1>2. m.dst \in Node
  BY <1>1 DEF SoundMessage, Message
<1>3. m = Head(queue)
  OBVIOUS
<1> HIDE DEF m
<1>4. \/ m.type = "RequestVote" /\ HandleRequestVote(m.dst, m)
      \/ m.type = "VoteResponse" /\ HandleVoteResponse(m.dst, m)
      \/ m.type = "Append" /\ HandleAppend(m.dst, m)
      \/ m.type = "AppendResponse" /\ HandleAppendResponse(m.dst, m)
  BY DEF Deliver, m
<1> QED BY <1>1, <1>2, <1>3, <1>4, RequestVoteStep, VoteResponseStep, AppendStep, AppendResponseStep

\* A leader's broadcast outside a handler: heartbeat, client write, read round.
LEMMA BroadcastStep ==
  ASSUME TypeInv, VoteInv, NEW i \in Node,
         \/ Heartbeat(i) \/ ReadStart(i)
         \/ \E k \in Key, v \in Value : ClientWrite(i, k, v)
  PROVE  VoteStep
<1>1. UNCHANGED <<currentTerm, votedFor, role, votes>>
  BY DEF Heartbeat, ReadStart, ClientWrite, durableVars, leaderVars
<1>2. PICK l \in Seq(Entry), ctx \in Nat :
        Send(AppendsToPeers(i, currentTerm[i], l, nextIndex[i], commitIndex[i], ctx))
  <2>1. CASE Heartbeat(i)
    BY <2>1 DEF Heartbeat, TypeInv, DurableType
  <2>2. CASE ReadStart(i)
    BY <2>2 DEF ReadStart, TypeInv, DurableType, OtherType
  <2>3. ASSUME NEW k \in Key, NEW v \in Value, ClientWrite(i, k, v)
        PROVE  \E l \in Seq(Entry), ctx \in Nat :
                 Send(AppendsToPeers(i, currentTerm[i], l, nextIndex[i], commitIndex[i], ctx))
    <3> DEFINE e == [term |-> currentTerm[i], key |-> k, value |-> v]
    <3>1. e \in Entry /\ log[i] \in Seq(Entry)
      BY DEF Entry, TypeInv, DurableType
    <3>2. Append(log[i], e) \in Seq(Entry)
      <4> HIDE DEF e
      <4> QED BY <3>1, AppendProperties
    <3> QED BY <2>3, <3>2 DEF ClientWrite
  <2> QED BY <2>1, <2>2, <2>3
<1>3. /\ currentTerm[i] \in Nat /\ commitIndex[i] \in Nat
      /\ nextIndex[i] \in [Node -> Nat] /\ \A j \in Node : nextIndex[i][j] >= 1
  BY DEF TypeInv, DurableType, StoreType, LeaderType, Heartbeat, ReadStart, ClientWrite,
     IsCurrentLeader
<1> DEFINE out == AppendsToPeers(i, currentTerm[i], l, nextIndex[i], commitIndex[i], ctx)
<1>4. out \in SUBSET SoundMessage /\ IsFiniteSet(out)
  BY <1>2, <1>3, AppendsToPeersType
<1>5. \A x \in out : x.type # "VoteResponse"
  BY AppendsAreNoVotes
<1>6. Send(out)
  BY <1>2
<1> HIDE DEF out
<1>7. NoVoteSent
  BY <1>4, <1>5, <1>6, OtherMessagesSent
<1> QED BY <1>1, <1>7, SameVotesStep

\* Everything else leaves terms and votes on disk alone.
LEMMA OtherStep ==
  ASSUME TypeInv, VoteInv,
         \/ Discard \/ WriteAccepted \/ WriteUnknown \/ ReadAnswered \/ ReadFailed
         \/ \E i \in Node : Crash(i) \/ Restart(i) \/ Isolate(i) \/ Heal(i)
         \/ UNCHANGED vars
  PROVE  VoteStep
<1>1. NoVoteSent
  BY NothingSent DEF Discard, WriteAccepted, WriteUnknown, ReadAnswered, ReadFailed, ReadEnd,
     Crash, Restart, Isolate, Heal, vars
<1>2. ASSUME NEW i \in Node, Crash(i) PROVE VoteStep
  <2>1. Final /\ UNCHANGED currentTerm
    BY <1>2 DEF Final, Crash, durableVars, TypeInv, DurableType
  <2>2. LoseRole(i)
    BY <1>2 DEF Crash
  <2> QED BY <1>1, <2>1, <2>2, LoseRoleStep
<1>3. CASE UNCHANGED <<currentTerm, votedFor, role, votes>>
  BY <1>1, <1>3, SameVotesStep
<1> QED BY <1>2, <1>3 DEF Discard, WriteAccepted, WriteUnknown, ReadAnswered, ReadFailed, ReadEnd,
     Restart, Isolate, Heal, vars, durableVars, leaderVars

\* Every step of the group keeps VoteInv.
LEMMA NextStep ==
  ASSUME TypeInv, VoteInv, [Next]_vars
  PROVE  TypeInv' /\ VoteStep
<1>1. TypeInv'
  BY TypeInvStep
<1>2. VoteStep
  BY <1>1, TimeoutStep, BroadcastStep, DeliverStep, OtherStep DEF Next
<1> QED BY <1>1, <1>2

----------------------------------------------------------------------------
\* No vote is held or on its way at the start.
LEMMA VoteInvInit == Init => VoteInv
<1> SUFFICES ASSUME Init PROVE VoteInv
  OBVIOUS
<1>1. InFlight(queue) = {}
  BY DEF Init, InFlight
<1>2. \A c \in Node : role[c] = "follower"
  BY DEF Init
<1> QED BY <1>1, <1>2 DEF VoteInv, Claim, HeldVote, SentVote

\* TypeInv and VoteInv hold throughout every behaviour.
LEMMA VotesInvariant == Spec => [](TypeInv /\ VoteInv)
<1>1. TypeInv /\ VoteInv /\ [Next]_vars => (TypeInv /\ VoteInv)'
  BY NextStep, VoteInvKept DEF VoteStep
<1> QED BY <1>1, TypeInvInit, VoteInvInit, PTL DEF Spec

\* At most one leader per term, for every number of nodes: a majority of votes
\* is needed, votes survive crashes, and no grant is counted that the voter's
\* disk does not remember.
THEOREM ElectionSafetyHolds == Spec => []ElectionSafety
<1>1. TypeInv /\ VoteInv => ElectionSafety
  BY VoteInvImpliesElectionSafety
<1> QED BY <1>1, VotesInvariant, PTL

\* Terms only grow and a vote, once given in a term, stays: through step-downs,
\* crashes and restarts.
THEOREM VotesAreFinalHolds == Spec => VotesAreFinal
<1>1. TypeInv /\ VoteInv /\ [Next]_vars =>
        [\A i \in Node :
           /\ currentTerm'[i] >= currentTerm[i]
           /\ currentTerm'[i] = currentTerm[i] /\ votedFor[i] # None => votedFor'[i] = votedFor[i]]_vars
  BY NextStep DEF VoteStep, Final
<1> QED BY <1>1, VotesInvariant, PTL DEF Spec, VotesAreFinal

----------------------------------------------------------------------------
(* What a step may do *)

Appends == {m \in InFlight(queue) : m.type = "Append"}
Acks == {m \in InFlight(queue) : m.type = "AppendResponse" /\ m.success}

\* A leader, old or new, puts one entry of its term at the end of its log.
Grew(i) ==
  /\ role'[i] = "leader" /\ currentTerm'[i] = currentTerm[i]
  /\ \E e \in Entry : e.term = currentTerm[i] /\ log'[i] = Append(log[i], e)

\* Node i follows the sender of m and takes over its entries.
Follows(i, m) ==
  /\ m \in Appends /\ m.dst = i /\ m.term >= currentTerm[i] /\ HasPrevious(log[i], m)
  /\ currentTerm'[i] = m.term /\ role'[i] = "follower"
  /\ log'[i] = Merge(log[i], m.prevIndex, m.entries)

LogsStep ==
  \A i \in Node : log'[i] = log[i] \/ Grew(i) \/ \E m \in Appends : Follows(i, m)

\* Leaders come from candidates, candidates from a timeout into the next term.
RolesStep ==
  \A i \in Node :
    /\ role'[i] = "leader" =>
         \/ role[i] = "leader" /\ currentTerm'[i] = currentTerm[i] /\ log'[i] = log[i]
         \/ role[i] \in {"leader", "candidate"} /\ Grew(i)
    /\ role'[i] = "candidate" =>
         /\ log'[i] = log[i]
         /\ \/ role[i] = "candidate" /\ currentTerm'[i] = currentTerm[i]
            \/ currentTerm'[i] = currentTerm[i] + 1

\* What the match index of a leader for v is after the step.
MatchStep ==
  \A i, v \in Node : role'[i] = "leader" =>
    \/ role[i] = "leader" /\ matchIndex'[i][v] = matchIndex[i][v] /\ (v = i => log'[i] = log[i])
    \/ v = i /\ matchIndex'[i][v] = Len(log'[i])
    \/ v # i /\ matchIndex'[i][v] = 0
    \/ /\ role[i] = "leader" /\ log'[i] = log[i]
       /\ \E m \in Acks : /\ m.src = v /\ m.dst = i /\ m.term = currentTerm[i]
                          /\ matchIndex'[i][v] = m.match

\* What each kind of message says of its sender when it is sent.
FreshAppend(m) ==
  /\ role'[m.src] = "leader"
  /\ \E next, ctx \in Nat :
       /\ next >= 1
       /\ m = AppendMsg(m.src, m.dst, currentTerm'[m.src], log'[m.src], next,
                        commitIndex'[m.src], ctx)

FreshRequest(m) ==
  /\ role'[m.src] = "candidate" /\ m.term = currentTerm'[m.src]
  /\ m.lastIndex = Len(log'[m.src]) /\ m.lastTerm = LastTerm(log'[m.src])

FreshGrant(m) ==
  /\ m.term = currentTerm'[m.src]
  /\ \E r \in InFlight(queue) :
       /\ r.type = "RequestVote" /\ r.src = m.dst /\ r.dst = m.src /\ r.term = m.term
       /\ UpToDate(r, log[m.src])

FreshAck(m) ==
  \E a \in Appends :
    /\ Follows(m.src, a) /\ a.src = m.dst /\ a.term = m.term
    /\ m.match = a.prevIndex + Len(a.entries)

Fresh(m) ==
  /\ m.src # m.dst
  /\ m.type = "Append" => FreshAppend(m)
  /\ m.type = "RequestVote" => FreshRequest(m)
  /\ m.type = "VoteResponse" /\ m.granted => FreshGrant(m)
  /\ m.type = "AppendResponse" /\ m.success => FreshAck(m)

MessagesStep == \A m \in InFlight(queue') : m \in InFlight(queue) \/ Fresh(m)

\* A leader commits up to c, an entry of its own term on a quorum.
Commits(i, c) ==
  /\ role[i] = "leader" /\ role'[i] = "leader" /\ currentTerm'[i] = currentTerm[i]
  /\ log'[i] = log[i]
  /\ c \in commitIndex[i]+1..Len(log[i]) /\ log[i][c].term = currentTerm[i]
  /\ IsQuorum({j \in Node : matchIndex'[i][j] >= c})
  /\ Choose(i, c)

\* Only one node's store moves, by a commit, a follower's commit or a crash.
StoreStep ==
  \E i \in Node :
    /\ commitIndex' = [commitIndex EXCEPT ![i] = commitIndex'[i]]
    /\ data' = [data EXCEPT ![i] = data'[i]]
    /\ \/ UNCHANGED <<commitIndex, data, chosen>>
       \/ commitIndex'[i] = 0 /\ data'[i] = EmptyStore /\ UNCHANGED chosen
       \/ /\ data'[i] = Replay(data[i], log'[i], commitIndex[i], commitIndex'[i])
          /\ \/ Commits(i, commitIndex'[i])
             \/ /\ UNCHANGED chosen
                /\ \E m \in Appends :
                     /\ Follows(i, m)
                     /\ commitIndex'[i] = FollowerCommit(commitIndex[i], log'[i], m)

\* No node sends a message to itself.
PeersInv == \A m \in InFlight(queue) : m.src # m.dst

Summary == LogsStep /\ RolesStep /\ MatchStep /\ MessagesStep /\ StoreStep


\* Messages of the two kinds of send are fresh if the ones sent are.
LEMMA SentFresh ==
  ASSUME TypeInv, NEW out \in SUBSET SoundMessage, IsFiniteSet(out),
         Send(out) \/ (queue # <<>> /\ Reply(out)),
         \A m \in out : Fresh(m)
  PROVE  MessagesStep
BY SentMessages DEF MessagesStep

\* One reply is fresh if its message is.
LEMMA RepliedFresh ==
  ASSUME TypeInv, NEW m \in SoundMessage, queue # <<>>, Reply({m}), Fresh(m)
  PROVE  MessagesStep
<1>1. {m} \in SUBSET SoundMessage /\ IsFiniteSet({m})
  BY FS_Singleton
<1> QED BY <1>1, SentFresh

\* Nothing is sent.
LEMMA NothingFresh ==
  ASSUME TypeInv, UNCHANGED queue \/ (queue # <<>> /\ NoReply)
  PROVE  MessagesStep
BY TailProperties DEF MessagesStep, NoReply, TypeInv, QueueType

\* A leader's broadcast, after its log, term and commit index have been set.
LEMMA BroadcastFresh ==
  ASSUME NEW i \in Node, role'[i] = "leader", NEW next \in [Node -> Nat],
         \A j \in Node : next[j] >= 1, NEW ctx \in Nat
  PROVE  \A m \in AppendsToPeers(i, currentTerm'[i], log'[i], next, commitIndex'[i], ctx) :
           Fresh(m)
<1> SUFFICES ASSUME NEW j \in Node \ {i}
             PROVE  Fresh(AppendMsg(i, j, currentTerm'[i], log'[i], next[j], commitIndex'[i], ctx))
  BY DEF AppendsToPeers
<1> DEFINE m == AppendMsg(i, j, currentTerm'[i], log'[i], next[j], commitIndex'[i], ctx)
<1>1. m.type = "Append" /\ m.src = i /\ m.dst = j
  BY DEF AppendMsg
<1>2. next[j] \in Nat /\ next[j] >= 1
  OBVIOUS
<1>3. m = AppendMsg(m.src, m.dst, currentTerm'[m.src], log'[m.src], next[j],
                    commitIndex'[m.src], ctx)
  BY <1>1
<1> HIDE DEF m
<1>4. FreshAppend(m)
  BY <1>1, <1>2, <1>3 DEF FreshAppend
<1> QED BY <1>1, <1>4 DEF Fresh, m

\* A step that leaves terms, logs, roles and stores alone.
LEMMA SameSummary ==
  ASSUME TypeInv, MessagesStep,
         UNCHANGED <<currentTerm, log, role, matchIndex, commitIndex, data, chosen>>
  PROVE  Summary
<1>1. LogsStep /\ RolesStep /\ MatchStep
  BY DEF LogsStep, RolesStep, MatchStep
<1>2. StoreStep
  <2>1. PICK i \in Node : TRUE
    BY RaftAssumption DEF Node
  <2>2. /\ commitIndex = [commitIndex EXCEPT ![i] = commitIndex[i]]
        /\ data = [data EXCEPT ![i] = data[i]]
    BY DEF TypeInv, StoreType
  <2> QED BY <2>1, <2>2 DEF StoreStep
<1> QED BY <1>1, <1>2 DEF Summary

\* Stores that stay as they are.
LEMMA SameStores ==
  ASSUME TypeInv, UNCHANGED <<commitIndex, data, chosen>>
  PROVE  StoreStep
<1>1. PICK i \in Node : TRUE
  BY RaftAssumption DEF Node
<1>2. /\ commitIndex = [commitIndex EXCEPT ![i] = commitIndex[i]]
      /\ data = [data EXCEPT ![i] = data[i]]
  BY DEF TypeInv, StoreType
<1> QED BY <1>1, <1>2 DEF StoreStep

\* A node that loses its role and keeps its log.
LEMMA LoseRoleSummary ==
  ASSUME TypeInv, MessagesStep, StoreStep, NEW i \in Node, LoseRole(i), UNCHANGED log,
         \A j \in Node \ {i} : currentTerm'[j] = currentTerm[j]
  PROVE  Summary
<1>1. /\ \A j \in Node \ {i} : role'[j] = role[j] /\ matchIndex'[j] = matchIndex[j]
      /\ role'[i] = "follower"
  BY DEF LoseRole, TypeInv, LeaderType
<1>2. LogsStep /\ RolesStep /\ MatchStep
  BY <1>1 DEF LogsStep, RolesStep, MatchStep
<1> QED BY <1>2 DEF Summary

\* _start_election: the requests carry the candidate's log.
LEMMA TimeoutSummary ==
  ASSUME TypeInv, NEW i \in Node, Timeout(i)
  PROVE  Summary
<1>0. /\ currentTerm \in [Node -> Nat] /\ log \in [Node -> Seq(Entry)]
      /\ role \in [Node -> {"follower", "candidate", "leader"}]
  BY DEF TypeInv, DurableType, LeaderType
<1>1. /\ role' = [role EXCEPT ![i] = "candidate"]
      /\ currentTerm' = [currentTerm EXCEPT ![i] = currentTerm[i] + 1]
      /\ UNCHANGED <<log, matchIndex, commitIndex, data, chosen>>
  BY DEF Timeout, stateVars
<1>2. LogsStep /\ RolesStep /\ MatchStep
  BY <1>0, <1>1 DEF LogsStep, RolesStep, MatchStep
<1>3. StoreStep
  BY <1>1, SameStores
<1>4. MessagesStep
  <2> DEFINE out == {RequestVoteMsg(i, j, currentTerm[i] + 1, log[i]) : j \in Node \ {i}}
  <2>1. currentTerm[i] + 1 \in Nat /\ log[i] \in Seq(Entry)
    BY <1>0
  <2>2. out \in SUBSET SoundMessage /\ IsFiniteSet(out)
    BY <2>1, RequestVotesType
  <2>3. \A m \in out : Fresh(m)
    BY <1>0, <1>1 DEF RequestVoteMsg, Fresh, FreshRequest
  <2>4. Send(out)
    BY DEF Timeout
  <2> HIDE DEF out
  <2> QED BY <2>2, <2>3, <2>4, SentFresh
<1> QED BY <1>2, <1>3, <1>4 DEF Summary

\* A broadcast by a leader that does nothing else.
LEMMA BroadcastSummary ==
  ASSUME TypeInv, NEW i \in Node, Heartbeat(i) \/ ReadStart(i)
  PROVE  Summary
<1>1. PICK ctx \in Nat :
        Send(AppendsToPeers(i, currentTerm[i], log[i], nextIndex[i], commitIndex[i], ctx))
  BY DEF Heartbeat, ReadStart, TypeInv, OtherType
<1>2. /\ UNCHANGED <<currentTerm, log, role, matchIndex, commitIndex, data, chosen>>
      /\ role[i] = "leader"
  BY DEF Heartbeat, ReadStart, IsCurrentLeader, durableVars, leaderVars, stateVars
<1>3. /\ currentTerm[i] \in Nat /\ log[i] \in Seq(Entry) /\ commitIndex[i] \in Nat
      /\ nextIndex[i] \in [Node -> Nat] /\ \A j \in Node : nextIndex[i][j] >= 1
  BY <1>2 DEF TypeInv, DurableType, LeaderType, StoreType
<1> DEFINE out == AppendsToPeers(i, currentTerm[i], log[i], nextIndex[i], commitIndex[i], ctx)
<1>4. out \in SUBSET SoundMessage /\ IsFiniteSet(out)
  BY <1>1, <1>3, AppendsToPeersType
<1>5. /\ out = AppendsToPeers(i, currentTerm'[i], log'[i], nextIndex[i], commitIndex'[i], ctx)
      /\ role'[i] = "leader"
  BY <1>2
<1>6. \A m \in out : Fresh(m)
  BY <1>3, <1>5, BroadcastFresh
<1> HIDE DEF out
<1>7. MessagesStep
  BY <1>1, <1>4, <1>6, SentFresh DEF out
<1> QED BY <1>2, <1>7, SameSummary

\* client_write appends an entry of the leader's term and broadcasts.
LEMMA ClientWriteSummary ==
  ASSUME TypeInv, NEW i \in Node, NEW k \in Key, NEW v \in Value, ClientWrite(i, k, v)
  PROVE  Summary
<1> DEFINE e == [term |-> currentTerm[i], key |-> k, value |-> v]
           l == Append(log[i], e)
<1>0. /\ currentTerm \in [Node -> Nat] /\ log \in [Node -> Seq(Entry)]
      /\ commitIndex \in [Node -> Nat] /\ matchIndex \in [Node -> [Node -> Nat]]
      /\ nextIndex \in [Node -> [Node -> Nat]]
  BY DEF TypeInv, DurableType, LeaderType, StoreType
<1>1. /\ log' = [log EXCEPT ![i] = l] /\ role[i] = "leader"
      /\ matchIndex' = [matchIndex EXCEPT ![i][i] = Len(l)]
      /\ UNCHANGED <<currentTerm, role, commitIndex, data, chosen>>
      /\ Send(AppendsToPeers(i, currentTerm[i], l, nextIndex[i], commitIndex[i], 0))
  BY DEF ClientWrite, IsCurrentLeader, stateVars
<1>2. e \in Entry /\ e.term = currentTerm[i]
  BY <1>0 DEF Entry
<1>3. l \in Seq(Entry) /\ log'[i] = l /\ role'[i] = "leader"
  <2> HIDE DEF e
  <2> QED BY <1>0, <1>1, <1>2, AppendProperties
<1>4. Grew(i) /\ \A j \in Node \ {i} : log'[j] = log[j]
  BY <1>0, <1>1, <1>2 DEF Grew
<1> HIDE DEF e, l
<1>5. LogsStep /\ RolesStep
  BY <1>1, <1>4 DEF LogsStep, RolesStep
<1>6. MatchStep
  <2> SUFFICES ASSUME NEW m \in Node, NEW p \in Node
               PROVE  \/ /\ role'[m] = role[m] /\ matchIndex'[m][p] = matchIndex[m][p]
                         /\ p = m => log'[m] = log[m]
                      \/ p = m /\ matchIndex'[m][p] = Len(log'[m])
    BY <1>1 DEF MatchStep
  <2>1. CASE m = i /\ p = i
    BY <1>0, <1>1, <1>3, <2>1
  <2>2. CASE m = i /\ p # i
    BY <1>0, <1>1, <2>2
  <2>3. CASE m # i
    BY <1>0, <1>1, <1>4, <2>3
  <2> QED BY <2>1, <2>2, <2>3
<1>7. StoreStep
  BY <1>1, SameStores
<1>8. MessagesStep
  <2> DEFINE out == AppendsToPeers(i, currentTerm[i], l, nextIndex[i], commitIndex[i], 0)
  <2>1. /\ currentTerm[i] \in Nat /\ commitIndex[i] \in Nat /\ nextIndex[i] \in [Node -> Nat]
        /\ \A j \in Node : nextIndex[i][j] >= 1
    BY <1>0, <1>1 DEF TypeInv, LeaderType
  <2>2. out \in SUBSET SoundMessage /\ IsFiniteSet(out)
    BY <1>3, <2>1, AppendsToPeersType
  <2>3. out = AppendsToPeers(i, currentTerm'[i], log'[i], nextIndex[i], commitIndex'[i], 0)
    BY <1>1, <1>3
  <2>4. \A m \in out : Fresh(m)
    BY <1>3, <2>1, <2>3, BroadcastFresh
  <2>5. Send(out)
    BY <1>1
  <2> HIDE DEF out
  <2> QED BY <2>2, <2>4, <2>5, SentFresh
<1> QED BY <1>5, <1>6, <1>7, <1>8 DEF Summary

\* _receive_request_vote touches no log, and grants only to an up-to-date one.
LEMMA RequestVoteSummary ==
  ASSUME TypeInv, PeersInv, queue # <<>>, NEW i \in Node, NEW m \in SoundMessage, m = Head(queue),
         m.dst = i, m.type = "RequestVote", HandleRequestVote(i, m)
  PROVE  Summary
<1> DEFINE term == Larger(m.term, currentTerm[i])
           voted == IF m.term > currentTerm[i] THEN None ELSE votedFor[i]
           granted == Grants(i, m, voted)
           r == VoteResponseMsg(i, m.src, term, granted)
<1>0. /\ m.src \in Node /\ m.term \in Nat /\ currentTerm \in [Node -> Nat]
      /\ m \in InFlight(queue) /\ m.src # i
  BY TailProperties DEF SoundMessage, Message, TypeInv, DurableType, QueueType, PeersInv
<1>1. /\ currentTerm' = [currentTerm EXCEPT ![i] = term]
      /\ (m.term > currentTerm[i] /\ LoseRole(i)) \/ (m.term <= currentTerm[i] /\ UNCHANGED leaderVars)
      /\ Reply({r}) /\ UNCHANGED <<log, commitIndex, data, chosen>>
  BY <1>0 DEF HandleRequestVote, stateVars
<1>2. /\ term \in Nat /\ granted \in BOOLEAN
      /\ m.term <= currentTerm[i] => term = currentTerm[i]
      /\ granted => term = m.term /\ UpToDate(m, log[i])
  BY <1>0 DEF Larger, Grants, UpToDate
<1>3. r \in SoundMessage
  <2> HIDE DEF term, granted
  <2> QED BY <1>0, <1>2, VoteResponseMsgType
<1>4. /\ r.type = "VoteResponse" /\ r.src = i /\ r.dst = m.src /\ r.term = term
      /\ r.granted = granted
  BY DEF VoteResponseMsg
<1> HIDE DEF term, voted, granted, r
<1>5. Fresh(r)
  BY <1>0, <1>1, <1>2, <1>4 DEF Fresh, FreshGrant
<1>6. MessagesStep
  BY <1>1, <1>3, <1>5, RepliedFresh
<1>7. CASE LoseRole(i)
  BY <1>0, <1>1, <1>6, <1>7, SameStores, LoseRoleSummary
<1>8. CASE m.term <= currentTerm[i] /\ UNCHANGED leaderVars
  <2>1. UNCHANGED <<currentTerm, log, role, matchIndex, commitIndex, data, chosen>>
    BY <1>0, <1>1, <1>2, <1>8 DEF leaderVars
  <2> QED BY <1>6, <2>1, SameSummary
<1> QED BY <1>1, <1>7, <1>8

\* A response of a higher term, or one that changes nothing.
LEMMA AdoptSummary ==
  ASSUME TypeInv, queue # <<>>, NEW i \in Node, NEW m \in SoundMessage,
         AdoptTerm(i, m), NoReply, UNCHANGED <<stateVars, chosen>>
  PROVE  Summary
<1>1. UNCHANGED <<commitIndex, data, chosen>> /\ UNCHANGED log /\ LoseRole(i)
  BY DEF stateVars, AdoptTerm
<1>2. \A j \in Node \ {i} : currentTerm'[j] = currentTerm[j]
  BY DEF AdoptTerm, TypeInv, DurableType
<1> QED BY <1>1, <1>2, SameStores, NothingFresh, LoseRoleSummary

\* _become_leader appends the no-op of its term.
LEMMA BecomeLeaderSummary ==
  ASSUME TypeInv, queue # <<>>, NEW i \in Node, BecomeLeader(i), role[i] = "candidate",
         UNCHANGED <<currentTerm, stateVars, chosen>>
  PROVE  Summary
<1> DEFINE last == Len(log[i])
           e == NoOp(currentTerm[i])
           l == Append(log[i], e)
           next == FreshNext(i)
<1>0. /\ currentTerm \in [Node -> Nat] /\ log \in [Node -> Seq(Entry)]
      /\ commitIndex \in [Node -> Nat] /\ matchIndex \in [Node -> [Node -> Nat]]
      /\ role \in [Node -> {"follower", "candidate", "leader"}]
  BY DEF TypeInv, DurableType, LeaderType, StoreType
<1>1. /\ log' = [log EXCEPT ![i] = l] /\ role' = [role EXCEPT ![i] = "leader"]
      /\ matchIndex' = [matchIndex EXCEPT ![i] = [j \in Node |-> IF j = i THEN last + 1 ELSE 0]]
      /\ UNCHANGED <<currentTerm, commitIndex, data, chosen>>
      /\ Reply(AppendsToPeers(i, currentTerm[i], l, next, commitIndex[i], 0))
  BY DEF BecomeLeader, stateVars
<1>2. e \in Entry /\ e.term = currentTerm[i] /\ last \in Nat
  BY <1>0 DEF Entry, NoOp
<1>3. /\ l \in Seq(Entry) /\ log'[i] = l /\ Len(l) = last + 1
      /\ next \in [Node -> Nat] /\ \A j \in Node : next[j] >= 1
  <2>1. l \in Seq(Entry) /\ Len(l) = last + 1
    <3> HIDE DEF e
    <3> QED BY <1>0, <1>2, AppendProperties
  <2>2. next \in [Node -> Nat] /\ \A j \in Node : next[j] >= 1
    BY <1>2 DEF FreshNext
  <2> QED BY <1>0, <1>1, <2>1, <2>2
<1>4. Grew(i) /\ \A j \in Node \ {i} : log'[j] = log[j]
  BY <1>0, <1>1, <1>2 DEF Grew
<1> HIDE DEF e, l, next, last
<1>5. LogsStep /\ RolesStep
  BY <1>0, <1>1, <1>4 DEF LogsStep, RolesStep
<1>6. MatchStep
  BY <1>0, <1>1, <1>3, <1>4 DEF MatchStep
<1>7. StoreStep
  BY <1>1, SameStores
<1>8. MessagesStep
  <2> DEFINE out == AppendsToPeers(i, currentTerm[i], l, next, commitIndex[i], 0)
  <2>2. out \in SUBSET SoundMessage /\ IsFiniteSet(out)
    BY <1>0, <1>3, AppendsToPeersType
  <2>3. /\ out = AppendsToPeers(i, currentTerm'[i], log'[i], next, commitIndex'[i], 0)
        /\ role'[i] = "leader"
    BY <1>0, <1>1, <1>3
  <2>4. \A m \in out : Fresh(m)
    BY <1>3, <2>3, BroadcastFresh
  <2>5. Reply(out)
    BY <1>1
  <2> HIDE DEF out
  <2> QED BY <2>2, <2>4, <2>5, SentFresh
<1> QED BY <1>5, <1>6, <1>7, <1>8 DEF Summary

\* _receive_vote_response.
LEMMA VoteResponseSummary ==
  ASSUME TypeInv, queue # <<>>, NEW i \in Node, NEW m \in SoundMessage, HandleVoteResponse(i, m)
  PROVE  Summary
<1>1. CASE AdoptTerm(i, m) /\ NoReply
  BY <1>1, AdoptSummary DEF HandleVoteResponse
<1>2. CASE UNCHANGED <<durableVars, leaderVars>> /\ NoReply
  <2>1. UNCHANGED <<currentTerm, log, role, matchIndex, commitIndex, data, chosen>>
    BY <1>2 DEF HandleVoteResponse, durableVars, leaderVars, stateVars
  <2> QED BY <1>2, <2>1, NothingFresh, SameSummary
<1>3. CASE BecomeLeader(i) /\ role[i] = "candidate" /\ UNCHANGED currentTerm
  BY <1>3, BecomeLeaderSummary DEF HandleVoteResponse
<1>4. CASE UNCHANGED <<currentTerm, role, matchIndex, log>> /\ NoReply
  BY <1>4, NothingFresh, SameSummary DEF HandleVoteResponse, stateVars
<1> QED BY <1>1, <1>2, <1>3, <1>4 DEF HandleVoteResponse

\* _receive_append_entries: refused, or followed and acknowledged.
LEMMA AppendSummary ==
  ASSUME TypeInv, PeersInv, queue # <<>>, NEW i \in Node, NEW m \in SoundMessage, m = Head(queue),
         m.dst = i, m.type = "Append", HandleAppend(i, m)
  PROVE  Summary
<1>0. /\ m.src \in Node /\ m.term \in Nat /\ m.prevIndex \in Nat /\ m.entries \in Seq(Entry)
      /\ m.commit \in Nat /\ m.ctx \in Nat
      /\ currentTerm \in [Node -> Nat] /\ log \in [Node -> Seq(Entry)]
      /\ commitIndex \in [Node -> Nat] /\ data \in [Node -> Store]
      /\ role \in [Node -> {"follower", "candidate", "leader"}]
      /\ m \in InFlight(queue) /\ m.src # i
  BY TailProperties
  DEF SoundMessage, Message, TypeInv, DurableType, StoreType, LeaderType, QueueType, PeersInv
<1>1. ASSUME NEW t \in Nat, NEW conflict \in Nat,
             Reply({AppendResponseMsg(i, m.src, t, FALSE, 0, conflict, m.ctx)})
      PROVE  MessagesStep
  <2> DEFINE r == AppendResponseMsg(i, m.src, t, FALSE, 0, conflict, m.ctx)
  <2>1. r \in SoundMessage
    BY <1>0, AppendResponseMsgType
  <2>2. Fresh(r)
    BY <1>0 DEF AppendResponseMsg, Fresh
  <2> HIDE DEF r
  <2> QED BY <1>1, <2>1, <2>2, RepliedFresh DEF r
<1>2. CASE m.term < currentTerm[i]
  <2>1. UNCHANGED <<currentTerm, log, role, matchIndex, commitIndex, data, chosen>>
    BY <1>0, <1>2 DEF HandleAppend, durableVars, leaderVars, stateVars
  <2>2. Reply({AppendResponseMsg(i, m.src, currentTerm[i], FALSE, 0, Len(log[i]) + 1, m.ctx)})
    BY <1>0, <1>2 DEF HandleAppend
  <2>3. Len(log[i]) + 1 \in Nat
    BY <1>0, LenProperties
  <2> QED BY <1>0, <1>1, <2>1, <2>2, <2>3, SameSummary
<1>3. CASE m.term >= currentTerm[i]
  <2>1. /\ currentTerm' = [currentTerm EXCEPT ![i] = m.term]
        /\ LoseRole(i) \/ (m.term = currentTerm[i] /\ role[i] = "follower" /\ UNCHANGED leaderVars)
        /\ UNCHANGED chosen
    BY <1>0, <1>3 DEF HandleAppend
  <2>2. /\ \A j \in Node \ {i} : /\ currentTerm'[j] = currentTerm[j] /\ role'[j] = role[j]
                                 /\ matchIndex'[j] = matchIndex[j]
        /\ currentTerm'[i] = m.term /\ role'[i] = "follower"
    BY <1>0, <2>1 DEF LoseRole, leaderVars, TypeInv, LeaderType
  <2>3. CASE /\ ~HasPrevious(log[i], m)
             /\ Reply({AppendResponseMsg(i, m.src, m.term, FALSE, 0,
                                         ConflictIndex(log[i], m), m.ctx)})
             /\ UNCHANGED <<log, stateVars>>
    <3>1. ConflictIndex(log[i], m) \in Nat
      <4>1. Len(log[i]) \in Nat
        BY <1>0, LenProperties
      <4>2. CASE m.prevIndex > Len(log[i])
        BY <4>1, <4>2 DEF ConflictIndex
      <4>3. CASE m.prevIndex = 0
        BY <4>1, <4>3, <2>3, <1>0 DEF HasPrevious, TermAt, SoundMessage
      <4>4. CASE m.prevIndex \in 1..Len(log[i])
        <5>1. FirstOfTerm(log[i], m.prevIndex) \in 1..m.prevIndex
          BY <1>0, <4>4, FirstOfTermType
        <5> QED BY <4>1, <4>4, <5>1 DEF ConflictIndex
      <4> QED BY <1>0, <4>1, <4>2, <4>3, <4>4
    <3>2. MessagesStep
      BY <1>0, <1>1, <2>3, <3>1
    <3>3. LogsStep /\ RolesStep /\ MatchStep
      BY <2>2, <2>3 DEF LogsStep, RolesStep, MatchStep
    <3>4. StoreStep
      BY <2>1, <2>3, SameStores DEF stateVars
    <3> QED BY <3>2, <3>3, <3>4 DEF Summary
  <2>4. CASE /\ HasPrevious(log[i], m)
             /\ LET l == Merge(log[i], m.prevIndex, m.entries)
                    c == FollowerCommit(commitIndex[i], l, m)
                IN  /\ log' = [log EXCEPT ![i] = l]
                    /\ commitIndex' = [commitIndex EXCEPT ![i] = c]
                    /\ data' = [data EXCEPT ![i] = Replay(@, l, commitIndex[i], c)]
                    /\ Reply({AppendResponseMsg(i, m.src, m.term, TRUE,
                                m.prevIndex + Len(m.entries), Len(l) + 1, m.ctx)})
    <3> DEFINE l == Merge(log[i], m.prevIndex, m.entries)
               c == FollowerCommit(commitIndex[i], l, m)
               r == AppendResponseMsg(i, m.src, m.term, TRUE,
                                      m.prevIndex + Len(m.entries), Len(l) + 1, m.ctx)
    <3>1. /\ log' = [log EXCEPT ![i] = l] /\ commitIndex' = [commitIndex EXCEPT ![i] = c]
          /\ data' = [data EXCEPT ![i] = Replay(data[i], l, commitIndex[i], c)]
          /\ Reply({r})
      BY <2>4
    <3>2. l \in Seq(Entry)
      <4>1. m.prevIndex \in 0..Len(log[i])
        BY <1>0, <2>4, LenProperties DEF HasPrevious
      <4> QED BY <1>0, <4>1, MergeType
    <3>3. r \in SoundMessage
      <4> HIDE DEF l
      <4>1. Len(l) + 1 \in Nat /\ m.prevIndex + Len(m.entries) \in Nat
        <5>1. Len(l) \in Nat
          BY <3>2, LenProperties
        <5>2. m.prevIndex \in Nat /\ m.entries \in Seq(Entry)
          BY <1>0
        <5>3. Len(m.entries) \in Nat
          BY <5>2, LenProperties
        <5> QED BY <5>1, <5>2, <5>3
      <4> QED BY <1>0, <4>1, AppendResponseMsgType
    <3>4. /\ r.type = "AppendResponse" /\ r.src = i /\ r.dst = m.src /\ r.term = m.term
          /\ r.match = m.prevIndex + Len(m.entries)
      BY DEF AppendResponseMsg
    <3>5. /\ log'[i] = l /\ commitIndex'[i] = c
          /\ data'[i] = Replay(data[i], l, commitIndex[i], c)
          /\ \A j \in Node \ {i} : log'[j] = log[j]
      BY <1>0, <3>1
    <3>6. m \in Appends
      BY <1>0 DEF Appends
    <3>7. Follows(i, m)
      BY <1>3, <2>2, <2>4, <3>5, <3>6 DEF Follows
    <3> HIDE DEF l, r
    <3>8. Fresh(r)
      BY <1>0, <3>4, <3>6, <3>7 DEF Fresh, FreshAck
    <3>9. MessagesStep
      BY <3>1, <3>3, <3>8, RepliedFresh
    <3>10. LogsStep /\ RolesStep /\ MatchStep
      BY <2>2, <3>5, <3>6, <3>7 DEF LogsStep, RolesStep, MatchStep
    <3>11. StoreStep
      <4>1. commitIndex'[i] = FollowerCommit(commitIndex[i], log'[i], m)
        BY <3>5
      <4>2. data'[i] = Replay(data[i], log'[i], commitIndex[i], commitIndex'[i])
        BY <3>5
      <4>3. /\ commitIndex' = [commitIndex EXCEPT ![i] = commitIndex'[i]]
            /\ data' = [data EXCEPT ![i] = data'[i]]
        BY <3>1, <3>5
      <4> QED BY <2>1, <3>6, <3>7, <4>1, <4>2, <4>3 DEF StoreStep
    <3> QED BY <3>9, <3>10, <3>11 DEF Summary
  <2> QED BY <1>0, <1>3, <2>3, <2>4 DEF HandleAppend
<1> QED BY <1>0, <1>2, <1>3

\* _receive_append_response: a retry, or a longer match and maybe a commit.
LEMMA AppendResponseSummary ==
  ASSUME TypeInv, PeersInv, queue # <<>>, NEW i \in Node, NEW m \in SoundMessage, m = Head(queue),
         m.dst = i, m.type = "AppendResponse", HandleAppendResponse(i, m)
  PROVE  Summary
<1> DEFINE match == [matchIndex[i] EXCEPT ![m.src] = Larger(@, m.match)]
           next  == [nextIndex[i] EXCEPT ![m.src] = match[m.src] + 1]
           retry == [nextIndex[i] EXCEPT ![m.src] = Larger(1, m.conflict)]
<1>0. /\ m.src \in Node /\ m.term \in Nat /\ m.match \in Nat /\ m.conflict \in Nat
      /\ m.ctx \in Nat /\ currentTerm[i] \in Nat /\ log[i] \in Seq(Entry)
      /\ commitIndex[i] \in Nat /\ Len(log[i]) \in Nat
      /\ matchIndex[i] \in [Node -> Nat] /\ nextIndex[i] \in [Node -> Nat]
      /\ role[i] = "leader" => \A j \in Node : nextIndex[i][j] >= 1
      /\ commitIndex \in [Node -> Nat] /\ data \in [Node -> Store]
      /\ matchIndex \in [Node -> [Node -> Nat]]
      /\ m \in InFlight(queue) /\ m.src # i
  BY LenProperties, TailProperties
  DEF SoundMessage, Message, TypeInv, LeaderType, DurableType, StoreType, QueueType, PeersInv
<1>1. CASE AdoptTerm(i, m) /\ NoReply /\ UNCHANGED <<stateVars, chosen>>
  BY <1>1, AdoptSummary
<1>2. CASE NoReply /\ UNCHANGED <<durableVars, leaderVars, stateVars, chosen>>
  <2>1. UNCHANGED <<currentTerm, log, role, matchIndex, commitIndex, data, chosen>>
    BY <1>2 DEF durableVars, leaderVars, stateVars
  <2> QED BY <1>2, <2>1, NothingFresh, SameSummary
<1>3. CASE /\ role[i] = "leader"
           /\ Reply({AppendMsg(i, m.src, currentTerm[i], log[i], retry[m.src],
                               commitIndex[i], m.ctx)})
           /\ UNCHANGED <<durableVars, role, votes, matchIndex, readAcks, stateVars, chosen>>
  <2> DEFINE r == AppendMsg(i, m.src, currentTerm[i], log[i], retry[m.src], commitIndex[i], m.ctx)
  <2>1. retry[m.src] \in Nat /\ retry[m.src] >= 1
    BY <1>0 DEF Larger
  <2>2. UNCHANGED <<currentTerm, log, role, matchIndex, commitIndex, data, chosen>>
    BY <1>3 DEF durableVars, stateVars
  <2> HIDE DEF retry
  <2>3. r \in SoundMessage
    BY <1>0, <2>1, AppendMsgType
  <2>4. r.type = "Append" /\ r.src = i /\ r.dst = m.src
    BY DEF AppendMsg
  <2>5. r = AppendMsg(r.src, r.dst, currentTerm'[r.src], log'[r.src], retry[m.src],
                      commitIndex'[r.src], m.ctx)
    BY <2>2, <2>4
  <2>6. Reply({r})
    BY <1>3
  <2> HIDE DEF r
  <2>7. FreshAppend(r)
    BY <1>0, <1>3, <2>1, <2>2, <2>4, <2>5 DEF FreshAppend
  <2>8. Fresh(r)
    BY <1>0, <2>4, <2>7 DEF Fresh
  <2> QED BY <2>2, <2>3, <2>6, <2>8, RepliedFresh, SameSummary
<1>4. CASE /\ role[i] = "leader" /\ m.term = currentTerm[i] /\ m.success
           /\ matchIndex' = [matchIndex EXCEPT ![i] = match]
           /\ AdvanceCommit(i, match, next)
           /\ UNCHANGED <<durableVars, role, votes>>
  <2>1. match \in [Node -> Nat]
    BY <1>0 DEF Larger
  <2>2. next \in [Node -> Nat] /\ \A j \in Node : next[j] >= 1
    <3> HIDE DEF match
    <3>1. match[m.src] + 1 \in Nat /\ match[m.src] + 1 >= 1
      BY SMTT(20), <1>0, <2>1
    <3> QED BY <1>0, <1>4, <3>1
  <2>3. UNCHANGED <<currentTerm, log, role>>
    BY <1>4 DEF durableVars
  <2>4. LogsStep /\ RolesStep
    BY <2>3 DEF LogsStep, RolesStep
  <2>5. MatchStep
    <3>1. ASSUME NEW j \in Node, NEW v \in Node, role'[j] = "leader", ~(j = i /\ v = m.src)
          PROVE  role[j] = "leader" /\ matchIndex'[j][v] = matchIndex[j][v] /\ log'[j] = log[j]
      BY <1>0, <1>4, <2>3, <3>1
    <3>2. \/ matchIndex'[i][m.src] = matchIndex[i][m.src] /\ log'[i] = log[i]
          \/ /\ m \in Acks /\ matchIndex'[i][m.src] = m.match
      BY <1>0, <1>4, <2>3 DEF Larger, Acks
    <3>3. role'[i] = "leader" => role[i] = "leader" /\ log'[i] = log[i]
      BY <2>3
    <3> QED BY <1>4, <3>1, <3>2, <3>3 DEF MatchStep
  <2> HIDE DEF match, next
  <2>6. CASE NoReply /\ UNCHANGED <<stateVars, chosen>>
    <3>1. StoreStep /\ MessagesStep
      BY <2>6, SameStores, NothingFresh DEF stateVars
    <3> QED BY <2>4, <2>5, <3>1 DEF Summary
  <2>7. ASSUME NEW c \in Committable(i, match),
               commitIndex' = [commitIndex EXCEPT ![i] = c],
               data' = [data EXCEPT ![i] = Replay(data[i], log[i], commitIndex[i], c)],
               Choose(i, c),
               Reply(AppendsToPeers(i, currentTerm[i], log[i], next, c, 0))
        PROVE  Summary
    <3>1. /\ c \in Nat /\ c \in commitIndex[i]+1..Len(log[i])
          /\ IsQuorum({j \in Node : match[j] >= c}) /\ log[i][c].term = currentTerm[i]
      BY <1>0 DEF Committable
    <3>2. commitIndex'[i] = c /\ data'[i] = Replay(data[i], log'[i], commitIndex[i], c)
      BY <1>0, <2>3, <2>7
    <3>3. Commits(i, c)
      BY <1>0, <1>4, <2>3, <2>7, <3>1 DEF Commits
    <3>4. StoreStep
      BY <2>7, <3>2, <3>3 DEF StoreStep
    <3> DEFINE out == AppendsToPeers(i, currentTerm[i], log[i], next, c, 0)
    <3>5. out \in SUBSET SoundMessage /\ IsFiniteSet(out)
      BY <1>0, <2>2, <3>1, AppendsToPeersType
    <3>6. /\ out = AppendsToPeers(i, currentTerm'[i], log'[i], next, commitIndex'[i], 0)
          /\ role'[i] = "leader"
      BY <1>4, <2>3, <3>2
    <3>7. \A x \in out : Fresh(x)
      BY <2>2, <3>6, BroadcastFresh
    <3>8. Reply(out)
      BY <2>7
    <3> HIDE DEF out
    <3>9. MessagesStep
      BY <3>5, <3>7, <3>8, SentFresh
    <3> QED BY <2>4, <2>5, <3>4, <3>9 DEF Summary
  <2> QED BY <1>4, <2>6, <2>7 DEF AdvanceCommit
<1> HIDE DEF match, next, retry
<1> QED BY <1>1, <1>2, <1>3, <1>4 DEF HandleAppendResponse, match, next, retry

\* Whichever handler the head of the queue goes to.
LEMMA DeliverSummary ==
  ASSUME TypeInv, PeersInv, Deliver
  PROVE  Summary
<1> DEFINE m == Head(queue)
<1>1. queue # <<>> /\ m \in SoundMessage
  BY TailProperties DEF Deliver, TypeInv, QueueType
<1>2. m.dst \in Node
  BY <1>1 DEF SoundMessage, Message
<1>3. m = Head(queue)
  OBVIOUS
<1> HIDE DEF m
<1>4. \/ m.type = "RequestVote" /\ HandleRequestVote(m.dst, m)
      \/ m.type = "VoteResponse" /\ HandleVoteResponse(m.dst, m)
      \/ m.type = "Append" /\ HandleAppend(m.dst, m)
      \/ m.type = "AppendResponse" /\ HandleAppendResponse(m.dst, m)
  BY DEF Deliver, m
<1> QED BY <1>1, <1>2, <1>3, <1>4, RequestVoteSummary, VoteResponseSummary, AppendSummary,
           AppendResponseSummary

\* A crash resets the store and the role.
LEMMA CrashSummary ==
  ASSUME TypeInv, NEW i \in Node, Crash(i)
  PROVE  Summary
<1>1. /\ UNCHANGED log /\ UNCHANGED currentTerm /\ LoseRole(i) /\ UNCHANGED queue
      /\ UNCHANGED chosen
      /\ commitIndex' = [commitIndex EXCEPT ![i] = 0] /\ data' = [data EXCEPT ![i] = EmptyStore]
      /\ commitIndex \in [Node -> Nat] /\ data \in [Node -> Store]
  BY DEF Crash, durableVars, TypeInv, StoreType
<1>2. StoreStep
  <2>1. commitIndex'[i] = 0 /\ data'[i] = EmptyStore
    BY <1>1
  <2> QED BY <1>1, <2>1 DEF StoreStep
<1> QED BY <1>1, <1>2, NothingFresh, LoseRoleSummary

\* Everything else.
LEMMA OtherSummary ==
  ASSUME TypeInv,
         \/ Discard \/ WriteAccepted \/ WriteUnknown \/ ReadAnswered \/ ReadFailed
         \/ \E i \in Node : Restart(i) \/ Isolate(i) \/ Heal(i)
         \/ UNCHANGED vars
  PROVE  Summary
<1>1. MessagesStep
  BY NothingFresh DEF Discard, WriteAccepted, WriteUnknown, ReadAnswered, ReadFailed, ReadEnd,
     Restart, Isolate, Heal, vars
<1>2. UNCHANGED <<currentTerm, log, role, matchIndex, commitIndex, data, chosen>>
  BY DEF Discard, WriteAccepted, WriteUnknown, ReadAnswered, ReadFailed, ReadEnd,
     Restart, Isolate, Heal, vars, durableVars, leaderVars, stateVars
<1> QED BY <1>1, <1>2, SameSummary

\* Every step of the group is summed up by Summary.
LEMMA NextSummary ==
  ASSUME TypeInv, PeersInv, [Next]_vars
  PROVE  Summary
BY TimeoutSummary, BroadcastSummary, ClientWriteSummary, DeliverSummary, CrashSummary,
   OtherSummary DEF Next

\* PeersInv is kept.
LEMMA PeersInvKept ==
  ASSUME PeersInv, Summary
  PROVE  PeersInv'
BY DEF Summary, MessagesStep, Fresh, PeersInv

----------------------------------------------------------------------------
(* Links *)

\* The entries of a log, each with its index and the term before it.
Links(l) == {[index |-> k, entry |-> l[k], after |-> TermAt(l, k - 1)] : k \in DOMAIN l}

\* The same of the entries that an AppendEntries carries.
MsgLinks(m) ==
  {[index |-> m.prevIndex + k, entry |-> m.entries[k],
    after |-> IF k = 1 THEN m.prevTerm ELSE m.entries[k - 1].term] : k \in DOMAIN m.entries}

AllLinks ==
  (UNION {Links(log[i]) : i \in Node}) \cup (UNION {MsgLinks(m) : m \in Appends})

\* Index and term tell a link.
Unique(S) == \A a, b \in S : a.index = b.index /\ a.entry.term = b.entry.term => a = b

\* The entries of one term form one run of indices.
OneRun(S) ==
  \A a, b \in S : a.entry.term = b.entry.term /\ b.after # b.entry.term => b.index <= a.index

Rising(S) == \A a \in S : a.entry.term >= 1 /\ a.after <= a.entry.term

\* Nothing later than term T was ever put anywhere but on top of index K, where
\* term T is: what makes an entry of term T at index K safe to commit.
SafeIn(S, T, K) ==
  \A a \in S : a.entry.term > T =>
    a.index > K /\ a.after >= T /\ (a.index = K + 1 => a.after = T)

\* The link at an index of a log.
LEMMA LinkAt ==
  ASSUME NEW l \in Seq(Entry), NEW S, Links(l) \subseteq S, NEW k \in 1..Len(l)
  PROVE  /\ [index |-> k, entry |-> l[k], after |-> TermAt(l, k - 1)] \in S
         /\ l[k] \in Entry /\ l[k].term \in Nat
         /\ k > 1 => TermAt(l, k - 1) = l[k - 1].term /\ k - 1 \in 1..Len(l)
         /\ k = 1 => TermAt(l, k - 1) = 0
<1>1. Len(l) \in Nat /\ DOMAIN l = 1..Len(l) /\ l[k] \in Entry
  BY LenProperties, ElementOfSeq
<1>2. [index |-> k, entry |-> l[k], after |-> TermAt(l, k - 1)] \in S
  BY <1>1 DEF Links
<1> QED BY <1>1, <1>2 DEF TermAt, Entry

\* The same link, seen from the entry before it.
LEMMA LinkOnto ==
  ASSUME NEW l \in Seq(Entry), NEW S, Links(l) \subseteq S,
         NEW k \in 1..Len(l), k + 1 \in 1..Len(l)
  PROVE  [index |-> k + 1, entry |-> l[k + 1], after |-> l[k].term] \in S
<1>1. /\ Len(l) \in Nat /\ (k + 1) - 1 = k /\ k + 1 > 1
  BY LenProperties
<1>2. /\ [index |-> k + 1, entry |-> l[k + 1], after |-> TermAt(l, (k + 1) - 1)] \in S
      /\ k + 1 > 1 => TermAt(l, (k + 1) - 1) = l[(k + 1) - 1].term
  BY LinkAt
<1> QED BY <1>1, <1>2

\* Logs that agree on a term agree up to it.
LEMMA LogsAgree ==
  ASSUME NEW S, Unique(S), NEW l \in Seq(Entry), NEW r \in Seq(Entry),
         Links(l) \subseteq S, Links(r) \subseteq S,
         NEW k \in 1..Len(l), k \in 1..Len(r), l[k].term = r[k].term
  PROVE  \A j \in 1..k : l[j] = r[j]
<1>0. Len(l) \in Nat /\ Len(r) \in Nat /\ k \in Nat
  BY LenProperties
<1>1. ASSUME NEW j \in 1..k, l[j].term = r[j].term
      PROVE  l[j] = r[j] /\ TermAt(l, j - 1) = TermAt(r, j - 1)
  <2> DEFINE a == [index |-> j, entry |-> l[j], after |-> TermAt(l, j - 1)]
             b == [index |-> j, entry |-> r[j], after |-> TermAt(r, j - 1)]
  <2>1. j \in 1..Len(l) /\ j \in 1..Len(r)
    BY <1>0
  <2>2. a \in S /\ b \in S
    BY <2>1, LinkAt
  <2>3. a.index = b.index /\ a.entry.term = b.entry.term
    BY <1>1
  <2>4. a = b
    <3> HIDE DEF a, b
    <3> QED BY <2>2, <2>3 DEF Unique
  <2>5. a.entry = b.entry /\ a.after = b.after
    BY <2>4
  <2> QED BY <2>5
<1> DEFINE D == {j \in 1..k : l[j] # r[j]}
<1>2. SUFFICES ASSUME D # {} PROVE FALSE
  OBVIOUS
<1>3. PICK d \in D : \A j \in D : j <= d
  <2>1. D \in SUBSET Nat /\ \A j \in D : j <= k
    BY <1>0
  <2> HIDE DEF D
  <2> QED BY <1>0, <1>2, <2>1, GreatestNat
<1>4. d \in 1..k /\ l[d] # r[d]
  BY <1>3
<1>5. d # k
  BY <1>0, <1>1, <1>4
<1>6. d + 1 \in 1..k /\ d + 1 \notin D
  BY <1>0, <1>3, <1>4, <1>5
<1>7. TermAt(l, d) = TermAt(r, d)
  <2>1. (d + 1) - 1 = d /\ l[d + 1] = r[d + 1]
    BY <1>0, <1>4, <1>6
  <2> QED BY <1>1, <1>6, <2>1
<1>8. l[d].term = r[d].term
  BY <1>0, <1>4, <1>7, LenProperties DEF TermAt
<1> QED BY <1>1, <1>4, <1>8

\* Terms do not fall along a log.
LEMMA LogsRise ==
  ASSUME NEW S, Rising(S), NEW l \in Seq(Entry), Links(l) \subseteq S,
         NEW j \in 1..Len(l), NEW k \in 1..Len(l), j <= k
  PROVE  l[j].term <= l[k].term
<1>0. Len(l) \in Nat /\ \A p \in 1..Len(l) : l[p].term \in Nat
  BY LenProperties, LinkAt
<1> DEFINE D == {p \in j..k : l[p].term > l[k].term}
<1>1. SUFFICES ASSUME D # {} PROVE FALSE
  BY <1>0
<1>2. PICK d \in D : \A p \in D : p <= d
  <2>1. D \in SUBSET Nat /\ \A p \in D : p <= k /\ k \in Nat
    BY <1>0
  <2> HIDE DEF D
  <2> QED BY <1>0, <1>1, <2>1, GreatestNat
<1>3. d \in j..k /\ d # k /\ l[d].term > l[k].term
  BY <1>0, <1>2
<1>4. d + 1 \in j..k /\ d + 1 \in 1..Len(l) /\ d + 1 \notin D
  BY <1>0, <1>2, <1>3
<1>5. l[d].term <= l[d + 1].term
  <2> DEFINE a == [index |-> d + 1, entry |-> l[d + 1], after |-> l[d].term]
  <2>0. d \in 1..Len(l)
    BY <1>0, <1>3
  <2>1. a \in S
    <3> HIDE DEF D
    <3> QED BY <2>0, <1>4, LinkOnto
  <2>2. a.after <= a.entry.term
    BY <2>1 DEF Rising
  <2> QED BY <2>1, <2>2
<1> QED BY <1>0, <1>3, <1>4, <1>5

\* A run of a term that is known to pass index a.index passes it in every log.
LEMMA RunReaches ==
  ASSUME NEW S, OneRun(S), NEW l \in Seq(Entry), Links(l) \subseteq S,
         NEW a \in S, a.index \in Nat, a.index >= 1,
         NEW p \in 1..Len(l), a.index <= p, l[p].term = a.entry.term
  PROVE  l[a.index].term = a.entry.term
<1>0. Len(l) \in Nat
  BY LenProperties
<1> DEFINE D == {j \in a.index..p : l[j].term # a.entry.term}
<1>1. SUFFICES ASSUME D # {} PROVE FALSE
  BY <1>0
<1>2. PICK d \in D : \A j \in D : j <= d
  <2>1. D \in SUBSET Nat /\ \A j \in D : j <= p /\ p \in Nat
    BY <1>0
  <2> HIDE DEF D
  <2> QED BY <1>0, <1>1, <2>1, GreatestNat
<1>3. d \in a.index..p /\ d # p /\ l[d].term # a.entry.term
  BY <1>2
<1>4. d + 1 \in a.index..p /\ d + 1 \in 1..Len(l) /\ d + 1 \notin D
  BY <1>0, <1>2, <1>3
<1> DEFINE b == [index |-> d + 1, entry |-> l[d + 1], after |-> l[d].term]
<1>5. b \in S
  <2>1. d \in 1..Len(l)
    BY <1>0, <1>3
  <2> HIDE DEF D
  <2> QED BY <2>1, <1>4, LinkOnto
<1>6. b.entry.term = a.entry.term /\ b.after # b.entry.term /\ b.index = d + 1
  BY <1>3, <1>4, <1>5
<1>7. b.index <= a.index
  <2> HIDE DEF b
  <2> QED BY <1>5, <1>6 DEF OneRun
<1> QED BY <1>0, <1>3, <1>6, <1>7

\* A log with anything later than T has term T at a safe index.
LEMMA SafeReaches ==
  ASSUME NEW S, OneRun(S), NEW l \in Seq(Entry), Links(l) \subseteq S,
         NEW T \in Nat, NEW K \in Nat, K >= 1, SafeIn(S, T, K),
         NEW a \in S, a.index = K, a.entry.term = T,
         NEW q \in 1..Len(l), l[q].term > T
  PROVE  K \in 1..Len(l) /\ l[K].term = T
<1>0. Len(l) \in Nat /\ \A p \in 1..Len(l) : l[p].term \in Nat
  BY LenProperties, LinkAt
<1> DEFINE D == {j \in 1..Len(l) : l[j].term > T}
<1>1. PICK p \in D : \A j \in D : p <= j
  <2>1. D \in SUBSET Nat /\ q \in D
    BY <1>0
  <2> HIDE DEF D
  <2> QED BY <2>1, LeastNat
<1>2. p \in 1..Len(l) /\ l[p].term > T
  BY <1>1
<1> DEFINE b == [index |-> p, entry |-> l[p], after |-> TermAt(l, p - 1)]
<1>3. b \in S /\ (p > 1 => TermAt(l, p - 1) = l[p - 1].term)
  BY <1>2, LinkAt
<1>4. b.index = p /\ b.entry.term > T /\ b.after = TermAt(l, p - 1)
  BY <1>2
<1>5. p > K /\ b.after >= T
  <2> HIDE DEF b
  <2> QED BY <1>3, <1>4 DEF SafeIn
<1>6. p - 1 \in 1..Len(l) /\ K <= p - 1 /\ p - 1 \notin D
  BY <1>0, <1>1, <1>2, <1>5
<1>7. l[p - 1].term = T
  BY <1>0, <1>3, <1>4, <1>5, <1>6
<1>8. l[K].term = T
  BY <1>6, <1>7, RunReaches
<1> QED BY <1>0, <1>6, <1>8

----------------------------------------------------------------------------
(* What merging and appending do to links *)

\* The log that a message describes to a log that has its previous entry.
Joined(l, prev, es) == SubSeq(l, 1, prev) \o es

\* The joined log is a log, its length is where the message ends, and each
\* of its entries comes from one of the two parts.
LEMMA JoinedProperties ==
  ASSUME NEW l \in Seq(Entry), NEW es \in Seq(Entry), NEW prev \in 0..Len(l)
  PROVE  /\ Joined(l, prev, es) \in Seq(Entry)
         /\ Len(Joined(l, prev, es)) = prev + Len(es)
         /\ \A j \in 1..prev + Len(es) :
              Joined(l, prev, es)[j] = IF j <= prev THEN l[j] ELSE es[j - prev]
<1>0. Len(l) \in Nat /\ Len(es) \in Nat /\ prev \in Nat
  BY LenProperties
<1>1. \A j \in 1..prev : l[j] \in Entry
  BY <1>0, ElementOfSeq
<1>2. /\ SubSeq(l, 1, prev) \in Seq(Entry) /\ Len(SubSeq(l, 1, prev)) = prev
      /\ \A j \in 1..prev : SubSeq(l, 1, prev)[j] = l[j]
  BY <1>0, <1>1, SubSeqProperties
<1> DEFINE p == SubSeq(l, 1, prev)
<1>3. p \in Seq(Entry) /\ Len(p) = prev /\ \A j \in 1..prev : p[j] = l[j]
  BY <1>2
<1> HIDE DEF p
<1>4. /\ p \o es \in Seq(Entry) /\ Len(p \o es) = Len(p) + Len(es)
      /\ \A j \in 1..Len(p) + Len(es) : (p \o es)[j] = IF j <= Len(p) THEN p[j] ELSE es[j - Len(p)]
  BY <1>3, ConcatProperties
<1> QED BY <1>0, <1>3, <1>4 DEF Joined, p

\* Its links are those of the log and of the message.
LEMMA JoinedLinks ==
  ASSUME NEW l \in Seq(Entry), NEW m \in SoundMessage, m.type = "Append", HasPrevious(l, m),
         NEW S, Links(l) \subseteq S, MsgLinks(m) \subseteq S
  PROVE  Links(Joined(l, m.prevIndex, m.entries)) \subseteq S
<1> DEFINE prev == m.prevIndex
           es == m.entries
           r == Joined(l, prev, es)
<1>0. /\ es \in Seq(Entry) /\ prev \in 0..Len(l) /\ Len(l) \in Nat /\ Len(es) \in Nat
      /\ DOMAIN es = 1..Len(es) /\ TermAt(l, prev) = m.prevTerm
  <2>1. es \in Seq(Entry) /\ prev \in Nat
    BY DEF SoundMessage, Message
  <2> QED BY <2>1, LenProperties DEF HasPrevious
<1>1. /\ r \in Seq(Entry) /\ Len(r) = prev + Len(es)
      /\ \A j \in 1..prev + Len(es) : r[j] = IF j <= prev THEN l[j] ELSE es[j - prev]
      /\ DOMAIN r = 1..Len(r)
  <2> HIDE DEF prev, es
  <2> QED BY <1>0, JoinedProperties, LenProperties
<1> SUFFICES Links(r) \subseteq S
  OBVIOUS
<1> HIDE DEF r
<1> SUFFICES ASSUME NEW k \in 1..prev + Len(es)
             PROVE  [index |-> k, entry |-> r[k], after |-> TermAt(r, k - 1)] \in S
  BY <1>1 DEF Links
<1>3. CASE k <= prev
  <2>1. k \in 1..Len(l) /\ r[k] = l[k]
    BY <1>0, <1>1, <1>3
  <2>2. TermAt(r, k - 1) = TermAt(l, k - 1)
    BY <1>0, <1>1, <1>3, LenProperties DEF TermAt
  <2> QED BY <2>1, <2>2, LinkAt
<1>4. CASE k > prev
  <2> DEFINE h == k - prev
  <2>1. h \in 1..Len(es) /\ r[k] = es[h] /\ k = prev + h
    BY <1>0, <1>1, <1>4
  <2>2. CASE h = 1
    <3>0. k - 1 = prev /\ DOMAIN l = 1..Len(l)
      BY <1>0, <2>1, <2>2, LenProperties
    <3>1. TermAt(r, k - 1) = m.prevTerm
      <4> HIDE DEF prev, es
      <4>1. CASE prev = 0
        BY <1>0, <1>1, <3>0, <4>1 DEF TermAt
      <4>2. CASE prev # 0
        <5>1. prev \in 1..prev + Len(es) /\ prev \in 1..Len(l) /\ r[prev] = l[prev]
          BY <1>0, <1>1, <4>2
        <5> QED BY <1>0, <1>1, <3>0, <5>1 DEF TermAt
      <4> QED BY <4>1, <4>2
    <3>2. [index |-> prev + 1, entry |-> es[1], after |-> m.prevTerm] \in MsgLinks(m)
      BY <1>0, <2>1, <2>2 DEF MsgLinks
    <3> QED BY <2>1, <2>2, <3>1, <3>2
  <2>3. CASE h # 1
    <3>1. TermAt(r, k - 1) = es[h - 1].term
      <4>1. k - 1 \in 1..Len(r) /\ k - 1 > prev /\ (k - 1) - prev = h - 1
        BY <1>0, <1>1, <2>1, <2>3
      <4>2. r[k - 1] = es[h - 1]
        BY <1>1, <4>1, <1>0
      <4> QED BY <1>1, <4>1, <4>2 DEF TermAt
    <3>2. [index |-> prev + h, entry |-> es[h], after |-> es[h - 1].term] \in MsgLinks(m)
      BY <1>0, <2>1, <2>3 DEF MsgLinks
    <3> QED BY <2>1, <3>1, <3>2
  <2> QED BY <2>2, <2>3
<1> QED BY <1>0, <1>3, <1>4

\* r goes no further than l and agrees with it on all terms.
Covers(l, r) == Len(r) <= Len(l) /\ \A k \in 1..Len(r) : l[k].term = r[k].term

\* A merge leaves a log that covers the message alone, and else makes it what
\* the message describes.
LEMMA MergeResult ==
  ASSUME NEW S, Unique(S), NEW l \in Seq(Entry), NEW es \in Seq(Entry), NEW prev \in 0..Len(l),
         Links(l) \subseteq S, Links(Joined(l, prev, es)) \subseteq S
  PROVE  Merge(l, prev, es) = IF Covers(l, Joined(l, prev, es)) THEN l ELSE Joined(l, prev, es)
<1> DEFINE r == Joined(l, prev, es)
           conflicts == {k \in 1..Len(es) :
                           prev + k <= Len(l) /\ l[prev + k].term # es[k].term}
           first == CHOOSE k \in conflicts : \A c \in conflicts : k <= c
           kept == IF conflicts = {} THEN l ELSE SubSeq(l, 1, prev - 1 + first)
<1>0. Len(l) \in Nat /\ Len(es) \in Nat /\ prev \in Nat
  BY LenProperties
<1>1. /\ r \in Seq(Entry) /\ Len(r) = prev + Len(es)
      /\ \A j \in 1..prev + Len(es) : r[j] = IF j <= prev THEN l[j] ELSE es[j - prev]
  BY JoinedProperties
<1>2. Merge(l, prev, es) = kept \o SubSeq(es, Len(kept) - prev + 1, Len(es))
  BY DEF Merge
<1>3. \A k \in 1..Len(es) : prev + k <= Len(l) /\ k \notin conflicts => l[prev + k].term = r[prev + k].term
  <2> SUFFICES ASSUME NEW k \in 1..Len(es), prev + k <= Len(l), k \notin conflicts
               PROVE  l[prev + k].term = r[prev + k].term
    OBVIOUS
  <2>1. l[prev + k].term = es[k].term
    OBVIOUS
  <2>2. prev + k \in 1..prev + Len(es) /\ prev + k > prev /\ (prev + k) - prev = k
    BY <1>0
  <2> HIDE DEF r
  <2>3. r[prev + k] = es[k]
    BY <1>0, <1>1, <2>2
  <2> QED BY <2>1, <2>3
<1>4. ASSUME NEW k \in 1..Len(l), k <= prev + Len(es), k > prev => k - prev \notin conflicts
      PROVE  \A j \in 1..k : l[j] = r[j]
  <2>1. l[k].term = r[k].term
    <3>1. CASE k <= prev
      BY <1>0, <1>1, <1>4, <3>1
    <3>2. CASE k > prev
      <4>1. k - prev \in 1..Len(es) /\ prev + (k - prev) = k
        BY <1>0, <1>4, <3>2
      <4> HIDE DEF conflicts, r
      <4> QED BY <1>0, <1>3, <1>4, <3>2, <4>1
    <3> QED BY <1>0, <3>1, <3>2
  <2>2. k \in 1..Len(r)
    BY <1>0, <1>1, <1>4
  <2> HIDE DEF r, conflicts
  <2> QED BY <1>1, <2>1, <2>2, LogsAgree DEF r
<1>5. CASE conflicts = {} /\ Len(l) >= prev + Len(es)
  <2>1. Covers(l, r)
    <3>1. \A k \in 1..Len(r) : l[k].term = r[k].term
      <4> SUFFICES ASSUME NEW k \in 1..Len(r) PROVE l[k].term = r[k].term
        OBVIOUS
      <4>1. k \in 1..Len(l) /\ k <= prev + Len(es) /\ k - prev \notin conflicts
        <5>1. k - prev \notin conflicts
          BY <1>5
        <5>2. Len(r) = prev + Len(es) /\ Len(l) >= prev + Len(es)
          BY <1>1, <1>5
        <5> HIDE DEF r, conflicts
        <5> QED BY <1>0, <5>1, <5>2
      <4>2. k \in 1..k
        BY <4>1, <1>0
      <4> HIDE DEF conflicts, r
      <4> QED BY <1>4, <4>1, <4>2
    <3> QED BY <1>0, <1>1, <1>5, <3>1 DEF Covers
  <2>2. SubSeq(es, Len(l) - prev + 1, Len(es)) = <<>>
    BY <1>0, <1>5, SubSeqEmpty
  <2> QED BY <1>2, <1>5, <2>1, <2>2, ConcatEmptySeq
<1>6. CASE conflicts = {} /\ Len(l) < prev + Len(es)
  <2>1. ~Covers(l, r)
    BY <1>0, <1>1, <1>6 DEF Covers
  <2> DEFINE tail == SubSeq(es, Len(l) - prev + 1, Len(es))
  <2>2. /\ tail \in Seq(Entry) /\ Len(tail) = prev + Len(es) - Len(l)
        /\ \A h \in 1..prev + Len(es) - Len(l) : tail[h] = es[Len(l) - prev + h]
    <3>1. \A h \in Len(l) - prev + 1..Len(es) : es[h] \in Entry
      BY <1>0, ElementOfSeq
    <3>2. /\ tail \in Seq(Entry)
          /\ Len(tail) = IF Len(l) - prev + 1 <= Len(es) THEN Len(es) - (Len(l) - prev + 1) + 1 ELSE 0
          /\ \A h \in 1..Len(es) - (Len(l) - prev + 1) + 1 : tail[h] = es[Len(l) - prev + 1 + h - 1]
      BY <1>0, <3>1, SubSeqProperties
    <3> HIDE DEF tail
    <3> QED BY <1>0, <1>6, <3>2
  <2> HIDE DEF tail
  <2> DEFINE joint == l \o tail
  <2>3. /\ joint \in Seq(Entry) /\ Len(joint) = Len(l) + Len(tail)
        /\ \A j \in 1..Len(l) + Len(tail) : joint[j] = IF j <= Len(l) THEN l[j] ELSE tail[j - Len(l)]
    BY <2>2, ConcatProperties
  <2> HIDE DEF joint
  <2>4. \A j \in 1..Len(l) : l[j] = r[j]
    <3>1. CASE Len(l) = 0
      BY <3>1
    <3>2. CASE Len(l) # 0
      <4> HIDE DEF conflicts, r
      <4>1. Len(l) \in 1..Len(l) /\ Len(l) <= prev + Len(es) /\ Len(l) - prev \notin conflicts
        BY <1>0, <1>6, <3>2
      <4> QED BY <1>4, <4>1
    <3> QED BY <3>1, <3>2
  <2>5. \A j \in 1..Len(r) : joint[j] = r[j]
    <3> HIDE DEF r, conflicts
    <3> SUFFICES ASSUME NEW j \in 1..Len(r) PROVE joint[j] = r[j]
      OBVIOUS
    <3>0. j \in Int /\ Len(l) \in Int
      BY <1>0, <1>1
    <3>1. CASE j <= Len(l)
      <4>1. j \in 1..Len(l) + Len(tail) /\ j \in 1..Len(l)
        BY <1>0, <1>1, <2>2, <3>1
      <4> QED BY <2>3, <2>4, <3>1, <4>1
    <3>2. CASE j > Len(l)
      <4>1. joint[j] = tail[j - Len(l)]
        BY <1>0, <1>1, <2>2, <2>3, <3>2
      <4>2. j - Len(l) \in 1..prev + Len(es) - Len(l) /\ Len(l) - prev + (j - Len(l)) = j - prev
        BY <1>0, <1>1, <3>2
      <4>3. tail[j - Len(l)] = es[j - prev]
        BY <2>2, <4>2
      <4>4. j > prev /\ j \in 1..prev + Len(es)
        BY <1>0, <1>1, <3>2
      <4>5. r[j] = es[j - prev]
        BY <1>0, <1>1, <4>4
      <4> QED BY <4>1, <4>3, <4>5
    <3> QED BY <3>0, <3>1, <3>2
  <2>6. Len(joint) = Len(r)
    <3> HIDE DEF r
    <3> QED BY <1>0, <1>1, <2>2, <2>3
  <2>7. joint = r
    <3> HIDE DEF r
    <3> QED BY <1>1, <2>3, <2>5, <2>6, SeqEqual
  <2> QED BY <1>2, <1>6, <2>1, <2>7 DEF joint, tail
<1>7. CASE conflicts # {}
  <2>1. first \in conflicts /\ \A c \in conflicts : first <= c
    <3>1. \E k \in conflicts : \A c \in conflicts : k <= c
      <4>1. conflicts \in SUBSET Nat
        BY <1>0
      <4> HIDE DEF conflicts
      <4> QED BY <4>1, <1>7, LeastNat
    <3> HIDE DEF conflicts
    <3> QED BY <3>1
  <2>2. /\ first \in 1..Len(es) /\ prev + first <= Len(l) /\ l[prev + first].term # es[first].term
    BY <2>1
  <2>3. \A k \in 1..Len(es) : k < first => k \notin conflicts
    <3> HIDE DEF conflicts
    <3> QED BY <1>0, <2>1, <2>2
  <2> DEFINE cut1 == prev - 1 + first
             tail == SubSeq(es, first, Len(es))
  <2> HIDE DEF first
  <2>4. cut1 \in Nat /\ cut1 >= prev /\ cut1 < Len(l) /\ cut1 - prev + 1 = first
    BY <1>0, <2>2
  <2>5. ~Covers(l, r)
    <3>1. prev + first \in 1..prev + Len(es) /\ prev + first > prev /\ (prev + first) - prev = first
      BY <1>0, <2>2
    <3> HIDE DEF r
    <3>2. r[prev + first] = es[first] /\ prev + first \in 1..Len(r)
      BY <1>0, <1>1, <3>1
    <3> QED BY <2>2, <3>2 DEF Covers
  <2> DEFINE head == SubSeq(l, 1, cut1)
  <2>6. /\ head \in Seq(Entry) /\ Len(head) = cut1 /\ \A j \in 1..cut1 : head[j] = l[j]
    <3>1. \A j \in 1..cut1 : l[j] \in Entry
      BY <1>0, <2>4, ElementOfSeq
    <3> HIDE DEF cut1
    <3> QED BY <2>4, <3>1, SubSeqProperties
  <2>7. /\ tail \in Seq(Entry) /\ Len(tail) = Len(es) - first + 1
        /\ \A h \in 1..Len(es) - first + 1 : tail[h] = es[first + h - 1]
    <3>1. \A h \in first..Len(es) : es[h] \in Entry
      BY <1>0, <2>2, ElementOfSeq
    <3> QED BY <1>0, <2>2, <3>1, SubSeqProperties
  <2>8. Merge(l, prev, es) = head \o tail
    <3> HIDE DEF conflicts
    <3>1. kept = head
      BY <1>7
    <3>2. Len(kept) - prev + 1 = first
      BY <2>4, <2>6, <3>1
    <3> HIDE DEF kept, head
    <3> QED BY <1>2, <3>1, <3>2
  <2> HIDE DEF head, tail
  <2> DEFINE joint == head \o tail
  <2>9. /\ joint \in Seq(Entry) /\ Len(joint) = Len(head) + Len(tail)
        /\ \A j \in 1..Len(head) + Len(tail) :
             joint[j] = IF j <= Len(head) THEN head[j] ELSE tail[j - Len(head)]
    BY <2>6, <2>7, ConcatProperties
  <2> HIDE DEF joint
  <2>10. \A j \in 1..cut1 : l[j] = r[j]
    <3>1. CASE cut1 = 0
      BY <3>1
    <3>2. CASE cut1 # 0
      <4>1. cut1 \in 1..Len(l) /\ cut1 <= prev + Len(es) /\ cut1 - prev < first
        BY <1>0, <2>2, <2>4, <3>2
      <4>2. cut1 > prev => cut1 - prev \in 1..Len(es)
        BY <1>0, <2>2, <2>4, <4>1
      <4> HIDE DEF conflicts, r, cut1
      <4> QED BY <1>4, <2>3, <4>1, <4>2
    <3> QED BY <3>1, <3>2
  <2>11. \A j \in 1..Len(r) : joint[j] = r[j]
    <3> HIDE DEF r, conflicts, kept, cut1
    <3> SUFFICES ASSUME NEW j \in 1..Len(r) PROVE joint[j] = r[j]
      OBVIOUS
    <3>0. j \in Int /\ cut1 \in Int
      BY <1>0, <1>1, <2>4
    <3>1. CASE j <= cut1
      <4>1. j \in 1..Len(head) + Len(tail) /\ j \in 1..cut1
        BY <1>0, <1>1, <2>2, <2>4, <2>6, <2>7, <3>1
      <4> QED BY <2>6, <2>9, <2>10, <3>1, <4>1
    <3>2. CASE j > cut1
      <4>0. j \in 1..Len(head) + Len(tail) /\ ~(j <= Len(head)) /\ Len(head) = cut1
        BY <1>0, <1>1, <2>2, <2>4, <2>6, <2>7, <3>0, <3>2
      <4>1. joint[j] = tail[j - cut1]
        BY <2>9, <4>0
      <4>2. j - cut1 \in 1..Len(es) - first + 1 /\ first + (j - cut1) - 1 = j - prev
        BY <1>0, <1>1, <2>2, <2>4, <3>0, <3>2 DEF cut1
      <4>3. tail[j - cut1] = es[j - prev]
        BY <2>7, <4>2
      <4>4. j > prev /\ j \in 1..prev + Len(es)
        BY <1>0, <1>1, <2>4, <3>2
      <4>5. r[j] = es[j - prev]
        BY <1>0, <1>1, <4>4
      <4> QED BY <4>1, <4>3, <4>5
    <3> QED BY <3>0, <3>1, <3>2
  <2>12. Len(joint) = Len(r)
    <3> HIDE DEF r
    <3> QED BY <1>0, <1>1, <2>2, <2>4, <2>6, <2>7, <2>9
  <2>13. joint = r
    <3> HIDE DEF r
    <3> QED BY <1>1, <2>9, <2>11, <2>12, SeqEqual
  <2> QED BY <2>5, <2>8, <2>13 DEF joint
<1> HIDE DEF conflicts
<1> QED BY <1>0, <1>5, <1>6, <1>7

\* The link that Grew puts on top of a log.
NewLink(i) ==
  [index |-> Len(log[i]) + 1, entry |-> log'[i][Len(log[i]) + 1], after |-> LastTerm(log[i])]

Link == [index : Nat \ {0}, entry : Entry, after : Nat]

\* A log's links are links.
LEMMA LinksType ==
  ASSUME NEW l \in Seq(Entry)
  PROVE  Links(l) \subseteq Link
<1>1. Len(l) \in Nat /\ DOMAIN l = 1..Len(l) /\ \A k \in 1..Len(l) : l[k] \in Entry
  BY LenProperties, ElementOfSeq
<1>2. \A k \in Int : TermAt(l, k) \in Nat
  BY <1>1 DEF TermAt, Entry
<1> QED BY SMTT(20), <1>1, <1>2 DEF Links, Link

\* What a sequence of entries is made of.
LEMMA EntriesOfSeq ==
  ASSUME NEW l \in Seq(Entry)
  PROVE  /\ Len(l) \in Nat /\ DOMAIN l = 1..Len(l)
         /\ \A k \in 1..Len(l) : l[k] \in Entry /\ l[k].term \in Nat
<1>1. \A k \in 1..Len(l) : l[k] \in Entry
  BY ElementOfSeq
<1>2. \A k \in 1..Len(l) : l[k].term \in Nat
  BY <1>1 DEF Entry
<1> QED BY <1>1, <1>2, LenProperties

\* So are those of the messages.
LEMMA AllLinksType ==
  ASSUME TypeInv
  PROVE  AllLinks \subseteq Link
<1>1. ASSUME NEW i \in Node PROVE Links(log[i]) \subseteq Link
  BY LinksType DEF TypeInv, DurableType
<1>2. ASSUME NEW m \in Appends PROVE MsgLinks(m) \subseteq Link
  <2>1. m \in SoundMessage /\ m.type = "Append"
    BY ElementOfSeq, LenProperties DEF Appends, InFlight, TypeInv, QueueType
  <2>2. m.prevIndex \in Nat /\ m.prevTerm \in Nat /\ m.entries \in Seq(Entry)
    BY <2>1 DEF SoundMessage, Message
  <2>3. Len(m.entries) \in Nat /\ DOMAIN m.entries = 1..Len(m.entries)
        /\ \A k \in 1..Len(m.entries) : m.entries[k] \in Entry /\ m.entries[k].term \in Nat
    BY <2>2, EntriesOfSeq
  <2>4. \A k \in 1..Len(m.entries) : k = 1 \/ k - 1 \in 1..Len(m.entries)
    BY <2>3
  <2> QED BY <2>2, <2>3, <2>4 DEF MsgLinks, Link
<1> QED BY <1>1, <1>2 DEF AllLinks

\* A message in flight, by its type.
LEMMA AppendFields ==
  ASSUME TypeInv, NEW m \in Appends
  PROVE  /\ m \in SoundMessage /\ m.type = "Append" /\ m \in InFlight(queue)
         /\ m.src \in Node /\ m.dst \in Node /\ m.term \in Nat
         /\ m.prevIndex \in Nat /\ m.prevTerm \in Nat /\ m.entries \in Seq(Entry)
         /\ m.commit \in Nat
         /\ Len(m.entries) \in Nat /\ DOMAIN m.entries = 1..Len(m.entries)
         /\ \A k \in 1..Len(m.entries) : m.entries[k] \in Entry /\ m.entries[k].term \in Nat
<1>1. m \in SoundMessage /\ m.type = "Append" /\ m \in InFlight(queue)
  BY ElementOfSeq, LenProperties DEF Appends, InFlight, TypeInv, QueueType
<1>2. /\ m.src \in Node /\ m.dst \in Node /\ m.term \in Nat
      /\ m.prevIndex \in Nat /\ m.prevTerm \in Nat /\ m.entries \in Seq(Entry)
      /\ m.commit \in Nat
  BY <1>1 DEF SoundMessage, Message
<1>3. Len(m.entries) \in Nat /\ DOMAIN m.entries = 1..Len(m.entries)
      /\ \A k \in 1..Len(m.entries) : m.entries[k] \in Entry /\ m.entries[k].term \in Nat
  BY <1>2, EntriesOfSeq
<1> QED BY <1>1, <1>2, <1>3

\* Appending one entry makes one link.
LEMMA AppendLinks ==
  ASSUME NEW l \in Seq(Entry), NEW e \in Entry
  PROVE  /\ Links(l) \subseteq Links(Append(l, e))
         /\ Links(Append(l, e)) \subseteq
              Links(l) \cup {[index |-> Len(l) + 1, entry |-> e, after |-> LastTerm(l)]}
         /\ [index |-> Len(l) + 1, entry |-> e, after |-> LastTerm(l)] \in Links(Append(l, e))
<1> DEFINE r == Append(l, e)
           n == Len(l)
<1>1. /\ r \in Seq(Entry) /\ Len(r) = n + 1 /\ \A k \in 1..n : r[k] = l[k]
      /\ r[n + 1] = e /\ n \in Nat /\ DOMAIN l = 1..n
  BY AppendProperties, LenProperties
<1>2. DOMAIN r = 1..n + 1
  BY <1>1, LenProperties
<1>3. ASSUME NEW k \in 1..n + 1 PROVE TermAt(r, k - 1) = TermAt(l, k - 1)
  <2> HIDE DEF r, n
  <2> QED BY <1>1, <1>2 DEF TermAt
<1>4. TermAt(l, (n + 1) - 1) = LastTerm(l)
  BY <1>1 DEF LastTerm
<1> HIDE DEF r
<1>5. Links(l) \subseteq Links(r)
  <2> SUFFICES ASSUME NEW k \in 1..n
               PROVE  [index |-> k, entry |-> l[k], after |-> TermAt(l, k - 1)] \in Links(r)
    BY <1>1 DEF Links
  <2>1. k \in 1..n + 1
    BY <1>1
  <2>2. [index |-> k, entry |-> r[k], after |-> TermAt(r, k - 1)] \in Links(r)
    BY <1>2, <2>1 DEF Links
  <2> QED BY <1>1, <1>3, <2>1, <2>2
<1>6. Links(r) \subseteq Links(l) \cup {[index |-> n + 1, entry |-> e, after |-> LastTerm(l)]}
  <2> SUFFICES ASSUME NEW k \in 1..n + 1
               PROVE  [index |-> k, entry |-> r[k], after |-> TermAt(r, k - 1)]
                        \in Links(l) \cup {[index |-> n + 1, entry |-> e, after |-> LastTerm(l)]}
    BY <1>2 DEF Links
  <2>1. CASE k = n + 1
    BY <1>1, <1>3, <1>4, <2>1
  <2>2. CASE k \in 1..n
    <3>1. [index |-> k, entry |-> l[k], after |-> TermAt(l, k - 1)] \in Links(l)
      BY <1>1, <2>2 DEF Links
    <3> QED BY <1>1, <1>3, <2>2, <3>1
  <2> QED BY <1>1, <2>1, <2>2
<1>7. [index |-> n + 1, entry |-> e, after |-> LastTerm(l)] \in Links(r)
  <2>1. n + 1 \in 1..n + 1
    BY <1>1
  <2>2. [index |-> n + 1, entry |-> r[n + 1], after |-> TermAt(r, (n + 1) - 1)] \in Links(r)
    BY <1>2, <2>1 DEF Links
  <2> QED BY <1>1, <1>3, <1>4, <2>1, <2>2
<1> QED BY <1>5, <1>6, <1>7 DEF r

\* The entries of a message are the end of its sender's log.
LEMMA EntriesToSend ==
  ASSUME NEW l \in Seq(Entry), NEW next \in Nat, next >= 1
  PROVE  /\ SubSeq(l, next, Len(l)) \in Seq(Entry)
         /\ Len(SubSeq(l, next, Len(l))) = IF next <= Len(l) THEN Len(l) - next + 1 ELSE 0
         /\ \A k \in 1..Len(SubSeq(l, next, Len(l))) :
              SubSeq(l, next, Len(l))[k] = l[next + k - 1]
<1> DEFINE es == SubSeq(l, next, Len(l))
<1>0. Len(l) \in Nat /\ \A k \in next..Len(l) : l[k] \in Entry
  BY LenProperties, ElementOfSeq
<1>1. /\ es \in Seq(Entry) /\ Len(es) = IF next <= Len(l) THEN Len(l) - next + 1 ELSE 0
      /\ \A k \in 1..Len(l) - next + 1 : es[k] = l[next + k - 1]
  BY <1>0, SubSeqProperties
<1> HIDE DEF es
<1>2. \A k \in 1..Len(es) : es[k] = l[next + k - 1]
  BY <1>0, <1>1
<1> QED BY <1>1, <1>2 DEF es

\* A message carries links of its sender's log.
LEMMA AppendMsgLinks ==
  ASSUME NEW i, NEW j, NEW t, NEW l \in Seq(Entry), NEW next \in Nat, next >= 1,
         NEW commit, NEW ctx
  PROVE  MsgLinks(AppendMsg(i, j, t, l, next, commit, ctx)) \subseteq Links(l)
<1> DEFINE m == AppendMsg(i, j, t, l, next, commit, ctx)
           es == SubSeq(l, next, Len(l))
<1>0. Len(l) \in Nat /\ DOMAIN l = 1..Len(l)
  BY LenProperties
<1>1. /\ es \in Seq(Entry) /\ Len(es) = IF next <= Len(l) THEN Len(l) - next + 1 ELSE 0
      /\ \A k \in 1..Len(es) : es[k] = l[next + k - 1]
  BY EntriesToSend
<1>2. DOMAIN es = 1..Len(es)
  BY <1>1, LenProperties
<1>3. m.entries = es /\ m.prevIndex = next - 1 /\ m.prevTerm = TermAt(l, next - 1)
  BY DEF AppendMsg
<1> HIDE DEF m, es
<1>4. \A k \in 1..Len(es) : es[k] = l[next + k - 1]
  BY <1>1
<1>5. MsgLinks(m) \subseteq Links(l)
  <2> SUFFICES ASSUME NEW k \in 1..Len(es)
               PROVE  [index |-> (next - 1) + k, entry |-> es[k],
                       after |-> IF k = 1 THEN TermAt(l, next - 1) ELSE es[k - 1].term] \in Links(l)
    BY <1>2, <1>3 DEF MsgLinks
  <2> DEFINE p == (next - 1) + k
  <2>1. p \in 1..Len(l) /\ p = next + k - 1
    BY <1>0, <1>1
  <2>4. es[k] = l[p]
    BY <1>4, <2>1
  <2>2. (IF k = 1 THEN TermAt(l, next - 1) ELSE es[k - 1].term) = TermAt(l, p - 1)
    <3>1. CASE k = 1
      BY <3>1
    <3>2. CASE k # 1
      <4>1. k - 1 \in 1..Len(es) /\ next + (k - 1) - 1 = p - 1 /\ p - 1 \in 1..Len(l)
        BY <1>0, <1>1, <2>1, <3>2
      <4>2. es[k - 1] = l[p - 1]
        BY <1>4, <4>1
      <4> HIDE DEF p
      <4> QED BY <1>0, <3>2, <4>1, <4>2 DEF TermAt
    <3> QED BY <3>1, <3>2
  <2> HIDE DEF p
  <2>3. [index |-> p, entry |-> l[p], after |-> TermAt(l, p - 1)] \in Links(l)
    BY <1>0, <2>1 DEF Links
  <2> QED BY <2>1, <2>2, <2>3, <2>4 DEF p
<1> QED BY <1>5 DEF m

----------------------------------------------------------------------------
(* The inductive invariant of the logs *)

\* v has voted for c in term t, and no other candidate can count its vote.
Backed(v, t, c) == VotedIn(v, t, c) /\ \A d \in Node : Claim(v, t, d) => d = c

Elected(t, c) == \E Q \in SUBSET Node : IsQuorum(Q) /\ \A v \in Q : Backed(v, t, c)

\* c has won term t and is past its candidacy, for good.
LeaderSeen(t, c) ==
  Elected(t, c) /\ (currentTerm[c] > t \/ (currentTerm[c] = t /\ role[c] # "candidate"))

LinksInv == Unique(AllLinks) /\ OneRun(AllLinks) /\ Rising(AllLinks)

\* Every link is of a term that has been won.
FromLeaders == \A a \in AllLinks : \E c \in Node : LeaderSeen(a.entry.term, c)

\* A leader's log holds everything of its term, and something of its term last.
Owned ==
  \A i \in Node : role[i] = "leader" =>
    /\ \A a \in AllLinks : a.entry.term = currentTerm[i] => a \in Links(log[i])
    /\ Len(log[i]) >= 1 /\ LastTerm(log[i]) = currentTerm[i]

TermsBounded ==
  \A i \in Node :
    /\ \A k \in 1..Len(log[i]) : log[i][k].term <= currentTerm[i]
    /\ role[i] # "follower" => currentTerm[i] >= 1

\* Where the entries of m end, its sender's log ended, with its own term.
EndTerm(m) ==
  IF Len(m.entries) >= 1 THEN m.entries[Len(m.entries)].term = m.term
  ELSE m.prevIndex >= 1 /\ m.prevTerm \in {0, m.term}

AppendsInv ==
  \A m \in Appends :
    /\ LeaderSeen(m.term, m.src) /\ EndTerm(m)
    /\ \A k \in 1..Len(m.entries) : m.entries[k].term <= m.term

LogInv == PeersInv /\ LinksInv /\ FromLeaders /\ Owned /\ TermsBounded /\ AppendsInv

\* Votes that back a winner stay.
LEMMA BackedKept ==
  ASSUME TypeInv, TypeInv', Final, VotesAccounted,
         NEW v \in Node, NEW t \in Nat, NEW c \in Node, Backed(v, t, c)
  PROVE  Backed(v, t, c)'
<1>0. \A n \in Node : currentTerm[n] \in Nat /\ currentTerm'[n] \in Nat
  BY DEF TypeInv, DurableType
<1>1. VotedIn(v, t, c)'
  <2>1. c # None
    BY RaftAssumption
  <2> QED BY <1>0, <2>1 DEF VotedIn, Final, Backed
<1>2. ASSUME NEW d \in Node, Claim(v, t, d)' PROVE d = c
  <2>1. CASE Claim(v, t, d)
    BY <2>1 DEF Backed
  <2>2. CASE Cast(v, t, d)
    BY <2>2 DEF Cast, Backed
  <2> QED BY <1>2, <2>1, <2>2 DEF VotesAccounted
<1> QED BY <1>1, <1>2 DEF Backed

\* A term once won stays won, by the same node.
LEMMA LeaderSeenKept ==
  ASSUME TypeInv, TypeInv', Final, VotesAccounted, RolesStep,
         NEW t \in Nat, NEW c \in Node, LeaderSeen(t, c)
  PROVE  LeaderSeen(t, c)'
<1>0. \A n \in Node : currentTerm[n] \in Nat /\ currentTerm'[n] \in Nat
  BY DEF TypeInv, DurableType
<1>1. Elected(t, c)'
  <2>1. PICK Q \in SUBSET Node : IsQuorum(Q) /\ \A v \in Q : Backed(v, t, c)
    BY DEF LeaderSeen, Elected
  <2>2. \A v \in Q : Backed(v, t, c)'
    BY <2>1, BackedKept
  <2> QED BY <2>1, <2>2 DEF Elected
<1>2. currentTerm'[c] > t \/ (currentTerm'[c] = t /\ role'[c] # "candidate")
  BY <1>0 DEF LeaderSeen, Final, RolesStep
<1> QED BY <1>1, <1>2 DEF LeaderSeen

\* A leader has won its term, and nobody else has.
SeenLeaders ==
  \A i \in Node : role[i] = "leader" =>
    LeaderSeen(currentTerm[i], i) /\ \A c \in Node : Elected(currentTerm[i], c) => c = i

\* The votes behind a leader make it the one that won its term.
LEMMA LeadersAreSeen == TypeInv /\ VoteInv => SeenLeaders
<1> SUFFICES ASSUME TypeInv, VoteInv, NEW i \in Node, role[i] = "leader"
             PROVE  /\ LeaderSeen(currentTerm[i], i)
                    /\ \A c \in Node : Elected(currentTerm[i], c) => c = i
  BY DEF SeenLeaders
<1>1. votes[i] \in SUBSET Node /\ IsQuorum(votes[i]) /\ currentTerm[i] \in Nat
  BY DEF VoteInv, TypeInv, LeaderType, DurableType
<1>2. ASSUME NEW v \in votes[i] PROVE Backed(v, currentTerm[i], i)
  <2>1. v \in Node /\ Claim(v, currentTerm[i], i)
    BY <1>1 DEF Claim, HeldVote
  <2> QED BY <1>1, <2>1 DEF Backed, VoteInv
<1>3. ASSUME NEW c \in Node, Elected(currentTerm[i], c) PROVE c = i
  <2>1. PICK Q \in SUBSET Node : IsQuorum(Q) /\ \A v \in Q : Backed(v, currentTerm[i], c)
    BY <1>3 DEF Elected
  <2>2. PICK v \in Node : v \in votes[i] /\ v \in Q
    BY <1>1, <2>1, QuorumsMeet
  <2>3. Claim(v, currentTerm[i], i)
    BY <2>2 DEF Claim, HeldVote
  <2> QED BY <2>1, <2>2, <2>3 DEF Backed
<1> QED BY <1>1, <1>2, <1>3 DEF LeaderSeen, Elected

\* What the proofs below know of a step.
GoodStep ==
  /\ TypeInv /\ TypeInv' /\ VoteInv /\ SeenLeaders' /\ ElectionSafety'
  /\ Final /\ VotesAccounted /\ Summary

\* Every step from a state with the election's invariant is such a step.
LEMMA GoodSteps == TypeInv /\ VoteInv /\ PeersInv /\ [Next]_vars => GoodStep /\ VoteInv'
<1>1. TypeInv /\ VoteInv /\ PeersInv /\ [Next]_vars =>
        TypeInv' /\ VoteInv' /\ Final /\ VotesAccounted /\ Summary
  BY NextStep, NextSummary, VoteInvKept DEF VoteStep
<1>2. TypeInv /\ VoteInv => ElectionSafety
  BY VoteInvImpliesElectionSafety
<1>3. TypeInv' /\ VoteInv' => SeenLeaders' /\ ElectionSafety'
  BY LeadersAreSeen, <1>2, PTL
<1> QED BY <1>1, <1>3 DEF GoodStep

\* Terms and logs on either side of a step.
LEMMA StepTypes ==
  ASSUME GoodStep, NEW i \in Node
  PROVE  /\ currentTerm[i] \in Nat /\ currentTerm'[i] \in Nat /\ currentTerm'[i] >= currentTerm[i]
         /\ log[i] \in Seq(Entry) /\ log'[i] \in Seq(Entry)
BY DEF GoodStep, TypeInv, DurableType, Final

\* A new leader starts a term of which there is no entry yet.
LEMMA NewTermIsNew ==
  ASSUME GoodStep, FromLeaders, NEW i \in Node, role[i] = "candidate", role'[i] = "leader",
         NEW a \in AllLinks
  PROVE  a.entry.term # currentTerm[i]
<1>1. SUFFICES ASSUME a.entry.term = currentTerm[i] PROVE FALSE
  OBVIOUS
<1>2. PICK t \in Nat : t = currentTerm[i]
  BY StepTypes
<1>3. PICK c \in Node : LeaderSeen(t, c)
  BY <1>1, <1>2 DEF FromLeaders
<1>4. LeaderSeen(t, c)'
  BY <1>3, LeaderSeenKept DEF GoodStep, Summary
<1>5. currentTerm'[i] = t
  BY <1>2 DEF GoodStep, Summary, RolesStep, Grew
<1>6. \A d \in Node : Elected(t, d)' => d = i
  BY <1>5 DEF GoodStep, SeenLeaders
<1>7. c = i
  BY <1>4, <1>6 DEF LeaderSeen
<1> QED BY <1>2, <1>3, <1>7 DEF LeaderSeen

\* What Grew leaves: one link more.
LEMMA GrewLinks ==
  ASSUME GoodStep, NEW i \in Node, Grew(i)
  PROVE  /\ Len(log'[i]) = Len(log[i]) + 1 /\ Len(log[i]) \in Nat
         /\ \A k \in 1..Len(log[i]) : log'[i][k] = log[i][k]
         /\ Links(log[i]) \subseteq Links(log'[i])
         /\ Links(log'[i]) \subseteq Links(log[i]) \cup {NewLink(i)}
         /\ NewLink(i) \in Links(log'[i])
         /\ NewLink(i) \in Link
         /\ NewLink(i).index = Len(log[i]) + 1
         /\ NewLink(i).entry.term = currentTerm[i]
         /\ NewLink(i).after = LastTerm(log[i])
         /\ LastTerm(log'[i]) = currentTerm[i]
<1>1. PICK e \in Entry : e.term = currentTerm[i] /\ log'[i] = Append(log[i], e)
  BY DEF Grew
<1>2. log[i] \in Seq(Entry) /\ log'[i] \in Seq(Entry) /\ Len(log[i]) \in Nat
  BY StepTypes, LenProperties
<1>3. /\ Len(log'[i]) = Len(log[i]) + 1 /\ \A k \in 1..Len(log[i]) : log'[i][k] = log[i][k]
      /\ log'[i][Len(log[i]) + 1] = e
  BY <1>1, <1>2, AppendProperties
<1>4. NewLink(i) = [index |-> Len(log[i]) + 1, entry |-> e, after |-> LastTerm(log[i])]
  BY <1>3 DEF NewLink
<1>5. /\ Links(log[i]) \subseteq Links(log'[i])
      /\ Links(log'[i]) \subseteq Links(log[i]) \cup {NewLink(i)}
      /\ NewLink(i) \in Links(log'[i])
  BY <1>1, <1>2, <1>4, AppendLinks
<1>6. NewLink(i) \in Link
  BY <1>2, <1>5, LinksType
<1>7. LastTerm(log'[i]) = currentTerm[i]
  <2>1. DOMAIN log'[i] = 1..Len(log'[i])
    BY <1>2, LenProperties
  <2> QED BY <1>1, <1>2, <1>3, <2>1 DEF LastTerm, TermAt
<1> QED BY <1>1, <1>2, <1>3, <1>4, <1>5, <1>6, <1>7

\* The log that the receiver of m may turn its own into.
Described(i, m) == Joined(log[i], m.prevIndex, m.entries)

\* What Follows leaves: the log as it was, or the one that m describes, which
\* ends with an entry of m's term.
LEMMA FollowsResult ==
  ASSUME GoodStep, LogInv, NEW i \in Node, NEW m \in Appends, Follows(i, m)
  PROVE  /\ Described(i, m) \in Seq(Entry)
         /\ Len(Described(i, m)) = m.prevIndex + Len(m.entries) /\ Len(Described(i, m)) >= 1
         /\ LastTerm(Described(i, m)) = m.term
         /\ \A k \in 1..Len(Described(i, m)) : Described(i, m)[k].term <= m.term
         /\ Links(log[i]) \subseteq AllLinks /\ Links(Described(i, m)) \subseteq AllLinks
         /\ log'[i] = IF Covers(log[i], Described(i, m)) THEN log[i] ELSE Described(i, m)
<1> DEFINE d == Described(i, m)
<1>0. /\ log[i] \in Seq(Entry) /\ m \in SoundMessage /\ m.type = "Append"
      /\ m.prevIndex \in 0..Len(log[i]) /\ m.entries \in Seq(Entry)
      /\ HasPrevious(log[i], m) /\ Len(m.entries) \in Nat /\ Len(log[i]) \in Nat
      /\ m.term \in Nat /\ m.term >= currentTerm[i] /\ currentTerm[i] \in Nat
      /\ log'[i] = Merge(log[i], m.prevIndex, m.entries) /\ m.prevIndex \in Nat
      /\ DOMAIN log[i] = 1..Len(log[i])
      /\ \A k \in 1..Len(log[i]) : log[i][k] \in Entry /\ log[i][k].term \in Nat
      /\ \A k \in 1..Len(m.entries) : m.entries[k] \in Entry /\ m.entries[k].term \in Nat
  <2>1. m \in SoundMessage /\ m.type = "Append" /\ m.prevIndex \in Nat
        /\ m.entries \in Seq(Entry) /\ Len(m.entries) \in Nat /\ m.term \in Nat
        /\ \A k \in 1..Len(m.entries) : m.entries[k] \in Entry /\ m.entries[k].term \in Nat
    BY AppendFields DEF GoodStep
  <2>2. log[i] \in Seq(Entry) /\ currentTerm[i] \in Nat
    BY StepTypes
  <2>3. Len(log[i]) \in Nat /\ DOMAIN log[i] = 1..Len(log[i])
        /\ \A k \in 1..Len(log[i]) : log[i][k] \in Entry /\ log[i][k].term \in Nat
    BY <2>2, EntriesOfSeq
  <2> QED BY <2>1, <2>2, <2>3 DEF Follows, HasPrevious
<1>1. /\ d \in Seq(Entry) /\ Len(d) = m.prevIndex + Len(m.entries)
      /\ \A j \in 1..m.prevIndex + Len(m.entries) :
           d[j] = IF j <= m.prevIndex THEN log[i][j] ELSE m.entries[j - m.prevIndex]
      /\ DOMAIN d = 1..Len(d)
  BY ZenonT(30), <1>0, JoinedProperties, LenProperties DEF Described
<1>2. /\ \A k \in 1..Len(m.entries) : m.entries[k].term <= m.term
      /\ EndTerm(m)
      /\ \A k \in 1..Len(log[i]) : log[i][k].term <= currentTerm[i]
      /\ Unique(AllLinks) /\ Rising(AllLinks)
  BY DEF LogInv, AppendsInv, TermsBounded, LinksInv
<1>3. Links(log[i]) \subseteq AllLinks /\ MsgLinks(m) \subseteq AllLinks
  BY DEF AllLinks
<1>4. Links(d) \subseteq AllLinks
  BY <1>0, <1>3, JoinedLinks DEF Described
<1>5. log'[i] = IF Covers(log[i], d) THEN log[i] ELSE d
  BY <1>0, <1>2, <1>3, <1>4, MergeResult DEF Described
<1> HIDE DEF d
<1>6. \A k \in 1..Len(d) : d[k].term <= m.term
  <2> SUFFICES ASSUME NEW k \in 1..Len(d) PROVE d[k].term <= m.term
    OBVIOUS
  <2>1. CASE k <= m.prevIndex
    <3>1. k \in 1..Len(log[i]) /\ d[k] = log[i][k]
      BY <1>0, <1>1, <2>1
    <3> QED BY <1>0, <1>2, <3>1
  <2>2. CASE k > m.prevIndex
    <3>1. k - m.prevIndex \in 1..Len(m.entries) /\ d[k] = m.entries[k - m.prevIndex]
      BY <1>0, <1>1, <2>2
    <3> QED BY <1>2, <3>1
  <2> QED BY <1>0, <1>1, <2>1, <2>2
<1>7. Len(d) >= 1 /\ LastTerm(d) = m.term
  <2>1. CASE Len(m.entries) >= 1
    <3>1. Len(d) \in 1..m.prevIndex + Len(m.entries) /\ Len(d) > m.prevIndex
          /\ Len(d) - m.prevIndex = Len(m.entries)
      BY <1>0, <1>1, <2>1
    <3>2. d[Len(d)] = m.entries[Len(m.entries)]
      BY <1>0, <1>1, <3>1
    <3> QED BY <1>0, <1>1, <1>2, <2>1, <3>1, <3>2 DEF LastTerm, TermAt, EndTerm
  <2>2. CASE ~(Len(m.entries) >= 1)
    <3>1. /\ Len(d) = m.prevIndex /\ m.prevIndex \in 1..Len(log[i])
          /\ m.prevTerm \in {0, m.term}
      BY <1>0, <1>1, <1>2, <2>2 DEF EndTerm
    <3>2. d[Len(d)] = log[i][m.prevIndex] /\ Len(d) \in 1..Len(d)
      BY <1>0, <1>1, <3>1
    <3>3. log[i][m.prevIndex].term = m.prevTerm
      BY <1>0, <3>1 DEF HasPrevious, TermAt
    <3>4. log[i][m.prevIndex].term >= 1
      <4> DEFINE a == [index |-> m.prevIndex, entry |-> log[i][m.prevIndex],
                       after |-> TermAt(log[i], m.prevIndex - 1)]
      <4>1. a \in AllLinks
        BY <1>0, <1>3, <3>1, LinkAt
      <4>2. a.entry.term >= 1
        <5> HIDE DEF a
        <5> QED BY <1>2, <4>1 DEF Rising
      <4> QED BY <4>2
    <3> QED BY <1>0, <1>1, <3>1, <3>2, <3>3, <3>4 DEF LastTerm, TermAt
  <2> QED BY <2>1, <2>2
<1> QED BY <1>1, <1>3, <1>4, <1>5, <1>6, <1>7 DEF d

\* Only leaders make links.
LEMMA LogLinksStep ==
  ASSUME GoodStep, LogInv, NEW i \in Node, NEW a \in Links(log'[i])
  PROVE  a \in AllLinks \/ (Grew(i) /\ a = NewLink(i))
<1>1. Links(log[i]) \subseteq AllLinks
  BY DEF AllLinks
<1>2. CASE log'[i] = log[i]
  BY <1>1, <1>2
<1>3. CASE Grew(i)
  BY <1>1, <1>3, GrewLinks
<1>4. ASSUME NEW m \in Appends, Follows(i, m) PROVE a \in AllLinks
  <2>1. \/ log'[i] = log[i]
        \/ log'[i] = Described(i, m) /\ Links(Described(i, m)) \subseteq AllLinks
    BY <1>4, FollowsResult
  <2> QED BY <1>1, <2>1
<1> QED BY <1>2, <1>3, <1>4 DEF GoodStep, Summary, LogsStep

\* The only link a step adds is that of the entry a leader has just written.
LEMMA AllLinksStep ==
  ASSUME GoodStep, LogInv, NEW a \in AllLinks'
  PROVE  a \in AllLinks \/ \E i \in Node : Grew(i) /\ a = NewLink(i)
<1>1. ASSUME NEW i \in Node, a \in Links(log'[i])
      PROVE  a \in AllLinks \/ \E j \in Node : Grew(j) /\ a = NewLink(j)
  BY <1>1, LogLinksStep
<1>2. ASSUME NEW m \in Appends', a \in MsgLinks(m)
      PROVE  a \in AllLinks \/ \E j \in Node : Grew(j) /\ a = NewLink(j)
  <2>1. m \in InFlight(queue') /\ m.type = "Append"
    BY DEF Appends
  <2>2. CASE m \in InFlight(queue)
    <3>1. m \in Appends
      BY <2>1, <2>2 DEF Appends
    <3> QED BY <1>2, <3>1 DEF AllLinks
  <2>3. CASE Fresh(m)
    <3>1. FreshAppend(m)
      BY <2>1, <2>3 DEF Fresh
    <3>2. m.src \in Node
      <4>1. queue' \in Seq(Message)
        BY DEF GoodStep, TypeInv, QueueType
      <4>2. m \in Message
        BY <2>1, <4>1, ElementOfSeq, LenProperties DEF InFlight
      <4> QED BY <4>2 DEF Message
    <3>3. PICK next \in Nat, ctx \in Nat :
            /\ next >= 1
            /\ m = AppendMsg(m.src, m.dst, currentTerm'[m.src], log'[m.src], next,
                             commitIndex'[m.src], ctx)
      BY <3>1 DEF FreshAppend
    <3>4. log'[m.src] \in Seq(Entry)
      BY <3>2, StepTypes
    <3>5. MsgLinks(m) \subseteq Links(log'[m.src])
      <4>1. PICK l, t, c : l = log'[m.src] /\ t = currentTerm'[m.src] /\ c = commitIndex'[m.src]
        OBVIOUS
      <4>2. m = AppendMsg(m.src, m.dst, t, l, next, c, ctx) /\ l \in Seq(Entry) /\ next >= 1
        BY <3>3, <3>4, <4>1
      <4>3. MsgLinks(m) \subseteq Links(l)
        BY <4>2, AppendMsgLinks
      <4> QED BY <4>1, <4>3
    <3> QED BY <1>1, <1>2, <3>2, <3>5
  <2> QED BY <2>1, <2>2, <2>3 DEF GoodStep, Summary, MessagesStep
<1> QED BY <1>1, <1>2 DEF AllLinks

\* Whoever puts an entry on its log leads, or has just won, its term.
LEMMA GrewRole ==
  ASSUME GoodStep, LogInv, NEW i \in Node, Grew(i)
  PROVE  /\ role[i] \in {"leader", "candidate"} /\ role'[i] = "leader"
         /\ currentTerm'[i] = currentTerm[i] /\ currentTerm[i] >= 1
<1>1. role'[i] = "leader" /\ currentTerm'[i] = currentTerm[i]
  BY DEF Grew
<1>2. role[i] \in {"leader", "candidate"}
  BY <1>1 DEF GoodStep, Summary, RolesStep
<1> QED BY <1>1, <1>2 DEF LogInv, TermsBounded

\* The other links of a new link's term are below it in its leader's log.
LEMMA BelowNewLink ==
  ASSUME GoodStep, LogInv, NEW i \in Node, Grew(i),
         NEW a \in AllLinks, a.entry.term = currentTerm[i]
  PROVE  role[i] = "leader" /\ a \in Links(log[i]) /\ a.index \in 1..Len(log[i])
<1>1. role[i] \in {"leader", "candidate"} /\ role'[i] = "leader"
  BY GrewRole
<1>2. role[i] = "leader"
  BY <1>1, NewTermIsNew DEF LogInv
<1>3. a \in Links(log[i])
  BY <1>2 DEF LogInv, Owned
<1>4. DOMAIN log[i] = 1..Len(log[i])
  BY StepTypes, LenProperties
<1> QED BY <1>2, <1>3, <1>4 DEF Links

\* One term has one leader, so one new link at most.
LEMMA OneGrows ==
  ASSUME GoodStep, LogInv, NEW i \in Node, NEW j \in Node, Grew(i), Grew(j),
         currentTerm[i] = currentTerm[j]
  PROVE  i = j
BY DEF Grew, GoodStep, ElectionSafety

\* A leader still holds all of its term, with something of it last.
LEMMA OwnedStep ==
  ASSUME GoodStep, LogInv
  PROVE  Owned'
<1> SUFFICES ASSUME NEW i \in Node, role'[i] = "leader"
             PROVE  /\ \A a \in AllLinks' : a.entry.term = currentTerm'[i] => a \in Links(log'[i])
                    /\ Len(log'[i]) >= 1 /\ LastTerm(log'[i]) = currentTerm'[i]
  BY DEF Owned
<1>1. \/ role[i] = "leader" /\ currentTerm'[i] = currentTerm[i] /\ log'[i] = log[i]
      \/ role[i] \in {"leader", "candidate"} /\ Grew(i)
  BY DEF GoodStep, Summary, RolesStep
<1>2. currentTerm'[i] = currentTerm[i]
  BY <1>1 DEF Grew
<1>3. Len(log'[i]) >= 1 /\ LastTerm(log'[i]) = currentTerm'[i]
  <2>1. CASE role[i] = "leader" /\ log'[i] = log[i]
    BY <1>2, <2>1 DEF LogInv, Owned
  <2>2. CASE Grew(i)
    BY <1>2, <2>2, GrewLinks
  <2> QED BY <1>1, <2>1, <2>2
<1>4. ASSUME NEW a \in AllLinks', a.entry.term = currentTerm'[i]
      PROVE  a \in Links(log'[i])
  <2>1. CASE a \in AllLinks
    <3>1. CASE role[i] = "leader" /\ log'[i] = log[i]
      BY <1>2, <1>4, <2>1, <3>1 DEF LogInv, Owned
    <3>2. CASE Grew(i)
      <4>1. a \in Links(log[i])
        BY <1>2, <1>4, <2>1, <3>2, BelowNewLink
      <4> QED BY <3>2, <4>1, GrewLinks
    <3> QED BY <1>1, <3>1, <3>2
  <2>2. ASSUME NEW j \in Node, Grew(j), a = NewLink(j)
        PROVE  a \in Links(log'[i])
    <3>1. NewLink(j).entry.term = currentTerm[j] /\ NewLink(j) \in Links(log'[j])
      BY <2>2, GrewLinks
    <3>2. role'[j] = "leader" /\ currentTerm'[j] = currentTerm'[i]
      BY <1>4, <2>2, <3>1 DEF Grew
    <3>3. j = i
      BY <3>2 DEF GoodStep, ElectionSafety
    <3> QED BY <2>2, <3>1, <3>3
  <2> QED BY <2>1, <2>2, AllLinksStep
<1> QED BY <1>3, <1>4

\* No log has terms beyond its node's.
LEMMA TermsBoundedStep ==
  ASSUME GoodStep, LogInv
  PROVE  TermsBounded'
<1> SUFFICES ASSUME NEW i \in Node
             PROVE  /\ \A k \in 1..Len(log'[i]) : log'[i][k].term <= currentTerm'[i]
                    /\ role'[i] # "follower" => currentTerm'[i] >= 1
  BY DEF TermsBounded
<1>0. /\ currentTerm[i] \in Nat /\ currentTerm'[i] \in Nat /\ currentTerm'[i] >= currentTerm[i]
      /\ log[i] \in Seq(Entry) /\ log'[i] \in Seq(Entry)
  BY StepTypes
<1>1. /\ \A k \in 1..Len(log[i]) : log[i][k].term <= currentTerm[i] /\ log[i][k].term \in Nat
      /\ role[i] # "follower" => currentTerm[i] >= 1
  BY <1>0, EntriesOfSeq DEF LogInv, TermsBounded
<1>2. \A k \in 1..Len(log'[i]) : log'[i][k].term <= currentTerm'[i]
  <2>1. CASE log'[i] = log[i]
    BY <1>0, <1>1, <2>1
  <2>2. CASE Grew(i)
    <3>1. /\ Len(log'[i]) = Len(log[i]) + 1 /\ Len(log[i]) \in Nat
          /\ \A k \in 1..Len(log[i]) : log'[i][k] = log[i][k]
          /\ NewLink(i).entry.term = currentTerm[i]
      BY <2>2, GrewLinks
    <3>2. log'[i][Len(log[i]) + 1].term = currentTerm[i]
      BY <3>1 DEF NewLink
    <3> QED BY SMTT(20), <1>0, <1>1, <3>1, <3>2
  <2>3. ASSUME NEW m \in Appends, Follows(i, m)
        PROVE  \A k \in 1..Len(log'[i]) : log'[i][k].term <= currentTerm'[i]
    <3>1. /\ \A k \in 1..Len(Described(i, m)) : Described(i, m)[k].term <= m.term
          /\ log'[i] = IF Covers(log[i], Described(i, m)) THEN log[i] ELSE Described(i, m)
      BY <2>3, FollowsResult
    <3>2. currentTerm'[i] = m.term
      BY <2>3 DEF Follows
    <3> QED BY <1>0, <1>1, <3>1, <3>2
  <2> QED BY <2>1, <2>2, <2>3 DEF GoodStep, Summary, LogsStep
<1>3. role'[i] # "follower" => currentTerm'[i] >= 1
  <2>1. role'[i] \in {"follower", "candidate", "leader"}
    BY DEF GoodStep, TypeInv, LeaderType
  <2> QED BY <1>0, <1>1, <2>1 DEF GoodStep, Summary, RolesStep, Grew
<1> QED BY <1>2, <1>3

\* The links before and after a step.
StepLinks == AllLinks \cup {NewLink(i) : i \in {j \in Node : Grew(j)}}

\* New links rise, are unique and continue their run.
LEMMA StepLinksSound ==
  ASSUME GoodStep, LogInv
  PROVE  /\ Rising(StepLinks) /\ Unique(StepLinks) /\ OneRun(StepLinks)
         /\ AllLinks \subseteq StepLinks /\ AllLinks' \subseteq StepLinks
<1>0. ASSUME NEW a \in AllLinks
      PROVE  a.index \in Nat /\ a.entry.term \in Nat /\ a.after \in Nat
  BY AllLinksType DEF Link, Entry, GoodStep
<1>1. ASSUME NEW i \in Node, Grew(i)
      PROVE  /\ NewLink(i).index = Len(log[i]) + 1 /\ Len(log[i]) \in Nat
             /\ NewLink(i).entry.term = currentTerm[i] /\ currentTerm[i] >= 1
             /\ NewLink(i).after = LastTerm(log[i])
  BY <1>1, GrewLinks, GrewRole
<1>2. Rising(StepLinks)
  <2> SUFFICES ASSUME NEW a \in StepLinks
               PROVE  a.entry.term >= 1 /\ a.after <= a.entry.term
    BY DEF Rising
  <2>1. CASE a \in AllLinks
    BY <2>1 DEF LogInv, LinksInv, Rising
  <2>2. ASSUME NEW i \in Node, Grew(i), a = NewLink(i)
        PROVE  a.entry.term >= 1 /\ a.after <= a.entry.term
    <3>1. LastTerm(log[i]) <= currentTerm[i]
      <4>1. currentTerm[i] \in Nat /\ DOMAIN log[i] = 1..Len(log[i])
        BY StepTypes, LenProperties
      <4> QED BY <4>1 DEF LastTerm, TermAt, LogInv, TermsBounded
    <3> QED BY <1>1, <2>2, <3>1
  <2> QED BY <2>1, <2>2 DEF StepLinks
<1>3. Unique(StepLinks)
  <2> SUFFICES ASSUME NEW a \in StepLinks, NEW b \in StepLinks,
                      a.index = b.index, a.entry.term = b.entry.term
               PROVE  a = b
    BY DEF Unique
  <2>1. CASE a \in AllLinks /\ b \in AllLinks
    BY <2>1 DEF LogInv, LinksInv, Unique
  <2>2. ASSUME NEW i \in Node, Grew(i), NEW x \in AllLinks, x.entry.term = currentTerm[i]
        PROVE  x.index # NewLink(i).index
    BY <1>1, <2>2, BelowNewLink
  <2>3. ASSUME NEW i \in Node, Grew(i), NEW j \in Node, Grew(j), currentTerm[i] = currentTerm[j]
        PROVE  NewLink(i) = NewLink(j)
    BY <2>3, OneGrows
  <2> QED BY <1>1, <2>1, <2>2, <2>3 DEF StepLinks
<1>4. OneRun(StepLinks)
  <2> SUFFICES ASSUME NEW a \in StepLinks, NEW b \in StepLinks,
                      a.entry.term = b.entry.term, b.after # b.entry.term
               PROVE  b.index <= a.index
    BY DEF OneRun
  <2>1. CASE a \in AllLinks /\ b \in AllLinks
    BY <2>1 DEF LogInv, LinksInv, OneRun
  <2>2. ASSUME NEW i \in Node, Grew(i), a \in AllLinks, b = NewLink(i)
        PROVE  FALSE
    <3>1. role[i] = "leader"
      BY <1>1, <2>2, BelowNewLink
    <3>2. LastTerm(log[i]) = currentTerm[i]
      BY <3>1 DEF LogInv, Owned
    <3> QED BY <1>1, <2>2, <3>2
  <2>3. ASSUME NEW i \in Node, Grew(i), b \in AllLinks, a = NewLink(i)
        PROVE  b.index <= a.index
    <3>1. b.index \in 1..Len(log[i])
      BY <1>1, <2>3, BelowNewLink
    <3> QED BY <1>1, <2>3, <3>1
  <2>4. ASSUME NEW i \in Node, Grew(i), a = NewLink(i), NEW j \in Node, Grew(j), b = NewLink(j)
        PROVE  b.index <= a.index
    <3>1. i = j
      BY <1>1, <2>4, OneGrows
    <3> QED BY <1>1, <2>4, <3>1
  <2> QED BY <2>1, <2>2, <2>3, <2>4 DEF StepLinks
<1>5. AllLinks \subseteq StepLinks /\ AllLinks' \subseteq StepLinks
  BY AllLinksStep DEF StepLinks
<1> QED BY <1>2, <1>3, <1>4, <1>5

\* LinksInv is kept.
LEMMA LinksInvStep ==
  ASSUME GoodStep, LogInv
  PROVE  LinksInv'
BY StepLinksSound DEF LinksInv, Rising, Unique, OneRun

\* A new leader is the winner that its links come from.
LEMMA FromLeadersStep ==
  ASSUME GoodStep, LogInv
  PROVE  FromLeaders'
<1> SUFFICES ASSUME NEW a \in AllLinks'
             PROVE  \E c \in Node : LeaderSeen(a.entry.term, c)'
  BY DEF FromLeaders
<1>1. CASE a \in AllLinks
  <2>1. PICK t \in Nat : t = a.entry.term
    BY <1>1, AllLinksType DEF Link, Entry, GoodStep
  <2>2. PICK c \in Node : LeaderSeen(t, c)
    BY <1>1, <2>1 DEF LogInv, FromLeaders
  <2>3. LeaderSeen(t, c)'
    BY <2>2, LeaderSeenKept DEF GoodStep, Summary
  <2> QED BY <2>1, <2>3
<1>2. ASSUME NEW i \in Node, Grew(i), a = NewLink(i)
      PROVE  \E c \in Node : LeaderSeen(a.entry.term, c)'
  <2>1. role'[i] = "leader" /\ currentTerm'[i] = a.entry.term
    BY <1>2, GrewLinks, GrewRole
  <2>2. PICK t : t = a.entry.term
    OBVIOUS
  <2>3. LeaderSeen(currentTerm[i], i)'
    BY <2>1 DEF GoodStep, SeenLeaders
  <2>4. LeaderSeen(t, i)'
    BY <2>1, <2>2, <2>3 DEF LeaderSeen, Elected, Backed, VotedIn, Claim, HeldVote, SentVote
  <2> QED BY <2>2, <2>4
<1> QED BY <1>1, <1>2, AllLinksStep

\* What is sent ends with the leader's own term.
LEMMA SentEndTerm ==
  ASSUME NEW l \in Seq(Entry), Len(l) >= 1, NEW t \in Nat, LastTerm(l) = t,
         \A k \in 1..Len(l) : l[k].term <= t,
         NEW next \in Nat, next >= 1, NEW m,
         m.term = t, m.prevIndex = next - 1, m.prevTerm = TermAt(l, next - 1),
         m.entries = SubSeq(l, next, Len(l))
  PROVE  EndTerm(m) /\ \A k \in 1..Len(m.entries) : m.entries[k].term <= m.term
<1> DEFINE es == SubSeq(l, next, Len(l))
<1>0. Len(l) \in Nat /\ DOMAIN l = 1..Len(l)
  BY LenProperties
<1>1. /\ es \in Seq(Entry) /\ Len(es) = IF next <= Len(l) THEN Len(l) - next + 1 ELSE 0
      /\ \A k \in 1..Len(es) : es[k] = l[next + k - 1]
  BY EntriesToSend
<1>2. m.entries = es
  OBVIOUS
<1> HIDE DEF es
<1>3. ASSUME NEW k \in 1..Len(es) PROVE es[k].term <= t
  <2>1. next + k - 1 \in 1..Len(l)
    BY <1>0, <1>1
  <2> QED BY <1>1, <2>1
<1>4. CASE next <= Len(l)
  <2>1. Len(es) \in 1..Len(es) /\ next + Len(es) - 1 = Len(l) /\ Len(es) >= 1
    BY <1>0, <1>1, <1>4
  <2>2. es[Len(es)] = l[Len(l)]
    BY <1>1, <2>1
  <2> QED BY <1>0, <1>2, <1>3, <2>1, <2>2 DEF EndTerm, LastTerm, TermAt
<1>5. CASE next > Len(l)
  <2>1. Len(es) = 0 /\ m.prevIndex >= 1
    BY <1>0, <1>1, <1>5
  <2>2. TermAt(l, next - 1) \in {0, t}
    <3>1. CASE next - 1 = Len(l)
      BY <3>1 DEF LastTerm
    <3>2. CASE next - 1 # Len(l)
      BY <1>0, <1>5, <3>2 DEF TermAt
    <3> QED BY <3>1, <3>2
  <2> QED BY <1>2, <1>3, <2>1, <2>2 DEF EndTerm
<1> QED BY <1>0, <1>4, <1>5

\* The messages of the state after a step: an old one, or its sender's log.
LEMMA AppendsStep ==
  ASSUME GoodStep, NEW m \in Appends'
  PROVE  /\ m.src \in Node /\ m.dst \in Node /\ m.term \in Nat
         /\ \/ m \in Appends
            \/ /\ role'[m.src] = "leader" /\ m.term = currentTerm'[m.src]
               /\ m.commit = commitIndex'[m.src]
               /\ \E next \in Nat :
                    /\ next >= 1
                    /\ m.prevIndex = next - 1 /\ m.prevTerm = TermAt(log'[m.src], next - 1)
                    /\ m.entries = SubSeq(log'[m.src], next, Len(log'[m.src]))
<1>1. m \in InFlight(queue') /\ m.type = "Append"
  BY DEF Appends
<1>2. m.src \in Node /\ m.dst \in Node /\ m.term \in Nat
  <2>1. queue' \in Seq(Message)
    BY DEF GoodStep, TypeInv, QueueType
  <2>2. m \in Message
    BY <1>1, <2>1, ElementOfSeq, LenProperties DEF InFlight
  <2> QED BY <2>2 DEF Message
<1>3. CASE m \in InFlight(queue)
  BY <1>1, <1>2, <1>3 DEF Appends
<1>4. CASE Fresh(m)
  <2>1. FreshAppend(m)
    BY <1>1, <1>4 DEF Fresh
  <2>2. PICK next \in Nat, ctx \in Nat :
          /\ next >= 1
          /\ m = AppendMsg(m.src, m.dst, currentTerm'[m.src], log'[m.src], next,
                           commitIndex'[m.src], ctx)
    BY <2>1 DEF FreshAppend
  <2>3. /\ m.term = currentTerm'[m.src] /\ m.commit = commitIndex'[m.src]
        /\ m.prevIndex = next - 1 /\ m.prevTerm = TermAt(log'[m.src], next - 1)
        /\ m.entries = SubSeq(log'[m.src], next, Len(log'[m.src]))
    BY <2>2 DEF AppendMsg
  <2> QED BY <1>2, <2>1, <2>2, <2>3 DEF FreshAppend
<1> QED BY <1>1, <1>3, <1>4 DEF GoodStep, Summary, MessagesStep

\* AppendsInv is kept.
LEMMA AppendsInvStep ==
  ASSUME GoodStep, LogInv
  PROVE  AppendsInv'
<1> SUFFICES ASSUME NEW m \in Appends'
             PROVE  /\ LeaderSeen(m.term, m.src)' /\ EndTerm(m)
                    /\ \A k \in 1..Len(m.entries) : m.entries[k].term <= m.term
  BY DEF AppendsInv
<1>0. m.src \in Node /\ m.term \in Nat
  BY AppendsStep
<1>1. PICK t \in Nat, c \in Node : t = m.term /\ c = m.src
  BY <1>0
<1>2. CASE m \in Appends
  <2>1. LeaderSeen(t, c) /\ EndTerm(m) /\ \A k \in 1..Len(m.entries) : m.entries[k].term <= m.term
    BY <1>1, <1>2 DEF LogInv, AppendsInv
  <2>2. LeaderSeen(t, c)'
    BY <2>1, LeaderSeenKept DEF GoodStep, Summary
  <2> QED BY <1>1, <2>1, <2>2
<1>3. CASE m \notin Appends
  <2>1. PICK next \in Nat :
          /\ next >= 1
          /\ m.prevIndex = next - 1 /\ m.prevTerm = TermAt(log'[m.src], next - 1)
          /\ m.entries = SubSeq(log'[m.src], next, Len(log'[m.src]))
    BY <1>3, AppendsStep
  <2>2. role'[c] = "leader" /\ t = currentTerm'[c]
    BY <1>1, <1>3, AppendsStep
  <2>3. LeaderSeen(t, c)'
    <3>1. LeaderSeen(currentTerm[c], c)'
      BY <2>2 DEF GoodStep, SeenLeaders
    <3> QED BY <2>2, <3>1 DEF LeaderSeen, Elected, Backed, VotedIn, Claim, HeldVote, SentVote
  <2>4. PICK l : l = log'[c]
    OBVIOUS
  <2>5. /\ l \in Seq(Entry) /\ Len(l) >= 1 /\ LastTerm(l) = t
        /\ \A k \in 1..Len(l) : l[k].term <= t
    <3>1. Owned' /\ TermsBounded'
      BY OwnedStep, TermsBoundedStep
    <3> QED BY <2>2, <2>4, <3>1, StepTypes DEF Owned, TermsBounded
  <2>6. /\ m.term = t /\ m.prevIndex = next - 1 /\ m.prevTerm = TermAt(l, next - 1)
        /\ m.entries = SubSeq(l, next, Len(l))
    BY <1>1, <2>1, <2>4
  <2>7. EndTerm(m) /\ \A k \in 1..Len(m.entries) : m.entries[k].term <= m.term
    BY <2>1, <2>5, <2>6, SentEndTerm
  <2> QED BY <1>1, <2>3, <2>7
<1> QED BY <1>2, <1>3

\* LogInv is inductive.
LEMMA LogInvStep ==
  ASSUME GoodStep, LogInv
  PROVE  LogInv'
<1>1. PeersInv'
  BY PeersInvKept DEF LogInv, GoodStep
<1> QED BY <1>1, LinksInvStep, FromLeadersStep, OwnedStep, TermsBoundedStep, AppendsInvStep
        DEF LogInv

\* At the start there is no log, no message and no leader.
LEMMA LogInvInit == Init => LogInv
<1> SUFFICES ASSUME Init PROVE LogInv
  OBVIOUS
<1>1. InFlight(queue) = {} /\ \A i \in Node : log[i] = <<>> /\ role[i] = "follower"
  BY EmptySeq DEF Init, InFlight
<1>2. Appends = {} /\ \A i \in Node : Links(log[i]) = {}
  BY <1>1 DEF Appends, Links
<1>3. AllLinks = {}
  BY <1>2 DEF AllLinks
<1>4. \A i \in Node : Len(log[i]) = 0
  BY <1>1, EmptySeq
<1> QED BY <1>1, <1>2, <1>3, <1>4
        DEF LogInv, PeersInv, LinksInv, Unique, OneRun, Rising, FromLeaders, Owned,
            TermsBounded, AppendsInv

\* The inductive invariant of elections and logs together.
LEMMA LogsInvariant == Spec => [](TypeInv /\ VoteInv /\ LogInv)
<1>1. Init => TypeInv /\ VoteInv /\ LogInv
  BY TypeInvInit, VoteInvInit, LogInvInit
<1>2. (TypeInv /\ VoteInv /\ LogInv) /\ [Next]_vars => (TypeInv /\ VoteInv /\ LogInv)'
  BY GoodSteps, LogInvStep DEF LogInv, GoodStep
<1> QED BY <1>1, <1>2, PTL DEF Spec

\* Prefixes that agree at every index are equal.
LEMMA PrefixesEqual ==
  ASSUME NEW l \in Seq(Entry), NEW r \in Seq(Entry), NEW k \in 1..Len(l), k \in 1..Len(r),
         \A j \in 1..k : l[j] = r[j]
  PROVE  SubSeq(l, 1, k) = SubSeq(r, 1, k)
<1>0. Len(l) \in Nat /\ Len(r) \in Nat /\ k \in Nat
      /\ (\A j \in 1..k : l[j] \in Entry) /\ (\A j \in 1..k : r[j] \in Entry)
  BY LenProperties, ElementOfSeq
<1> DEFINE a == SubSeq(l, 1, k)
           b == SubSeq(r, 1, k)
<1>1. a \in Seq(Entry) /\ Len(a) = k /\ \A j \in 1..k : a[j] = l[j]
  BY <1>0, SubSeqProperties
<1>2. b \in Seq(Entry) /\ Len(b) = k /\ \A j \in 1..k : b[j] = r[j]
  BY <1>0, SubSeqProperties
<1> HIDE DEF a, b
<1>3. a = b
  BY <1>1, <1>2, SeqEqual
<1> QED BY <1>3 DEF a, b

\* Raft's log matching property, for any number of nodes: logs that agree on
\* the term of an index agree on everything up to it, because a term's entries
\* are made by one leader, in one run, on top of what its log held.
THEOREM LogMatchingHolds == Spec => []LogMatching
<1>1. TypeInv /\ LogInv => LogMatching
  <2> SUFFICES ASSUME TypeInv, LogInv, NEW i \in Node, NEW j \in Node,
                      NEW k \in 1..Smaller(Len(log[i]), Len(log[j])),
                      log[i][k].term = log[j][k].term
               PROVE  SubSeq(log[i], 1, k) = SubSeq(log[j], 1, k)
    BY DEF LogMatching
  <2>1. PICK l, r : l = log[i] /\ r = log[j]
    OBVIOUS
  <2>2. l \in Seq(Entry) /\ r \in Seq(Entry) /\ Len(l) \in Nat /\ Len(r) \in Nat
    BY <2>1, LenProperties DEF TypeInv, DurableType
  <2>3. k \in 1..Len(l) /\ k \in 1..Len(r) /\ l[k].term = r[k].term
    BY <2>1, <2>2 DEF Smaller
  <2>4. Unique(AllLinks) /\ Links(l) \subseteq AllLinks /\ Links(r) \subseteq AllLinks
    BY <2>1 DEF LogInv, LinksInv, AllLinks
  <2>5. \A p \in 1..k : l[p] = r[p]
    BY <2>2, <2>3, <2>4, LogsAgree
  <2> QED BY <2>1, <2>2, <2>3, <2>5, PrefixesEqual
<1> QED BY <1>1, LogsInvariant, PTL

=============================================================================
