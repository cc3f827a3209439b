-------------------------- MODULE RaftClockProofs ---------------------------
(***************************************************************************)
(* The Raft group with its clock: what holds without a clock holds with it, *)
(* and what the clock adds, for every delay, interval and range of          *)
(* timeouts.  Messages are followed through the queue with their due ticks, *)
(* which are compared with the timers of those that wait for them.          *)
(***************************************************************************)
EXTENDS RaftClock, RaftCommitProofs

----------------------------------------------------------------------------
(* The clock.  The group with a clock is one of the behaviours of Raft, so  *)
(* what is proved of Raft without a clock holds with it.                    *)

\* Whatever runs by itself in a tick is a step of Raft or leaves it alone.
LEMMA RunningIsRaft == Running => [Next]_vars
<1>1. ASSUME DeliverDue \/ DiscardDue PROVE Next
  BY <1>1 DEF DeliverDue, DiscardDue, Next
<1>2. ASSUME Tick PROVE UNCHANGED vars
  BY <1>2 DEF Tick
<1>3. ASSUME Returns PROVE Next
  BY <1>3 DEF Returns, Next
<1>4. ASSUME NEW i \in Node, Beat(i) \/ Stand(i) PROVE Next
  BY <1>4 DEF Beat, Stand, Next
<1> QED BY <1>1, <1>2, <1>3, <1>4 DEF Running

\* So is every call and every fault.
LEMMA CallerIsRaft ==
  ASSUME NEW i \in Node,
         \/ Write(i) \/ Read(i)
         \/ CrashNow(i) \/ RestartNow(i) \/ IsolateNow(i) \/ HealNow(i)
  PROVE  Next
<1>1. CASE Write(i)
  <2>1. PICK k \in Key, v \in Value : ClientWrite(i, k, v)
    BY <1>1 DEF Write, Begin
  <2> QED BY <2>1 DEF Next
<1>2. CASE Read(i)
  BY <1>2 DEF Read, Begin, Next
<1>3. CASE CrashNow(i) \/ RestartNow(i)
  BY <1>3 DEF CrashNow, RestartNow, Fault, Next
<1>4. CASE IsolateNow(i) \/ HealNow(i)
  BY <1>4 DEF IsolateNow, HealNow, Fault, Next
<1> QED BY <1>1, <1>2, <1>3, <1>4

\* The clock, the timers and the waiting calls add no step to Raft: tick()
\* only picks the moments at which its handlers run.
THEOREM ClockImplementsRaft == ClockSpec => Spec
<1>1. ClockInit => Init
  BY DEF ClockInit
<1>2. [ClockNext]_timedVars => [Next]_vars
  BY RunningIsRaft, CallerIsRaft DEF ClockNext, timedVars
<1> QED BY <1>1, <1>2, PTL DEF ClockSpec, Spec

\* With the clock too, all that is proved of Raft holds: for every delay,
\* interval and range of timeouts.
THEOREM ClockIsSafe ==
  ClockSpec => /\ [](TypeOK /\ ElectionSafety /\ LogMatching /\ LeaderCompleteness)
               /\ [](CommittedOnQuorum /\ MatchIsTrue /\ AcceptedIsCommitted)
               /\ [](NextIndexInLog /\ ReadIsFresh)
               /\ VotesAreFinal /\ AppliedIsKept /\ ImplementsLog
<1>1. Spec => [](TypeOK /\ ElectionSafety /\ LogMatching /\ LeaderCompleteness)
  BY TypeCorrect, ElectionSafetyHolds, LogMatchingHolds, LeaderCompletenessHolds, PTL
<1>2. Spec => [](CommittedOnQuorum /\ MatchIsTrue /\ AcceptedIsCommitted)
  BY CommittedOnQuorumHolds, MatchIsTrueHolds, AcceptedIsCommittedHolds, PTL
<1>3. Spec => [](NextIndexInLog /\ ReadIsFresh)
  BY NextIndexInLogHolds, ReadIsFreshHolds, PTL
<1>4. Spec => VotesAreFinal /\ AppliedIsKept /\ ImplementsLog
  BY VotesAreFinalHolds, AppliedIsKeptHolds, ImplementsLogHolds
<1> QED BY <1>1, <1>2, <1>3, <1>4, ClockImplementsRaft


----------------------------------------------------------------------------
(* How the queue moves in each action *)

\* Messages leave the queue from its front, d of them, and join it at its end.
Moved(d) ==
  /\ d <= Len(queue) /\ Len(queue) \in Nat /\ Len(queue') \in Nat /\ Len(queue') >= Len(queue) - d
  /\ \A k \in 1..Len(queue) - d : queue'[k] = queue[k + d]

\* What is sent is added at the end.
LEMMA SendMoves ==
  ASSUME TypeInv, NEW out, IsFiniteSet(out), Send(out)
  PROVE  Moved(0)
<1> DEFINE S == SoundMessage \cup out
<1>1. queue \in Seq(S) /\ out \in SUBSET S
  <2>1. queue \in Seq(SoundMessage) /\ SoundMessage \subseteq S
    BY DEF TypeInv, QueueType
  <2> QED BY <2>1, SeqMonotonic
<1> HIDE DEF S
<1> QED BY <1>1, EnqueuedOrder DEF Send, Moved

\* An answer takes the head's place in time, not in the queue.
LEMMA ReplyMoves ==
  ASSUME TypeInv, queue # <<>>, NEW out, IsFiniteSet(out), Reply(out)
  PROVE  Moved(1)
<1> DEFINE S == SoundMessage \cup out
<1>1. queue \in Seq(S) /\ out \in SUBSET S
  <2>1. queue \in Seq(SoundMessage) /\ SoundMessage \subseteq S
    BY DEF TypeInv, QueueType
  <2> QED BY <2>1, SeqMonotonic
<1> HIDE DEF S
<1>2. PICK q \in Seq(S) : q = Tail(queue)
  BY <1>1, TailShifts
<1>3. /\ Len(queue) \in Nat /\ Len(queue) >= 1 /\ Len(q) = Len(queue) - 1
      /\ \A k \in 1..Len(queue) - 1 : q[k] = queue[k + 1]
  BY <1>1, <1>2, TailShifts
<1>4. queue' \in Enqueued(q, out, cut)
  BY <1>2 DEF Reply
<1>5. /\ Len(queue') \in Nat /\ Len(queue') >= Len(q)
      /\ \A k \in 1..Len(q) : queue'[k] = q[k]
  BY <1>1, <1>4, EnqueuedOrder
<1> QED BY <1>3, <1>5 DEF Moved

\* Nothing is answered.
LEMMA NoReplyMoves ==
  ASSUME TypeInv, queue # <<>>, NoReply
  PROVE  Moved(1)
<1>1. queue \in Seq(SoundMessage)
  BY DEF TypeInv, QueueType
<1>2. PICK q \in Seq(SoundMessage) : q = Tail(queue)
  BY <1>1, TailShifts
<1>3. /\ Len(queue) \in Nat /\ Len(queue) >= 1 /\ Len(q) = Len(queue) - 1
      /\ \A k \in 1..Len(queue) - 1 : q[k] = queue[k + 1]
  BY <1>1, <1>2, TailShifts
<1> QED BY <1>2, <1>3 DEF NoReply, Moved

\* A broadcast is finite.
LEMMA BroadcastFinite ==
  ASSUME NEW i \in Node, NEW t, NEW l, NEW next, NEW commit, NEW ctx
  PROVE  IsFiniteSet(AppendsToPeers(i, t, l, next, commit, ctx))
<1> DEFINE f == [j \in Node \ {i} |-> AppendMsg(i, j, t, l, next[j], commit, ctx)]
<1>1. AppendsToPeers(i, t, l, next, commit, ctx) = {f[j] : j \in Node \ {i}}
  BY DEF AppendsToPeers
<1>2. DOMAIN f = Node \ {i}
  OBVIOUS
<1> HIDE DEF f
<1> QED BY <1>1, <1>2, PeersFinite

\* A candidate's requests are finitely many.
LEMMA RequestsFinite ==
  ASSUME NEW i \in Node, NEW t, NEW l
  PROVE  IsFiniteSet({RequestVoteMsg(i, j, t, l) : j \in Node \ {i}})
<1> DEFINE f == [j \in Node \ {i} |-> RequestVoteMsg(i, j, t, l)]
<1>1. {RequestVoteMsg(i, j, t, l) : j \in Node \ {i}} = {f[j] : j \in Node \ {i}}
  OBVIOUS
<1>2. DOMAIN f = Node \ {i}
  OBVIOUS
<1> HIDE DEF f
<1> QED BY <1>1, <1>2, PeersFinite

\* A timer that goes off, and a call that begins, only add to the queue.
LEMMA OwnMoves ==
  ASSUME TypeInv, NEW i \in Node,
         \/ Timeout(i) \/ Heartbeat(i) \/ ReadStart(i)
         \/ \E k \in Key, v \in Value : ClientWrite(i, k, v)
  PROVE  Moved(0)
<1>1. CASE Timeout(i)
  BY <1>1, RequestsFinite, SendMoves DEF Timeout
<1>2. CASE Heartbeat(i)
  BY <1>2, BroadcastFinite, SendMoves DEF Heartbeat
<1>3. CASE ReadStart(i)
  BY <1>3, BroadcastFinite, SendMoves DEF ReadStart
<1>4. CASE \E k \in Key, v \in Value : ClientWrite(i, k, v)
  <2>1. PICK k \in Key, v \in Value : ClientWrite(i, k, v)
    BY <1>4
  <2>2. PICK l : Send(AppendsToPeers(i, currentTerm[i], l, nextIndex[i], commitIndex[i], 0))
    BY <2>1 DEF ClientWrite
  <2> QED BY <2>2, BroadcastFinite, SendMoves
<1> QED BY <1>1, <1>2, <1>3, <1>4

\* A message that is handled leaves the queue, what it causes joins it.
LEMMA DeliverMoves ==
  ASSUME TypeInv, Deliver
  PROVE  Moved(1)
<1>1. PICK m \in SoundMessage : m = Head(queue) /\ queue # <<>> /\ m.dst \in Node
  BY TailProperties DEF Deliver, TypeInv, QueueType, SoundMessage, Message
<1> DEFINE i == m.dst
<1>2. ASSUME NEW r, Reply({r}) PROVE Moved(1)
  BY <1>1, <1>2, ReplyMoves, FS_Singleton
<1>3. ASSUME NEW t, NEW l, NEW next, NEW c, Reply(AppendsToPeers(i, t, l, next, c, 0))
      PROVE  Moved(1)
  BY <1>1, <1>3, ReplyMoves, BroadcastFinite
<1>4. NoReply => Moved(1)
  BY <1>1, NoReplyMoves
<1>5. CASE HandleRequestVote(i, m)
  BY <1>2, <1>5 DEF HandleRequestVote
<1>6. CASE HandleVoteResponse(i, m)
  BY <1>3, <1>4, <1>6 DEF HandleVoteResponse, BecomeLeader
<1>7. CASE HandleAppend(i, m)
  BY <1>2, <1>7 DEF HandleAppend
<1>8. CASE HandleAppendResponse(i, m)
  BY <1>2, <1>3, <1>4, <1>8 DEF HandleAppendResponse, AdvanceCommit
<1> QED BY <1>1, <1>5, <1>6, <1>7, <1>8 DEF Deliver

----------------------------------------------------------------------------
(* Roles and timers *)

\* Who stands for election or leads has its own vote.
OwnVote == \A i \in Node : role[i] # "follower" => votedFor[i] = i

\* The message that is handled.
LEMMA Handled ==
  ASSUME TypeInv, Deliver
  PROVE  /\ Head(queue) \in SoundMessage /\ Head(queue) = queue[1] /\ queue # <<>>
         /\ 1 \in 1..Len(queue) /\ Head(queue) \in InFlight(queue)
         /\ Head(queue).dst \in Node /\ Head(queue).src \in Node /\ Head(queue).term \in Nat
<1>1. queue # <<>> /\ queue \in Seq(SoundMessage)
  BY DEF Deliver, TypeInv, QueueType
<1>2. Head(queue) \in SoundMessage /\ Head(queue) \in InFlight(queue)
  BY <1>1, TailProperties
<1>3. Head(queue) = queue[1] /\ 1 \in 1..Len(queue)
  BY <1>1, TailShifts, HeadIsQueued
<1> QED BY <1>1, <1>2, <1>3 DEF SoundMessage, Message

\* A handler changes the role and the vote of its node only, and if it leaves
\* that node in office or as a candidate, then with its vote.
LEMMA HandledRole ==
  ASSUME TypeInv, PeersInv, Deliver, NEW i \in Node, i = Head(queue).dst, OwnVote
  PROVE  /\ \A j \in Node \ {i} : role'[j] = role[j] /\ votedFor'[j] = votedFor[j]
         /\ role'[i] = "candidate" => role[i] = "candidate"
         /\ role'[i] # "follower" => votedFor'[i] = i
         /\ Resets(i, Head(queue)) => role'[i] # "leader"
         /\ Head(queue).type = "Append" /\ Head(queue).term >= currentTerm[i] =>
              role'[i] = "follower"
<1>1. PICK m \in SoundMessage : m = Head(queue) /\ m.dst = i /\ m.src # i
  BY Handled DEF PeersInv
<1>2. /\ role \in [Node -> {"follower", "candidate", "leader"}]
      /\ votedFor \in [Node -> Node \cup {None}] /\ currentTerm[i] \in Nat /\ m.term \in Nat
      /\ None # i
  BY <1>1, Handled, RaftAssumption DEF TypeInv, DurableType, LeaderType
<1>3. role[i] # "follower" => votedFor[i] = i
  BY DEF OwnVote
<1>4. LoseRole(i) => role'[i] = "follower" /\ \A j \in Node \ {i} : role'[j] = role[j]
  BY <1>2 DEF LoseRole
<1>5. CASE m.type = "RequestVote" /\ HandleRequestVote(i, m)
  <2>1. \E v : votedFor' = [votedFor EXCEPT ![i] = v]
    BY <1>5 DEF HandleRequestVote
  <2>2. \A j \in Node \ {i} : votedFor'[j] = votedFor[j]
    BY <1>2, <2>1
  <2>3. CASE m.term > currentTerm[i]
    BY <1>1, <1>4, <1>5, <2>2, <2>3 DEF HandleRequestVote
  <2>4. CASE ~(m.term > currentTerm[i])
    <3>1. /\ role' = role
          /\ votedFor' = [votedFor EXCEPT ![i] = IF Grants(i, m, votedFor[i]) THEN m.src
                                                 ELSE votedFor[i]]
      BY <1>5, <2>4 DEF HandleRequestVote, leaderVars
    <3>2. role[i] # "follower" => ~Grants(i, m, votedFor[i])
      BY <1>1, <1>2, <1>3 DEF Grants
    <3>3. role[i] # "follower" => votedFor'[i] = i
      BY <1>2, <1>3, <3>1, <3>2
    <3> QED BY <1>1, <1>2, <1>5, <2>2, <2>4, <3>1, <3>2, <3>3 DEF Resets
  <2> QED BY <2>3, <2>4
<1>6. CASE m.type = "VoteResponse" /\ HandleVoteResponse(i, m)
  <2>1. CASE AdoptTerm(i, m) /\ m.term > currentTerm[i]
    BY <1>1, <1>2, <1>4, <1>6, <2>1 DEF AdoptTerm
  <2>2. CASE UNCHANGED <<durableVars, leaderVars>> /\ m.term <= currentTerm[i]
    BY <1>1, <1>2, <1>3, <1>6, <2>2 DEF durableVars, leaderVars, Resets
  <2>3. CASE m.term = currentTerm[i] /\ role[i] = "candidate" /\ UNCHANGED votedFor
             /\ (role' = role \/ role' = [role EXCEPT ![i] = "leader"])
    BY <1>1, <1>2, <1>3, <1>6, <2>3 DEF Resets
  <2> QED BY <1>2, <1>6, <2>1, <2>2, <2>3 DEF HandleVoteResponse, BecomeLeader
<1>7. CASE m.type = "Append" /\ HandleAppend(i, m)
  <2>1. CASE m.term < currentTerm[i] /\ UNCHANGED <<durableVars, leaderVars>>
    BY <1>1, <1>2, <1>3, <1>7, <2>1 DEF durableVars, leaderVars, Resets
  <2>2. CASE /\ m.term >= currentTerm[i]
             /\ votedFor' = [votedFor EXCEPT ![i] = None] \/ votedFor' = votedFor
             /\ LoseRole(i) \/ (role[i] = "follower" /\ UNCHANGED leaderVars)
    BY <1>1, <1>2, <1>4, <1>7, <2>2 DEF leaderVars
  <2> QED BY <1>7, <2>1, <2>2 DEF HandleAppend
<1>8. CASE m.type = "AppendResponse" /\ HandleAppendResponse(i, m)
  <2>1. CASE AdoptTerm(i, m) /\ m.term > currentTerm[i]
    BY <1>1, <1>2, <1>4, <1>8, <2>1 DEF AdoptTerm
  <2>2. CASE UNCHANGED <<durableVars, role>> /\ m.term <= currentTerm[i]
    BY <1>1, <1>2, <1>3, <1>8, <2>2 DEF durableVars, Resets
  <2> QED BY <1>2, <1>8, <2>1, <2>2 DEF HandleAppendResponse, leaderVars
<1> QED BY <1>1, <1>5, <1>6, <1>7, <1>8 DEF Deliver

\* OwnVote is kept.
LEMMA OwnVoteStep ==
  ASSUME TypeInv, PeersInv, OwnVote, [Next]_vars
  PROVE  OwnVote'
<1>1. /\ role \in [Node -> {"follower", "candidate", "leader"}]
      /\ votedFor \in [Node -> Node \cup {None}]
  BY DEF TypeInv, DurableType, LeaderType
<1>2. CASE Deliver
  <2>1. PICK i \in Node : i = Head(queue).dst
    BY <1>2, Handled
  <2> QED BY <1>2, <2>1, HandledRole DEF OwnVote
<1>3. ASSUME NEW i \in Node, Timeout(i) PROVE OwnVote'
  BY <1>1, <1>3 DEF Timeout, OwnVote
<1>4. ASSUME NEW i \in Node, Crash(i) PROVE OwnVote'
  BY <1>1, <1>4 DEF Crash, LoseRole, OwnVote, durableVars
<1>5. CASE UNCHANGED <<role, votedFor>>
  BY <1>5 DEF OwnVote
<1>6. CASE UNCHANGED vars
  BY <1>5, <1>6 DEF vars, durableVars, leaderVars
<1> QED BY <1>2, <1>3, <1>4, <1>5, <1>6
        DEF Next, Heartbeat, ClientWrite, ReadStart, Restart, Isolate, Heal, Discard, WriteAccepted,
            WriteUnknown, ReadAnswered, ReadFailed, ReadEnd, durableVars, leaderVars

\* A node that is down holds no office.
Down == \A i \in Node : ~alive[i] => role[i] = "follower"

\* Down is kept: nobody stands or takes office while it is down.
LEMMA DownStep ==
  ASSUME TypeInv, PeersInv, OwnVote, Down, [Next]_vars
  PROVE  Down'
<1>1. /\ role \in [Node -> {"follower", "candidate", "leader"}]
      /\ alive \in [Node -> BOOLEAN]
  BY DEF TypeInv, OtherType, LeaderType
<1>2. CASE Deliver
  <2>1. PICK i \in Node : i = Head(queue).dst
    BY <1>2, Handled
  <2>2. alive[i] /\ alive' = alive
    BY <1>2, <2>1 DEF Deliver, Deliverable
  <2>3. \A j \in Node \ {i} : role'[j] = role[j]
    BY <1>2, <2>1, HandledRole
  <2> QED BY <2>2, <2>3 DEF Down
<1>3. ASSUME NEW i \in Node, Timeout(i) PROVE Down'
  BY <1>1, <1>3 DEF Timeout, Down
<1>4. ASSUME NEW i \in Node, Crash(i) PROVE Down'
  BY <1>1, <1>4 DEF Crash, LoseRole, Down
<1>5. ASSUME NEW i \in Node, Restart(i) PROVE Down'
  BY <1>1, <1>5 DEF Restart, leaderVars, Down
<1>6. CASE UNCHANGED <<role, alive>>
  BY <1>6 DEF Down
<1>7. CASE UNCHANGED vars
  BY <1>6, <1>7 DEF vars, leaderVars
<1> QED BY <1>2, <1>3, <1>4, <1>5, <1>6, <1>7
        DEF Next, Heartbeat, ClientWrite, ReadStart, Isolate, Heal, Discard, WriteAccepted,
            WriteUnknown, ReadAnswered, ReadFailed, ReadEnd, durableVars, leaderVars

----------------------------------------------------------------------------
(* Due ticks go with the messages that they are for *)

Ticks == 0..Delay

InTurn(w) == \A a, b \in DOMAIN w : a < b => w[a] <= w[b]

WaitInv == wait \in Seq(Ticks) /\ Len(wait) = Len(queue) /\ InTurn(wait)

\* The due ticks move as the messages do; what joins the queue is due last.
Along(d) ==
  /\ Moved(d)
  /\ \A k \in 1..Len(queue) - d : wait'[k] = wait[k + d]
  /\ \A k \in 1..Len(queue') : k > Len(queue) - d => wait'[k] = Delay

Delays(n) == [k \in 1..n |-> Delay]

Delayed(w, n, r) == r = w \o Delays(n)

\* A function on 1..n is a sequence.
LEMMA SeqOfFunction ==
  ASSUME NEW S, NEW n \in Nat, NEW s \in [1..n -> S]
  PROVE  s \in Seq(S) /\ Len(s) = n
<1>1. s \in Seq(S)
  OBVIOUS
<1>2. Len(s) \in Nat /\ DOMAIN s = 1..Len(s) /\ DOMAIN s = 1..n
  BY <1>1, LenProperties
<1> QED BY <1>1, <1>2

\* What is sent in a step is due after the delay.
LEMMA DelaysType ==
  ASSUME NEW n \in Nat
  PROVE  Delays(n) \in Seq(Ticks) /\ Len(Delays(n)) = n /\ \A k \in 1..n : Delays(n)[k] = Delay
<1>1. Delay \in Ticks
  BY ClockAssumption DEF Ticks
<1>2. Delays(n) \in [1..n -> Ticks]
  BY <1>1 DEF Delays
<1>3. \A k \in 1..n : Delays(n)[k] = Delay
  BY DEF Delays
<1> QED BY <1>2, <1>3, SeqOfFunction

\* Delays after what is due earlier.
LEMMA DelaysLast ==
  ASSUME NEW w \in Seq(Ticks), InTurn(w), NEW n \in Nat, NEW r,
         Delayed(w, n, r)
  PROVE  /\ r \in Seq(Ticks) /\ InTurn(r) /\ Len(w) \in Nat /\ Len(r) = Len(w) + n
         /\ \A k \in 1..Len(w) : r[k] = w[k]
         /\ \A k \in 1..Len(r) : k > Len(w) => r[k] = Delay
<1>1. Delay \in Nat /\ Delay \in 0..Delay
  BY ClockAssumption
<1>2. PICK s \in Seq(Ticks) : s = Delays(n) /\ r = w \o s
  BY DelaysType DEF Delayed
<1>3. Len(s) = n /\ \A k \in 1..n : s[k] = Delay
  BY <1>2, DelaysType
<1>4. r \in Seq(Ticks) /\ Len(w) \in Nat /\ Len(r) = Len(w) + n
  BY <1>2, <1>3, ConcatProperties, LenProperties
<1>5. /\ \A k \in 1..Len(w) : r[k] = w[k] /\ w[k] \in Ticks
      /\ \A k \in 1..Len(r) : k > Len(w) => r[k] = Delay
  <2>1. ASSUME NEW k \in 1..Len(w) PROVE r[k] = w[k] /\ w[k] \in Ticks
    <3>1. w[k] \in Ticks
      BY ElementOfSeq
    <3>2. k \in 1..Len(w) + Len(s) /\ k <= Len(w)
      BY <1>3, <1>4
    <3>3. r[k] = w[k]
      BY <1>2, <3>2, ConcatProperties
    <3> QED BY <3>1, <3>3
  <2>2. ASSUME NEW k \in 1..Len(r), k > Len(w) PROVE r[k] = Delay
    <3>1. r[k] = s[k - Len(w)] /\ k - Len(w) \in 1..n
      BY <1>2, <1>3, <1>4, <2>2, ConcatProperties
    <3> QED BY <1>3, <3>1
  <2> QED BY <2>1, <2>2
<1>6. ASSUME NEW a \in 1..Len(r), NEW b \in 1..Len(r), a < b PROVE r[a] <= r[b]
  <2>1. r[a] \in Ticks
    BY <1>4, ElementOfSeq
  <2>2. CASE b > Len(w)
    BY <1>1, <1>5, <2>1, <2>2 DEF Ticks
  <2>3. CASE b <= Len(w)
    <3>1. a \in 1..Len(w) /\ b \in 1..Len(w) /\ DOMAIN w = 1..Len(w)
      BY <1>4, <1>6, <2>3, LenProperties
    <3> QED BY <1>5, <1>6, <3>1 DEF InTurn
  <2> QED BY <1>4, <2>2, <2>3
<1>7. DOMAIN r = 1..Len(r)
  BY <1>4, LenProperties
<1> QED BY <1>4, <1>5, <1>6, <1>7 DEF InTurn

\* Messages are added.
LEMMA StampAdded ==
  ASSUME WaitInv, Moved(0), Stamp(wait)
  PROVE  WaitInv' /\ Along(0)
<1>1. /\ Len(queue) \in Nat /\ Len(queue') \in Nat /\ Len(queue') >= Len(queue)
      /\ wait \in Seq(Ticks) /\ InTurn(wait) /\ Len(wait) = Len(queue)
  BY DEF Moved, WaitInv
<1>2. PICK n \in Nat : n = Len(queue') - Len(wait)
  BY <1>1
<1>3. PICK r : r = wait' /\ Delayed(wait, n, r)
  BY <1>2 DEF Stamp, Delays, Delayed
<1>4. /\ r \in Seq(Ticks) /\ InTurn(r) /\ Len(r) = Len(wait) + n
      /\ \A k \in 1..Len(wait) : r[k] = wait[k]
      /\ \A k \in 1..Len(r) : k > Len(wait) => r[k] = Delay
  BY <1>1, <1>3, DelaysLast
<1>5. Len(r) = Len(queue')
  BY <1>1, <1>2, <1>4
<1>6. WaitInv'
  BY <1>3, <1>4, <1>5 DEF WaitInv, InTurn
<1>7. Along(0)
  BY <1>1, <1>3, <1>4, <1>5 DEF Along
<1> QED BY <1>6, <1>7

\* The head is taken, and messages are added.
LEMMA StampTaken ==
  ASSUME WaitInv, queue # <<>>, Moved(1), Stamp(Tail(wait))
  PROVE  WaitInv' /\ Along(1)
<1>1. wait # <<>> /\ Len(queue) \in Nat /\ Len(queue) >= 1 /\ Len(wait) = Len(queue)
  BY EmptySeq DEF WaitInv, Moved
<1>2. PICK w \in Seq(Ticks) : w = Tail(wait)
  BY <1>1, TailShifts DEF WaitInv
<1>3. /\ Len(w) = Len(queue) - 1 /\ DOMAIN w = 1..Len(w) /\ DOMAIN wait = 1..Len(wait)
      /\ \A k \in 1..Len(queue) - 1 : w[k] = wait[k + 1]
  BY <1>1, <1>2, TailShifts, LenProperties DEF WaitInv
<1>4. InTurn(w)
  <2>1. SUFFICES ASSUME NEW a \in 1..Len(w), NEW b \in 1..Len(w), a < b PROVE w[a] <= w[b]
    BY <1>3 DEF InTurn
  <2>2. a + 1 \in DOMAIN wait /\ b + 1 \in DOMAIN wait /\ a + 1 < b + 1
    BY <1>1, <1>3, <2>1
  <2> QED BY <1>3, <2>2 DEF WaitInv, InTurn
<1>5. PICK n \in Nat : n = Len(queue') - Len(w)
  BY <1>1, <1>3 DEF Moved
<1>5a. PICK r : r = wait' /\ Delayed(w, n, r)
  BY <1>2, <1>5 DEF Stamp, Delays, Delayed
<1>6. /\ r \in Seq(Ticks) /\ InTurn(r) /\ Len(r) = Len(w) + n
      /\ \A k \in 1..Len(w) : r[k] = w[k]
      /\ \A k \in 1..Len(r) : k > Len(w) => r[k] = Delay
  BY <1>4, <1>5a, DelaysLast
<1>7. Len(queue') \in Nat /\ Len(r) = Len(queue')
  BY <1>1, <1>3, <1>5, <1>6 DEF Moved
<1>8. WaitInv'
  BY <1>5a, <1>6, <1>7 DEF WaitInv, InTurn
<1>9. Along(1)
  BY <1>1, <1>3, <1>5a, <1>6, <1>7 DEF Along
<1> QED BY <1>8, <1>9

\* A tick in which nothing is due brings everything one tick nearer.
LEMMA TickWaits ==
  ASSUME WaitInv, ~Due, queue' = queue, wait' = [k \in DOMAIN wait |-> wait[k] - 1],
         Len(queue) \in Nat
  PROVE  WaitInv' /\ \A k \in 1..Len(queue) : wait'[k] = wait[k] - 1 /\ wait[k] \in Nat
<1>1. DOMAIN wait = 1..Len(queue) /\ Delay \in Nat /\ \A k \in 1..Len(queue) : wait[k] \in 0..Delay
  BY ClockAssumption, LenProperties, ElementOfSeq DEF WaitInv, Ticks
<1>2. ASSUME NEW k \in 1..Len(queue) PROVE wait[k] >= 1
  <2>1. queue # <<>> /\ wait # <<>> /\ 1 \in 1..Len(queue)
    BY <1>2, EmptySeq DEF WaitInv
  <2>2. Head(wait) = wait[1] /\ wait[1] # 0
    BY <2>1, TailShifts DEF Due, WaitInv
  <2>3. wait[1] <= wait[k]
    BY <1>1, <2>1 DEF WaitInv, InTurn
  <2> QED BY <1>1, <2>1, <2>2, <2>3
<1>3. \A k \in 1..Len(queue) : wait'[k] = wait[k] - 1 /\ wait[k] - 1 \in 0..Delay
  BY <1>1, <1>2
<1>4. wait' \in Seq(Ticks) /\ Len(wait') = Len(queue) /\ DOMAIN wait' = 1..Len(queue)
  <2>1. wait' \in [1..Len(queue) -> Ticks]
    BY <1>1, <1>3 DEF Ticks
  <2>2. PICK r \in [1..Len(queue) -> Ticks] : r = wait'
    BY <2>1
  <2> QED BY <2>2, SeqOfFunction
<1>5. InTurn(wait')
  <2>1. ASSUME NEW a \in 1..Len(queue), NEW b \in 1..Len(queue), a < b
        PROVE  wait'[a] <= wait'[b]
    <3>1. wait[a] <= wait[b]
      BY <1>1, <2>1 DEF WaitInv, InTurn
    <3> QED BY <1>1, <1>3, <3>1
  <2> QED BY <1>4, <2>1 DEF InTurn
<1> QED BY <1>1, <1>3, <1>4, <1>5 DEF WaitInv

\* What is taken from the queue is taken with its due tick.
LEMMA TakenAlong ==
  ASSUME TypeInv, WaitInv, DeliverDue \/ DiscardDue
  PROVE  WaitInv' /\ Along(1)
<1>1. queue # <<>> /\ Stamp(Tail(wait))
  BY DEF DeliverDue, DiscardDue, Due
<1>2. Moved(1)
  BY DeliverMoves, NoReplyMoves DEF DeliverDue, DiscardDue, Discard
<1> QED BY <1>1, <1>2, StampTaken

\* What a timer or a call adds is added with its due tick.
LEMMA AddedAlong ==
  ASSUME TypeInv, WaitInv, NEW i \in Node, Beat(i) \/ Stand(i) \/ Write(i) \/ Read(i)
  PROVE  WaitInv' /\ Along(0)
<1>1. Stamp(wait)
  BY DEF Beat, Stand, Write, Read, Begin
<1>2. \/ Timeout(i) \/ Heartbeat(i) \/ ReadStart(i)
      \/ \E k \in Key, v \in Value : ClientWrite(i, k, v)
  BY DEF Beat, Stand, Write, Read, Begin
<1> QED BY <1>1, <1>2, OwnMoves, StampAdded

\* Nothing moves.
LEMMA StillAlong ==
  ASSUME TypeInv, WaitInv, UNCHANGED <<queue, wait>>
  PROVE  WaitInv' /\ Along(0)
<1>1. Len(queue) \in Nat
  BY LenProperties DEF TypeInv, QueueType
<1> QED BY <1>1 DEF WaitInv, InTurn, Along, Moved

\* Whatever is not run by the queue, a timer or a call leaves both alone.
LEMMA QuietActions ==
  ASSUME NEW i \in Node,
         \/ Returns \/ CrashNow(i) \/ RestartNow(i) \/ IsolateNow(i) \/ HealNow(i)
         \/ UNCHANGED timedVars
  PROVE  UNCHANGED <<queue, wait>>
BY DEF Returns, WriteAccepted, WriteUnknown, ReadAnswered, ReadFailed, ReadEnd, CrashNow, RestartNow,
       IsolateNow, HealNow, Fault, Crash, Restart, Isolate, Heal, timedVars, vars, clockVars

\* There is a node.
LEMMA SomeNode == \E i \in Node : TRUE
BY NodeIsFinite, FS_EmptySet, RaftAssumption

\* WaitInv is kept.
LEMMA WaitInvStep ==
  ASSUME TypeInv, WaitInv, [ClockNext]_timedVars
  PROVE  WaitInv'
<1>1. CASE DeliverDue \/ DiscardDue
  BY <1>1, TakenAlong
<1>2. CASE Tick
  <2>1. Len(queue) \in Nat
    BY LenProperties DEF TypeInv, QueueType
  <2>2. ~Due /\ queue' = queue /\ wait' = [k \in DOMAIN wait |-> wait[k] - 1]
    BY <1>2 DEF Tick, Quiescent, vars
  <2> QED BY <2>1, <2>2, TickWaits
<1>3. ASSUME NEW i \in Node, Beat(i) \/ Stand(i) \/ Write(i) \/ Read(i) PROVE WaitInv'
  BY <1>3, AddedAlong
<1>4. ASSUME NEW i \in Node,
             \/ Returns \/ CrashNow(i) \/ RestartNow(i) \/ IsolateNow(i) \/ HealNow(i)
             \/ UNCHANGED timedVars
      PROVE  WaitInv'
  BY <1>4, QuietActions, StillAlong
<1> QED BY <1>1, <1>2, <1>3, <1>4, SomeNode DEF ClockNext, Running

----------------------------------------------------------------------------
(* Timers, calls and history *)

TimerInv ==
  /\ timer \in [Node -> 0..ElectionHigh]
  /\ \A i \in Node : role[i] = "leader" => timer[i] <= HeartbeatInterval

CallInv == left \in 0..Patience /\ (client = Idle => left = 0)

HistoryType ==
  /\ heard \in [Node -> Node \cup {None}]
  /\ solo \in BOOLEAN /\ promised \in BOOLEAN

\* The constructor's bounds leave room for a heartbeat below every timeout.
LEMMA ClockBounds ==
  /\ Delay \in Nat /\ Delay >= 1 /\ HeartbeatInterval \in 0..ElectionHigh
  /\ HeartbeatInterval \in Nat /\ ElectionHigh \in Nat /\ Patience \in Nat /\ Patience >= 1
  /\ 0 \in 0..ElectionHigh
  /\ \A d \in Timeouts : d \in 0..ElectionHigh /\ d \in Nat /\ d > 2 * Delay + HeartbeatInterval
BY ClockAssumption DEF Timeouts, Patience

\* A timer that is set anew.
LEMMA Drawn ==
  ASSUME TimerInv, NEW i \in Node, Redraw(i)
  PROVE  /\ timer' \in [Node -> 0..ElectionHigh] /\ timer'[i] \in Timeouts
         /\ \A j \in Node \ {i} : timer'[j] = timer[j]
<1>1. PICK d \in Timeouts : timer' = [timer EXCEPT ![i] = d]
  BY DEF Redraw
<1> QED BY <1>1, ClockBounds DEF TimerInv

\* TimerInv is kept: who takes office sets a heartbeat, and who is given a
\* new deadline is not in office.
LEMMA TimerInvStep ==
  ASSUME TypeInv, PeersInv, OwnVote, Down, TimerInv, [ClockNext]_timedVars
  PROVE  TimerInv'
<1>1. /\ timer \in [Node -> 0..ElectionHigh]
      /\ role \in [Node -> {"follower", "candidate", "leader"}]
      /\ \A j \in Node : role[j] = "leader" => timer[j] <= HeartbeatInterval
  BY DEF TimerInv, TypeInv, LeaderType
<1>2. CASE DeliverDue
  <2>1. PICK i \in Node : i = Head(queue).dst
    BY <1>2, Handled DEF DeliverDue
  <2>2. \A j \in Node \ {i} : role'[j] = role[j]
    BY <1>2, <2>1, HandledRole DEF DeliverDue
  <2>3. CASE timer' = [timer EXCEPT ![i] = HeartbeatInterval]
    BY <1>1, <2>2, <2>3, ClockBounds DEF TimerInv
  <2>4. CASE Resets(i, Head(queue)) /\ Redraw(i)
    <3>1. role'[i] # "leader"
      BY <1>2, <2>1, <2>4, HandledRole DEF DeliverDue
    <3> QED BY <1>1, <2>2, <2>4, <3>1, Drawn DEF TimerInv
  <2>5. CASE ~TakesOffice(i) /\ UNCHANGED timer
    BY <1>1, <2>2, <2>5 DEF TimerInv, TakesOffice
  <2> QED BY <1>2, <2>1, <2>3, <2>4, <2>5 DEF DeliverDue
<1>3. CASE UNCHANGED <<role, timer>>
  BY <1>1, <1>3 DEF TimerInv
<1>4. CASE Tick
  <2>1. role' = role /\ timer' = [i \in Node |-> IF alive[i] THEN timer[i] - 1 ELSE 0]
    BY <1>4 DEF Tick, vars, leaderVars
  <2>2. ASSUME NEW i \in Node PROVE alive[i] => timer[i] >= 1
    <3>1. alive[i] => timer[i] # 0
      BY <1>4 DEF Tick, Quiescent, Expired
    <3>2. timer[i] \in 0..ElectionHigh
      BY <1>1
    <3> QED BY <3>1, <3>2
  <2>3. ASSUME NEW i \in Node
        PROVE  timer'[i] \in 0..ElectionHigh /\ timer'[i] <= timer[i]
    <3>1. timer[i] \in 0..ElectionHigh /\ ElectionHigh \in Nat
      BY <1>1, ClockBounds
    <3> QED BY <2>1, <2>2, <3>1, ClockBounds
  <2>4. timer' \in [Node -> 0..ElectionHigh]
    BY <2>1, <2>3
  <2>5. ASSUME NEW i \in Node, role'[i] = "leader" PROVE timer'[i] <= HeartbeatInterval
    <3>1. timer[i] \in Nat /\ timer'[i] \in Nat /\ timer[i] <= HeartbeatInterval
      BY <1>1, <2>1, <2>3, <2>5
    <3> QED BY <2>3, <3>1, ClockBounds
  <2> QED BY <2>4, <2>5 DEF TimerInv
<1>5. ASSUME NEW i \in Node, Beat(i) PROVE TimerInv'
  BY <1>1, <1>5, ClockBounds DEF Beat, Heartbeat, leaderVars, TimerInv
<1>6. ASSUME NEW i \in Node, Stand(i) PROVE TimerInv'
  <2>1. role' = [role EXCEPT ![i] = "candidate"] /\ Redraw(i)
    BY <1>6 DEF Stand, Timeout
  <2> QED BY <1>1, <2>1, Drawn DEF TimerInv
<1>7. ASSUME NEW i \in Node, CrashNow(i) PROVE TimerInv'
  <2>1. role' = [role EXCEPT ![i] = "follower"] /\ timer' = [timer EXCEPT ![i] = 0]
    BY <1>7 DEF CrashNow, Fault, Crash, LoseRole
  <2> QED BY <1>1, <2>1, ClockBounds DEF TimerInv
<1>8. ASSUME NEW i \in Node, RestartNow(i) PROVE TimerInv'
  <2>1. role' = role /\ Redraw(i) /\ role[i] # "leader"
    BY <1>8 DEF RestartNow, Fault, Restart, leaderVars, Down
  <2> QED BY <1>1, <2>1, Drawn DEF TimerInv
<1>9. DiscardDue \/ Returns \/ UNCHANGED timedVars => UNCHANGED <<role, timer>>
  BY DEF DiscardDue, Discard, Returns, WriteAccepted, WriteUnknown, ReadAnswered, ReadFailed, ReadEnd,
         timedVars, vars, clockVars, leaderVars
<1>10. ASSUME NEW i \in Node, Write(i) \/ Read(i) \/ IsolateNow(i) \/ HealNow(i)
       PROVE  UNCHANGED <<role, timer>>
  BY <1>10 DEF Write, Read, Begin, ClientWrite, ReadStart, IsolateNow, HealNow, Fault, Isolate, Heal,
         leaderVars
<1> QED BY <1>2, <1>3, <1>4, <1>5, <1>6, <1>7, <1>8, <1>9, <1>10 DEF ClockNext, Running

\* CallInv is kept: a call has ticks left only while it is in progress.
LEMMA CallInvStep ==
  ASSUME CallInv, [ClockNext]_timedVars
  PROVE  CallInv'
<1> USE DEF CallInv
<1>1. Patience \in Nat /\ 0 \in 0..Patience /\ Patience \in 0..Patience
  BY ClockBounds
<1>2. CASE UNCHANGED <<left, client>>
  BY <1>2
<1>3. CASE Tick
  <2>1. client' = client
    BY <1>3 DEF Tick, vars, clientVars
  <2>2. CASE client = Idle
    BY <1>3, <2>1, <2>2 DEF Tick
  <2>3. CASE client # Idle
    <3>1. left > 0 /\ left' = left - 1
      BY <1>3, <2>3 DEF Tick
    <3> QED BY <1>1, <2>1, <2>3, <3>1
  <2> QED BY <2>2, <2>3
<1>4. CASE Returns
  BY <1>1, <1>4 DEF Returns
<1>5. ASSUME NEW i \in Node, Write(i) \/ Read(i) PROVE CallInv'
  <2>1. left' = Patience
    BY <1>5 DEF Write, Read, Begin
  <2>2. client'.op \in {"write", "read"}
    <3>1. ReadStart(i) => client'.op = "read"
      BY DEF ReadStart
    <3>2. ASSUME NEW k \in Key, NEW v \in Value, ClientWrite(i, k, v) PROVE client'.op = "write"
      BY <3>2 DEF ClientWrite
    <3> QED BY <1>5, <3>1, <3>2 DEF Write, Read, Begin
  <2> QED BY <1>1, <2>1, <2>2 DEF Idle
<1>6. DeliverDue \/ DiscardDue \/ UNCHANGED timedVars => UNCHANGED <<left, client>>
  BY DEF DeliverDue, DiscardDue, Deliver, Discard, timedVars, vars, clockVars, clientVars
<1>7. ASSUME NEW i \in Node,
             \/ Beat(i) \/ Stand(i) \/ CrashNow(i) \/ RestartNow(i) \/ IsolateNow(i) \/ HealNow(i)
      PROVE  UNCHANGED <<left, client>>
  BY <1>7 DEF Beat, Stand, Heartbeat, Timeout, CrashNow, RestartNow, IsolateNow, HealNow, Fault, Crash,
         Restart, Isolate, Heal, clientVars
<1> QED BY <1>2, <1>3, <1>4, <1>5, <1>6, <1>7 DEF ClockNext, Running

\* What is remembered is of the kind of what there was to remember.
LEMMA RememberType ==
  ASSUME NEW h \in [Node -> Node \cup {None}], Remember(h)
  PROVE  heard' \in [Node -> Node \cup {None}]
BY DEF Remember

\* HistoryType is kept.
LEMMA HistoryTypeStep ==
  ASSUME TypeInv, HistoryType, [ClockNext]_timedVars
  PROVE  HistoryType'
<1> USE DEF HistoryType
<1>1. CASE DeliverDue
  <2>1. PICK i \in Node : i = Head(queue).dst /\ Head(queue).src \in Node
    BY <1>1, Handled DEF DeliverDue
  <2>2. [heard EXCEPT ![i] = Head(queue).src] \in [Node -> Node \cup {None}]
    BY <2>1
  <2>3. PICK h \in [Node -> Node \cup {None}] : Remember(h)
    BY <1>1, <2>1, <2>2 DEF DeliverDue
  <2> QED BY <1>1, <2>3, RememberType DEF DeliverDue
<1>2. ASSUME NEW i \in Node, Stand(i) PROVE HistoryType'
  BY <1>2, RememberType DEF Stand
<1>3. ASSUME NEW i \in Node, Write(i) \/ Read(i) PROVE HistoryType'
  BY <1>3, RememberType DEF Write, Read, Begin, Attended
<1>4. ASSUME NEW i \in Node, CrashNow(i) \/ RestartNow(i) \/ IsolateNow(i) \/ HealNow(i)
      PROVE  HistoryType'
  BY <1>4, RememberType DEF CrashNow, RestartNow, IsolateNow, HealNow, Fault
<1>5. CASE UNCHANGED historyVars
  BY <1>5 DEF historyVars
<1>6. CASE Returns
  BY <1>6 DEF Returns
<1> QED BY <1>1, <1>2, <1>3, <1>4, <1>5, <1>6 DEF ClockNext, Running, DiscardDue, Tick, Beat, timedVars

----------------------------------------------------------------------------
(* Followers that have heard their leader *)

\* All that is sent over links that are whole is in the queue.
LEMMA AllEnqueued ==
  ASSUME NEW S, NEW q \in Seq(S), NEW out \in SUBSET S, IsFiniteSet(out), NEW c,
         \A d \in out : d.dst \in Node,
         NEW r \in Enqueued(q, out, c), NEW m \in out, <<m.src, m.dst>> \notin c
  PROVE  \E k \in 1..Len(r) : k > Len(q) /\ r[k] = m
<1> DEFINE sent == Sendable(out, c)
<1>1. IsFiniteSet(sent) /\ sent \subseteq out /\ m \in sent
  BY FS_Subset DEF Sendable
<1>2. PICK n \in Nat : n = Cardinality(sent)
  BY <1>1, FS_CardinalityType
<1>3. PICK s \in InOrder(sent) : r = q \o s
  BY DEF Enqueued
<1>4. s \in [1..n -> sent] /\ \A a, b \in 1..n : a < b => s[a].dst < s[b].dst
  BY <1>2, <1>3 DEF InOrder
<1> HIDE DEF sent
<1>5. s \in Injection(1..n, sent)
  <2>1. \A a, b \in 1..n : a # b => s[a] # s[b]
    <3>1. SUFFICES ASSUME NEW a \in 1..n, NEW b \in 1..n, a < b PROVE s[a] # s[b]
      OBVIOUS
    <3>2. s[a].dst < s[b].dst /\ s[a].dst \in Nat /\ s[b].dst \in Nat
      BY <1>1, <1>4, <3>1 DEF Node
    <3> QED BY <3>2
  <2> QED BY <1>4, <2>1 DEF Injection, IsInjective
<1>6. s \in Surjection(1..n, sent)
  <2>1. Cardinality(1..n) = n
    BY FS_Interval
  <2> QED BY <1>1, <1>2, <1>5, <2>1, FS_Injection
<1>7. PICK k \in 1..n : s[k] = m
  BY <1>1, <1>6 DEF Surjection
<1>8. s \in Seq(S) /\ Len(s) = n
  <2>1. s \in [1..n -> S]
    BY <1>1, <1>4
  <2> QED BY <2>1, SeqOfFunction
<1>9. Len(q) \in Nat /\ r \in Seq(S) /\ Len(r) = Len(q) + n
  BY <1>3, <1>8, ConcatProperties, LenProperties
<1>10. Len(q) + k \in 1..Len(r) /\ Len(q) + k > Len(q) /\ Len(q) + k - Len(q) = k
  BY <1>9
<1>11. r[Len(q) + k] = s[k]
  BY <1>3, <1>8, <1>9, <1>10, ConcatProperties
<1> QED BY <1>7, <1>10, <1>11

\* Whatever is broadcast over whole links is due in Delay ticks.
LEMMA SendsSent ==
  ASSUME TypeInv, Along(0), NEW out, IsFiniteSet(out), \A d \in out : d.dst \in Node,
         Send(out), NEW r \in out, <<r.src, r.dst>> \notin cut
  PROVE  \E k \in 1..Len(queue') : queue'[k] = r /\ wait'[k] = Delay
<1> DEFINE S == SoundMessage \cup out
<1>1. queue \in Seq(S) /\ out \in SUBSET S
  <2>1. queue \in Seq(SoundMessage) /\ SoundMessage \subseteq S
    BY DEF TypeInv, QueueType
  <2> QED BY <2>1, SeqMonotonic
<1> HIDE DEF S
<1>2. queue' \in Enqueued(queue, out, cut)
  BY DEF Send
<1>3. PICK k \in 1..Len(queue') : k > Len(queue) /\ queue'[k] = r
  BY <1>1, <1>2, AllEnqueued
<1>4. wait'[k] = Delay
  BY <1>3 DEF Along, Moved
<1> QED BY <1>3, <1>4

\* What a leader sends to all over whole links is due in Delay ticks.
LEMMA BroadcastSent ==
  ASSUME TypeInv, Along(0), NEW L \in Node, NEW j \in Node \ {L}, <<L, j>> \notin cut,
         NEW t, NEW l, NEW next, NEW c, NEW ctx, Send(AppendsToPeers(L, t, l, next, c, ctx))
  PROVE  \E k \in 1..Len(queue') : queue'[k] = AppendMsg(L, j, t, l, next[j], c, ctx) /\ wait'[k] = Delay
<1> DEFINE a == AppendMsg(L, j, t, l, next[j], c, ctx)
<1>1. PICK out : out = AppendsToPeers(L, t, l, next, c, ctx) /\ Send(out)
  OBVIOUS
<1>2. IsFiniteSet(out) /\ a \in out /\ \A d \in out : d.dst \in Node
  <2>1. out = {AppendMsg(L, n, t, l, next[n], c, ctx) : n \in Node \ {L}}
    BY <1>1 DEF AppendsToPeers
  <2>2. IsFiniteSet(out)
    BY <1>1, BroadcastFinite
  <2>3. a \in out
    BY <2>1
  <2>4. \A d \in out : d.dst \in Node
    BY <2>1 DEF AppendMsg
  <2> QED BY <2>2, <2>3, <2>4
<1>3. <<a.src, a.dst>> \notin cut
  BY DEF AppendMsg
<1> HIDE DEF a
<1>4. \E k \in 1..Len(queue') : queue'[k] = a /\ wait'[k] = Delay
  BY <1>1, <1>2, <1>3, SendsSent
<1> QED BY <1>4 DEF a

\* Whatever is sent in answer over whole links is due in Delay ticks.
LEMMA RepliesSent ==
  ASSUME TypeInv, queue # <<>>, Along(1), NEW out, IsFiniteSet(out), \A d \in out : d.dst \in Node,
         Reply(out), NEW r \in out, <<r.src, r.dst>> \notin cut
  PROVE  \E k \in 1..Len(queue') : queue'[k] = r /\ wait'[k] = Delay
<1> DEFINE S == SoundMessage \cup out
<1>1. queue \in Seq(S) /\ out \in SUBSET S
  <2>1. queue \in Seq(SoundMessage) /\ SoundMessage \subseteq S
    BY DEF TypeInv, QueueType
  <2> QED BY <2>1, SeqMonotonic
<1> HIDE DEF S
<1>2. PICK q \in Seq(S) : q = Tail(queue)
  BY <1>1, TailShifts
<1>3. Len(queue) \in Nat /\ Len(q) = Len(queue) - 1
  BY <1>1, <1>2, TailShifts
<1>4. queue' \in Enqueued(q, out, cut)
  BY <1>2 DEF Reply
<1>5. PICK k \in 1..Len(queue') : k > Len(q) /\ queue'[k] = r
  BY <1>1, <1>4, AllEnqueued
<1>6. wait'[k] = Delay
  BY <1>3, <1>5 DEF Along
<1> QED BY <1>5, <1>6

\* So is a single answer.
LEMMA ReplySent ==
  ASSUME TypeInv, queue # <<>>, Along(1), NEW r, r.dst \in Node, Reply({r}), <<r.src, r.dst>> \notin cut
  PROVE  \E k \in 1..Len(queue') : queue'[k] = r /\ wait'[k] = Delay
BY FS_Singleton, RepliesSent

\* Leader L and its follower i are up, linked and in one term.
Linked(i, L) ==
  /\ i # L /\ alive[i] /\ alive[L]
  /\ role[L] = "leader" /\ role[i] = "follower" /\ currentTerm[i] = currentTerm[L]
  /\ {<<i, L>>, <<L, i>>} \cap cut = {}

\* An AppendEntries that resets i's deadline as a message of L.
Calls(m, i, L) == m.type = "Append" /\ m.src = L /\ m.dst = i /\ m.term = currentTerm[i]

\* One that is in flight comes before i's deadline.
Coming(i, L) == \E k \in 1..Len(queue) : Calls(queue[k], i, L) /\ wait[k] <= timer[i]

\* The next heartbeat, or one that is in flight, comes before i's deadline.
InTime(i, L) == timer[L] + Delay <= timer[i] \/ Coming(i, L)

\* A follower that has heard a leader will hear it again before its deadline.
HeardInv == \A i, L \in Node : heard[i] = L => Linked(i, L) /\ InTime(i, L)

\* What is remembered was heard before the step.
LEMMA Remembered ==
  ASSUME NEW h, Remember(h), NEW i \in Node, NEW L \in Node, heard'[i] = L
  PROVE  /\ h[i] = L /\ alive'[i] /\ alive'[L] /\ role'[L] = "leader"
         /\ currentTerm'[i] = currentTerm'[L] /\ {<<i, L>>, <<L, i>>} \cap cut' = {}
<1>1. L # None
  BY RaftAssumption
<1> QED BY <1>1 DEF Remember, StillHeard

\* A follower stays one while its leader's term is its own.
LEMMA LinkedStep ==
  ASSUME GroupInv, [Next]_vars, NEW i \in Node, NEW L \in Node, Linked(i, L),
         alive'[i], alive'[L], role'[L] = "leader", currentTerm'[i] = currentTerm'[L],
         {<<i, L>>, <<L, i>>} \cap cut' = {}
  PROVE  Linked(i, L)' /\ currentTerm'[i] = currentTerm[i]
<1>1. GoodStep
  BY CommitSteps DEF CommitStep, GroupInv
<1>2. currentTerm'[L] = currentTerm[L] /\ currentTerm'[i] = currentTerm[i] /\ currentTerm[i] \in Nat
  BY <1>1, LeaderBefore, StepTypes DEF Linked
<1>3. role'[i] \in {"follower", "candidate", "leader"} /\ role[i] = "follower"
  BY <1>1 DEF GoodStep, TypeInv, LeaderType, Linked
<1>4. role'[i] # "leader"
  BY <1>1, <1>3, LeaderBefore
<1>5. role'[i] # "candidate"
  BY <1>1, <1>2, <1>3 DEF GoodStep, Summary, RolesStep
<1> QED BY <1>2, <1>3, <1>4, <1>5 DEF Linked

\* What is coming to i stays so until it is handled.
LEMMA ComingStep ==
  ASSUME TypeInv, NEW d \in {0, 1}, Along(d), NEW i \in Node, NEW L \in Node, Coming(i, L),
         d = 1 => ~Calls(queue[1], i, L),
         timer'[i] = timer[i], currentTerm'[i] = currentTerm[i]
  PROVE  Coming(i, L)'
<1>1. PICK k \in 1..Len(queue) : Calls(queue[k], i, L) /\ wait[k] <= timer[i]
  BY DEF Coming
<1>2. /\ d \in Nat /\ Len(queue) \in Nat /\ Len(queue') \in Nat /\ Len(queue') >= Len(queue) - d
      /\ \A j \in 1..Len(queue) - d : queue'[j] = queue[j + d] /\ wait'[j] = wait[j + d]
  BY DEF Along, Moved
<1>3. k > d
  BY <1>1
<1>4. k - d \in 1..Len(queue) - d /\ k - d \in 1..Len(queue') /\ k - d + d = k
  BY <1>2, <1>3
<1>5. queue'[k - d] = queue[k] /\ wait'[k - d] = wait[k]
  BY <1>2, <1>4
<1>6. Calls(queue[k - d], i, L)' /\ wait'[k - d] <= timer'[i]
  BY <1>1, <1>5 DEF Calls
<1> QED BY <1>4, <1>6 DEF Coming

\* The deadline stays behind the heartbeat while neither timer is set.
LEMMA InTimeStep ==
  ASSUME TypeInv, NEW d \in {0, 1}, Along(d), NEW i \in Node, NEW L \in Node, InTime(i, L),
         d = 1 => ~Calls(queue[1], i, L),
         timer'[i] = timer[i], timer'[L] = timer[L], currentTerm'[i] = currentTerm[i]
  PROVE  InTime(i, L)'
BY ComingStep DEF InTime

\* A new deadline is behind the next heartbeat.
LEMMA InTimeAnew ==
  ASSUME TimerInv', NEW i \in Node, NEW L \in Node, role'[L] = "leader", timer'[i] \in Timeouts
  PROVE  InTime(i, L)'
<1>1. timer'[L] \in Nat /\ timer'[L] <= HeartbeatInterval
  BY ClockBounds DEF TimerInv
<1>2. timer'[i] \in Nat /\ timer'[i] > 2 * Delay + HeartbeatInterval
  BY ClockBounds
<1> QED BY <1>1, <1>2, ClockBounds DEF InTime


\* HeardInv is kept when a message is handled: a leader's sets the deadline
\* anew, and no other touches the timers of a pair that stays linked.
LEMMA HeardDelivered ==
  ASSUME GroupInv, OwnVote, WaitInv, TimerInv, TimerInv', HistoryType, HeardInv, DeliverDue, [Next]_vars
  PROVE  HeardInv'
<1> SUFFICES ASSUME NEW i \in Node, NEW L \in Node, heard'[i] = L
             PROVE  Linked(i, L)' /\ InTime(i, L)'
  BY DEF HeardInv
<1>1. TypeInv /\ PeersInv /\ Deliver
  BY DEF GroupInv, LogInv, DeliverDue
<1>2. PICK m \in SoundMessage : /\ m = Head(queue) /\ m = queue[1] /\ m.dst \in Node /\ m.src \in Node
                                /\ m.term \in Nat /\ m.src # m.dst
  BY <1>1, Handled DEF PeersInv
<1>3. PICK n \in Node : n = m.dst
  BY <1>2
<1>4. Along(1)
  BY <1>1, TakenAlong
<1>5. \/ TakesOffice(n) /\ timer' = [timer EXCEPT ![n] = HeartbeatInterval]
      \/ Resets(n, m) /\ Redraw(n)
      \/ ~TakesOffice(n) /\ ~Resets(n, m) /\ UNCHANGED timer
  BY <1>2, <1>3 DEF DeliverDue
<1>6. /\ Resets(n, m) => role'[n] # "leader"
      /\ m.type = "Append" /\ m.term >= currentTerm[n] => role'[n] = "follower"
  BY <1>1, <1>2, <1>3, HandledRole
<1>7. timer \in [Node -> 0..ElectionHigh]
  BY DEF TimerInv
<1>8. \A j \in Node \ {n} : timer'[j] = timer[j]
  BY <1>5, <1>7, Drawn
<1>9. PICK h : /\ Remember(h)
               /\ h = IF m.type = "Append" /\ m.term >= currentTerm[n]
                      THEN [heard EXCEPT ![n] = m.src] ELSE heard
  BY <1>2, <1>3 DEF DeliverDue
<1>10. /\ h[i] = L /\ alive'[i] /\ alive'[L] /\ role'[L] = "leader"
       /\ currentTerm'[i] = currentTerm'[L] /\ {<<i, L>>, <<L, i>>} \cap cut' = {}
  <2>1. Remember(h) /\ heard'[i] = L
    BY <1>9
  <2> QED BY <2>1, Remembered
<1>11. CASE i = n /\ m.type = "Append" /\ m.term >= currentTerm[n]
  <2>1. L = m.src /\ role'[i] = "follower" /\ i # L
    BY <1>2, <1>3, <1>6, <1>9, <1>10, <1>11 DEF HistoryType
  <2>2. currentTerm[i] \in Nat
    BY <1>1 DEF TypeInv, DurableType
  <2>3. Resets(n, m) /\ ~TakesOffice(n)
    BY <1>2, <1>11, <2>1, <2>2 DEF Resets, TakesOffice
  <2>4. timer'[i] \in Timeouts
    BY <1>5, <1>11, <2>3, Drawn
  <2>5. InTime(i, L)'
    BY <1>10, <2>4, InTimeAnew
  <2> QED BY <1>10, <2>1, <2>5 DEF Linked
<1>12. CASE ~(i = n /\ m.type = "Append" /\ m.term >= currentTerm[n])
  <2>1. heard[i] = L
    BY <1>9, <1>10, <1>12 DEF HistoryType
  <2>2. Linked(i, L) /\ InTime(i, L)
    BY <2>1 DEF HeardInv
  <2>3. Linked(i, L)' /\ currentTerm'[i] = currentTerm[i]
    BY <1>10, <2>2, LinkedStep
  <2>4. timer'[L] = timer[L]
    <3>1. L = n => ~TakesOffice(n) /\ ~Resets(n, m)
      BY <1>6, <1>10, <2>2 DEF Linked, TakesOffice
    <3> QED BY <1>5, <1>8, <3>1
  <2>5. CASE i = n /\ Resets(n, m)
    <3>1. ~TakesOffice(n)
      BY <2>3, <2>5 DEF Linked, TakesOffice
    <3>2. timer'[i] \in Timeouts
      BY <1>5, <2>5, <3>1, Drawn
    <3> QED BY <1>10, <2>3, <3>2, InTimeAnew
  <2>6. CASE ~(i = n /\ Resets(n, m))
    <3>1. i = n => ~TakesOffice(n)
      BY <2>3 DEF Linked, TakesOffice
    <3>2. timer'[i] = timer[i]
      BY <1>5, <1>8, <2>6, <3>1
    <3>3. ~Calls(queue[1], i, L)
      BY <1>2, <1>3, <2>6 DEF Calls, Resets
    <3>4. InTime(i, L)'
      BY <1>1, <1>4, <2>2, <2>3, <2>4, <3>2, <3>3, InTimeStep
    <3> QED BY <2>3, <3>4
  <2> QED BY <2>5, <2>6
<1> QED BY <1>11, <1>12

\* A heartbeat is on its way when it was due.
LEMMA HeardBeat ==
  ASSUME TypeInv, WaitInv, TimerInv, NEW L \in Node, Beat(L), NEW i \in Node,
         Linked(i, L), InTime(i, L)
  PROVE  InTime(i, L)'
<1>1. /\ Heartbeat(L) /\ timer[L] = 0 /\ currentTerm' = currentTerm
      /\ timer' = [timer EXCEPT ![L] = HeartbeatInterval]
  BY DEF Beat, GoesOff, Expired, Heartbeat, durableVars
<1>2. i # L /\ timer'[i] = timer[i] /\ timer[i] \in Nat
  BY <1>1 DEF TimerInv, Linked
<1>3. Along(0)
  BY AddedAlong
<1>4. CASE Coming(i, L)
  BY <1>1, <1>2, <1>3, <1>4, ComingStep DEF InTime
<1>5. CASE timer[L] + Delay <= timer[i]
  <2>1. <<L, i>> \notin cut /\ i \in Node \ {L}
    BY DEF Linked
  <2>2. PICK k \in 1..Len(queue') :
          /\ queue'[k] = AppendMsg(L, i, currentTerm[L], log[L], nextIndex[L][i], commitIndex[L], 0)
          /\ wait'[k] = Delay
    BY <1>1, <1>3, <2>1, BroadcastSent DEF Heartbeat
  <2>3. Calls(queue[k], i, L)'
    BY <1>1, <2>2 DEF Calls, AppendMsg, Linked
  <2>4. wait'[k] <= timer'[i]
    BY <1>1, <1>2, <1>5, <2>2, ClockBounds
  <2>5. Coming(i, L)'
    BY <2>3, <2>4 DEF Coming
  <2> QED BY <2>5 DEF InTime
<1> QED BY <1>4, <1>5 DEF InTime


\* HeardInv is kept in a tick in which only time passes.
LEMMA HeardTick ==
  ASSUME TypeInv, WaitInv, TimerInv, Tick, NEW i \in Node, NEW L \in Node, Linked(i, L), InTime(i, L)
  PROVE  InTime(i, L)'
<1>1. /\ ~Due /\ queue' = queue /\ currentTerm' = currentTerm
      /\ wait' = [k \in DOMAIN wait |-> wait[k] - 1]
      /\ timer' = [j \in Node |-> IF alive[j] THEN timer[j] - 1 ELSE 0]
  BY DEF Tick, Quiescent, vars, durableVars
<1>2. timer'[i] = timer[i] - 1 /\ timer'[L] = timer[L] - 1 /\ timer[i] \in Nat /\ timer[L] \in Nat
  BY <1>1 DEF Linked, TimerInv
<1>3. Len(queue) \in Nat
  BY LenProperties DEF TypeInv, QueueType
<1>4. \A k \in 1..Len(queue) : wait'[k] = wait[k] - 1 /\ wait[k] \in Nat
  BY <1>1, <1>3, TickWaits
<1>5. CASE timer[L] + Delay <= timer[i]
  BY <1>2, <1>5, ClockBounds DEF InTime
<1>6. CASE Coming(i, L)
  <2>1. PICK k \in 1..Len(queue) : Calls(queue[k], i, L) /\ wait[k] <= timer[i]
    BY <1>6 DEF Coming
  <2>2. wait'[k] <= timer'[i]
    BY <1>2, <1>4, <2>1
  <2>3. Calls(queue[k], i, L)'
    BY <1>1, <2>1 DEF Calls
  <2> QED BY <1>1, <2>2, <2>3 DEF Coming, InTime
<1> QED BY <1>5, <1>6 DEF InTime

\* HeardInv is kept by what forgets, and touches no timer of a pair that stays
\* linked: an election, a call that begins, a fault.
LEMMA HeardForgets ==
  ASSUME GroupInv, HeardInv, [Next]_vars, Along(0), Remember(heard), NEW n \in Node,
         \A j \in Node \ {n} : timer'[j] = timer[j],
         timer' = timer \/ ~alive[n] \/ ~alive'[n] \/ role'[n] = "candidate"
  PROVE  HeardInv'
<1> SUFFICES ASSUME NEW i \in Node, NEW L \in Node, heard'[i] = L
             PROVE  Linked(i, L)' /\ InTime(i, L)'
  BY DEF HeardInv
<1>1. TypeInv /\ Remember(heard)
  BY DEF GroupInv
<1>2. /\ heard[i] = L /\ alive'[i] /\ alive'[L] /\ role'[L] = "leader"
      /\ currentTerm'[i] = currentTerm'[L] /\ {<<i, L>>, <<L, i>>} \cap cut' = {}
  BY <1>1, Remembered
<1>3. Linked(i, L) /\ InTime(i, L)
  BY <1>2 DEF HeardInv
<1>4. Linked(i, L)' /\ currentTerm'[i] = currentTerm[i]
  BY <1>2, <1>3, LinkedStep
<1>5. timer'[i] = timer[i] /\ timer'[L] = timer[L]
  BY <1>3, <1>4 DEF Linked
<1>6. InTime(i, L)'
  BY <1>1, <1>3, <1>4, <1>5, InTimeStep
<1> QED BY <1>4, <1>6

\* HeardInv is kept by every step.
LEMMA HeardInvStep ==
  ASSUME GroupInv, OwnVote, WaitInv, TimerInv, TimerInv', HistoryType, HeardInv,
         [ClockNext]_timedVars, [Next]_vars
  PROVE  HeardInv'
<1>1. TypeInv
  BY DEF GroupInv
<1>2. CASE DeliverDue
  BY <1>2, HeardDelivered
<1>3. CASE DiscardDue
  <2>1. /\ UNCHANGED <<alive, role, currentTerm, cut, timer, heard>> /\ queue # <<>>
        /\ ~Deliverable(Head(queue))
    BY <1>3 DEF DiscardDue, Discard, historyVars, durableVars, leaderVars
  <2>2. queue[1] = Head(queue)
    BY <1>1, <2>1, TailShifts DEF TypeInv, QueueType
  <2>3. SUFFICES ASSUME NEW i \in Node, NEW L \in Node, heard[i] = L
                 PROVE  Linked(i, L)' /\ InTime(i, L)'
    BY <2>1 DEF HeardInv
  <2>4. Linked(i, L) /\ InTime(i, L)
    BY <2>3 DEF HeardInv
  <2>5. ~Calls(queue[1], i, L)
    BY <2>1, <2>2, <2>4 DEF Calls, Linked, Deliverable
  <2>6. Along(1)
    BY <1>1, <1>3, TakenAlong
  <2>7. InTime(i, L)'
    BY <1>1, <2>1, <2>4, <2>5, <2>6, InTimeStep
  <2> QED BY <2>1, <2>4, <2>7 DEF Linked
<1>4. CASE Tick
  <2>1. UNCHANGED <<alive, role, currentTerm, cut, heard>>
    BY <1>4 DEF Tick, vars, historyVars, durableVars, leaderVars
  <2>2. ASSUME NEW i \in Node, NEW L \in Node, heard[i] = L
        PROVE  Linked(i, L)' /\ InTime(i, L)'
    <3>1. Linked(i, L) /\ InTime(i, L)
      BY <2>2 DEF HeardInv
    <3>2. InTime(i, L)'
      BY <1>1, <1>4, <3>1, HeardTick
    <3> QED BY <2>1, <3>1, <3>2 DEF Linked
  <2> QED BY <2>1, <2>2 DEF HeardInv
<1>5. ASSUME NEW n \in Node, Beat(n) PROVE HeardInv'
  <2>1. /\ UNCHANGED <<alive, role, currentTerm, cut, heard>> /\ role[n] = "leader"
        /\ timer' = [timer EXCEPT ![n] = HeartbeatInterval]
    BY <1>5 DEF Beat, Heartbeat, historyVars, durableVars, leaderVars
  <2>2. ASSUME NEW i \in Node, NEW L \in Node, heard[i] = L
        PROVE  Linked(i, L)' /\ InTime(i, L)'
    <3>1. Linked(i, L) /\ InTime(i, L)
      BY <2>2 DEF HeardInv
    <3>2. CASE L = n
      <4>1. InTime(i, L)'
        BY <1>1, <1>5, <3>1, <3>2, HeardBeat
      <4> QED BY <2>1, <3>1, <4>1 DEF Linked
    <3>3. CASE L # n
      <4>1. timer'[i] = timer[i] /\ timer'[L] = timer[L]
        BY <2>1, <3>1, <3>3 DEF Linked, TimerInv
      <4>2. Along(0)
        BY <1>1, <1>5, AddedAlong
      <4>3. InTime(i, L)'
        BY <1>1, <2>1, <3>1, <4>1, <4>2, InTimeStep
      <4> QED BY <2>1, <3>1, <4>3 DEF Linked
    <3> QED BY <3>2, <3>3
  <2> QED BY <2>1, <2>2 DEF HeardInv
<1>6. ASSUME NEW n \in Node, Stand(n) PROVE HeardInv'
  <2>1. Along(0)
    BY <1>1, <1>6, AddedAlong
  <2>2. Remember(heard) /\ Redraw(n) /\ role'[n] = "candidate"
    BY <1>1, <1>6 DEF Stand, Timeout, TypeInv, LeaderType
  <2>3. \A j \in Node \ {n} : timer'[j] = timer[j]
    BY <2>2, Drawn
  <2> QED BY <2>1, <2>2, <2>3, HeardForgets
<1>7. ASSUME NEW n \in Node, Write(n) \/ Read(n) PROVE HeardInv'
  <2>1. Along(0)
    BY <1>1, <1>7, AddedAlong
  <2>2. Remember(heard) /\ timer' = timer
    BY <1>7 DEF Write, Read, Begin
  <2> QED BY <2>1, <2>2, HeardForgets
<1>8. ASSUME NEW n \in Node, CrashNow(n) \/ RestartNow(n) \/ IsolateNow(n) \/ HealNow(n)
      PROVE  HeardInv'
  <2>1. Along(0)
    BY <1>1, <1>8, QuietActions, StillAlong
  <2>2. Remember(heard)
    BY <1>8 DEF CrashNow, RestartNow, IsolateNow, HealNow, Fault
  <2>3. \A j \in Node \ {n} : timer'[j] = timer[j]
    BY <1>8, Drawn DEF CrashNow, RestartNow, IsolateNow, HealNow, TimerInv
  <2>4. timer' = timer \/ ~alive[n] \/ ~alive'[n]
    <3>1. CrashNow(n) => ~alive'[n]
      BY <1>1 DEF CrashNow, Fault, Crash, TypeInv, OtherType
    <3>2. RestartNow(n) => ~alive[n]
      BY DEF RestartNow, Fault, Restart
    <3> QED BY <1>8, <3>1, <3>2 DEF IsolateNow, HealNow
  <2> QED BY <2>1, <2>2, <2>3, <2>4, HeardForgets
<1>9. CASE Returns \/ UNCHANGED timedVars
  <2>1. UNCHANGED <<alive, role, currentTerm, cut, heard, timer>>
    BY <1>9 DEF Returns, WriteAccepted, WriteUnknown, ReadAnswered, ReadFailed, ReadEnd, timedVars,
       clockVars, historyVars, vars, durableVars, leaderVars
  <2>2. UNCHANGED <<queue, wait>>
    BY <1>9, QuietActions, SomeNode
  <2>3. Along(0)
    BY <1>1, <2>2, StillAlong
  <2>4. ASSUME NEW i \in Node, NEW L \in Node, heard[i] = L
        PROVE  Linked(i, L)' /\ InTime(i, L)'
    <3>1. Linked(i, L) /\ InTime(i, L)
      BY <2>4 DEF HeardInv
    <3>2. InTime(i, L)'
      BY <1>1, <2>1, <2>3, <3>1, InTimeStep
    <3> QED BY <2>1, <3>1, <3>2 DEF Linked
  <2> QED BY <2>1, <2>4 DEF HeardInv
<1> QED BY <1>2, <1>3, <1>4, <1>5, <1>6, <1>7, <1>8, <1>9 DEF ClockNext, Running

\* A follower that becomes a candidate has stood.
LEMMA OnlyStanding ==
  ASSUME TypeInv, PeersInv, OwnVote, [ClockNext]_timedVars, NEW i \in Node,
         role[i] = "follower", role'[i] = "candidate"
  PROVE  \E n \in Node : Stand(n)
<1>1. /\ role \in [Node -> {"follower", "candidate", "leader"}]
      /\ role'[i] # role[i]
  BY DEF TypeInv, LeaderType
<1>2. ~DeliverDue
  <2> SUFFICES ASSUME DeliverDue PROVE FALSE
    OBVIOUS
  <2>1. PICK n \in Node : n = Head(queue).dst
    BY Handled DEF DeliverDue
  <2> QED BY <1>1, <2>1, HandledRole DEF DeliverDue
<1>3. ~DiscardDue /\ ~Returns /\ ~Tick /\ ~UNCHANGED timedVars
  BY <1>1 DEF DiscardDue, Discard, Returns, WriteAccepted, WriteUnknown, ReadAnswered, ReadFailed,
              ReadEnd, Tick, timedVars, vars, leaderVars
<1>4. ASSUME NEW n \in Node,
             \/ Beat(n) \/ Write(n) \/ Read(n)
             \/ RestartNow(n) \/ IsolateNow(n) \/ HealNow(n)
      PROVE  FALSE
  BY <1>1, <1>4 DEF Beat, Heartbeat, Write, Read, Begin, ClientWrite, ReadStart, RestartNow,
     IsolateNow, HealNow, Fault, Restart, Isolate, Heal, leaderVars
<1>5. ASSUME NEW n \in Node, CrashNow(n) PROVE FALSE
  BY <1>1, <1>5 DEF CrashNow, Fault, Crash, LoseRole
<1> QED BY <1>2, <1>3, <1>4, <1>5 DEF ClockNext, Running

\* A message that has no ticks to go makes the head due.
LEMMA LateIsDue ==
  ASSUME WaitInv, Len(queue) \in Nat, NEW k \in 1..Len(queue), wait[k] <= 0
  PROVE  Due
<1>1. Len(wait) = Len(queue) /\ DOMAIN wait = 1..Len(queue)
      /\ wait \in Seq(Ticks) /\ 1 \in 1..Len(queue)
  BY LenProperties DEF WaitInv
<1>2. wait # <<>> /\ queue # <<>> /\ Head(wait) = wait[1]
  BY <1>1, EmptySeq, TailShifts
<1>3. wait[1] \in 0..Delay /\ wait[k] \in 0..Delay /\ wait[1] <= wait[k]
  <2>1. wait[1] \in 0..Delay /\ wait[k] \in 0..Delay
    BY <1>1, ElementOfSeq DEF Ticks
  <2>2. k > 1 => wait[1] <= wait[k]
    BY <1>1 DEF WaitInv, InTurn
  <2>3. k = 1 => wait[1] <= wait[k]
    BY <2>1, ClockBounds
  <2> QED BY <2>1, <2>2, <2>3
<1> QED BY <1>2, <1>3, ClockBounds DEF Due

\* A follower whose deadline is behind the next heartbeat does not stand.
LEMMA HeardDoesNotStand ==
  ASSUME TypeInv, WaitInv, TimerInv, HeardInv, NEW i \in Node, NEW L \in Node, heard[i] = L
  PROVE  ~Stand(i)
<1> SUFFICES ASSUME Stand(i) PROVE FALSE
  OBVIOUS
<1>1. ~Due /\ timer[i] = 0 /\ InTime(i, L)
  BY DEF Stand, GoesOff, Expired, HeardInv
<1>2. timer[L] \in Nat /\ Len(queue) \in Nat
  BY LenProperties DEF TimerInv, TypeInv, QueueType
<1>3. Coming(i, L)
  BY <1>1, <1>2, ClockBounds DEF InTime
<1>4. PICK k \in 1..Len(queue) : wait[k] <= 0
  BY <1>1, <1>3 DEF Coming
<1> QED BY <1>1, <1>2, <1>4, LateIsDue

----------------------------------------------------------------------------
(* The clock's invariant and what it gives *)

ClockInv == OwnVote /\ Down /\ WaitInv /\ TimerInv /\ CallInv /\ HistoryType /\ HeardInv

\* A step of the clock is one of Raft's.
LEMMA ClockStepIsRaft == [ClockNext]_timedVars => [Next]_vars
BY RunningIsRaft, CallerIsRaft DEF ClockNext, timedVars

\* The clock's invariant holds when the group is built.
LEMMA ClockInvInit == ClockInit => ClockInv
<1> SUFFICES ASSUME ClockInit PROVE ClockInv
  OBVIOUS
<1>1. OwnVote /\ Down
  BY DEF ClockInit, Init, OwnVote, Down
<1>2. WaitInv
  <2>1. wait = <<>> /\ queue = <<>> /\ wait \in Seq(Ticks)
    BY DEF ClockInit, Init
  <2> QED BY <2>1 DEF WaitInv, InTurn
<1>3. TimerInv
  BY ClockBounds DEF ClockInit, Init, TimerInv
<1>4. CallInv /\ HistoryType
  <2>1. left = 0 /\ 0 \in 0..Patience
    BY ClockBounds DEF ClockInit
  <2> QED BY <2>1 DEF ClockInit, CallInv, HistoryType
<1>5. HeardInv
  BY RaftAssumption DEF ClockInit, HeardInv
<1> QED BY <1>1, <1>2, <1>3, <1>4, <1>5 DEF ClockInv

\* It is an invariant beside that of the group.
LEMMA ClockInvariant == ClockSpec => [](GroupInv /\ ClockInv)
<1>1. GroupInv /\ ClockInv /\ [ClockNext]_timedVars => ClockInv'
  <2> SUFFICES ASSUME GroupInv, ClockInv, [ClockNext]_timedVars PROVE ClockInv'
    OBVIOUS
  <2>1. TypeInv /\ PeersInv /\ [Next]_vars
    BY ClockStepIsRaft DEF GroupInv, LogInv
  <2>2. OwnVote /\ Down /\ WaitInv /\ TimerInv /\ CallInv /\ HistoryType /\ HeardInv
    BY DEF ClockInv
  <2>3. OwnVote' /\ Down' /\ WaitInv' /\ TimerInv' /\ CallInv' /\ HistoryType'
    BY <2>1, <2>2, OwnVoteStep, DownStep, WaitInvStep, TimerInvStep, CallInvStep, HistoryTypeStep
  <2>4. HeardInv'
    BY <2>1, <2>2, <2>3, HeardInvStep
  <2> QED BY <2>3, <2>4 DEF ClockInv
<1> QED BY <1>1, ClockInvInit, ClockImplementsRaft, GroupInvariant, PTL DEF ClockSpec

\* The type invariant of the clock, for every delay, interval and range of
\* timeouts that the constructor admits.
THEOREM ClockTypeHolds == ClockSpec => []ClockTypeOK
<1>1. ClockInv => ClockTypeOK
  BY DEF ClockInv, ClockTypeOK, WaitInv, InTurn, Ticks, TimerInv, CallInv, HistoryType
<1> QED BY <1>1, ClockInvariant, PTL

\* A follower that has heard its term's leader stands for no election while
\* both are up, in that term and linked: its deadline is always behind an
\* AppendEntries in flight or the delay after the leader's next heartbeat.
THEOREM HeardLeaderStaysHolds == ClockSpec => HeardLeaderStays
<1>1. GroupInv /\ ClockInv /\ [ClockNext]_timedVars =>
        \A i \in Node : heard[i] # None => role'[i] # "candidate"
  <2> SUFFICES ASSUME GroupInv, ClockInv, [ClockNext]_timedVars, NEW i \in Node, heard[i] # None,
                      role'[i] = "candidate"
               PROVE  FALSE
    OBVIOUS
  <2>1. TypeInv /\ PeersInv /\ OwnVote /\ WaitInv /\ TimerInv /\ HistoryType /\ HeardInv
    BY DEF GroupInv, LogInv, ClockInv
  <2>2. PICK L \in Node : heard[i] = L
    BY <2>1 DEF HistoryType
  <2>3. role[i] = "follower" /\ ~Stand(i)
    BY <2>1, <2>2, HeardDoesNotStand DEF HeardInv, Linked
  <2>4. PICK n \in Node : Stand(n)
    BY <2>1, <2>3, OnlyStanding
  <2> QED BY <2>1, <2>3, <2>4 DEF Stand, Timeout, TypeInv, LeaderType
<1> QED BY <1>1, ClockInvariant, PTL DEF ClockSpec, HeardLeaderStays

----------------------------------------------------------------------------
(* Calls to an attended leader.  From when such a call begins nobody that    *)
(* can be heard leaves the leader's term, so the round that the call begins  *)
(* is followed message by message: to a voter that hears the leader, back,   *)
(* and into what the leader counts, each within the delay.                   *)

\* No answer is of a term that its sender has not reached.
AnswerTerms ==
  \A k \in 1..Len(queue) :
    queue[k].type \in {"VoteResponse", "AppendResponse"} => queue[k].term <= currentTerm[queue[k].src]

\* n is L or hears it.
Near(n, L) == n = L \/ heard[n] = L

\* L leads all that can be heard.
Reigns(L) ==
  /\ role[L] = "leader" /\ alive[L]
  /\ \A n \in Node : Near(n, L) \/ ~alive[n] \/ LinksOf(n) \subseteq cut

\* What the call in progress waits for: its entry, or its context.
Serves(index, ctx) ==
  \/ client.op = "write" /\ index >= client.index
  \/ client.op = "read" /\ ctx = client.ctx

\* Leader L counts j for the call.
Counted(j, L) ==
  \/ client.op = "write" /\ matchIndex[L][j] >= client.index
  \/ client.op = "read" /\ <<client.ctx, j>> \in readAcks[L]

\* An AppendEntries of L's term that serves the call, from within L's log up to K.
Asks(m, j, L, K) ==
  /\ Own(m, L) /\ m.dst = j /\ m.term = currentTerm[L]
  /\ m.prevIndex <= K /\ m.prevTerm = TermAt(log[L], m.prevIndex)
  /\ Serves(m.prevIndex + Len(m.entries), m.ctx)

\* Its acknowledgement.
Agrees(m, j, L) ==
  /\ Echo(m, L, currentTerm[L]) /\ m.src = j /\ m.success /\ Serves(m.match, m.ctx)

\* Either in flight, and due in time.
Asked(j, L, K) ==
  \E k \in 1..Len(queue) : Asks(queue[k], j, L, K) /\ wait[k] + Patience <= left + Delay
Agreed(j, L) ==
  \E k \in 1..Len(queue) : Agrees(queue[k], j, L) /\ wait[k] + Patience <= left + 2 * Delay

\* j holds L's log up to K, an entry of L's term, and is asked, has agreed or
\* is counted.
Follower(j, L, K) ==
  /\ heard[j] = L /\ TermAt(log[j], K) = currentTerm[L]
  /\ Asked(j, L, K) \/ Agreed(j, L) \/ Counted(j, L)

InRound(Q, L, K) ==
  /\ client.op \in {"read", "write"} /\ client.leader = L /\ Reigns(L)
  /\ client.op = "write" => client.entry.term = currentTerm[L]
  /\ IsQuorum(Q) /\ K >= 1 /\ TermAt(log[L], K) = currentTerm[L]
  /\ L \in Q /\ Counted(L, L)
  /\ \A j \in Q \ {L} : Follower(j, L, K)
  /\ left + 2 * Delay >= Patience

\* A call that began with an attended leader is in such a round.
RoundInv ==
  promised => \E Q \in SUBSET Node : \E L \in Node : \E K \in Nat : InRound(Q, L, K)

\* AnswerTerms is kept: an answer is of the term its sender has then.
LEMMA AnswerTermsStep ==
  ASSUME TypeInv, TypeInv', GoodStep, TrafficStep, AnswerTerms
  PROVE  AnswerTerms'
<1>1. PICK d \in {0, 1} : TakesAndSends(d)
  BY DEF TrafficStep, QueueStep
<1>2. SUFFICES ASSUME NEW k \in 1..Len(queue'), NEW m, m = queue'[k],
                      m.type \in {"VoteResponse", "AppendResponse"}
               PROVE  m.term <= currentTerm'[m.src]
  BY DEF AnswerTerms
<1>3. /\ m \in SoundMessage
      /\ \/ k + d \in 1..Len(queue) /\ m = queue[k + d]
         \/ SentIn(d, m)
  BY <1>1, <1>2, OldOrNew
<1>4. m.src \in Node /\ m.term \in Nat
  BY <1>3 DEF SoundMessage, Message
<1>5. /\ currentTerm[m.src] \in Nat /\ currentTerm'[m.src] \in Nat
      /\ currentTerm'[m.src] >= currentTerm[m.src]
  BY <1>4, StepTypes
<1>6. CASE k + d \in 1..Len(queue) /\ m = queue[k + d]
  <2>1. m.term <= currentTerm[m.src]
    BY <1>2, <1>6 DEF AnswerTerms
  <2> QED BY <1>4, <1>5, <2>1
<1>7. CASE SentIn(d, m)
  <2>1. m.term = currentTerm'[m.src]
    BY <1>2, <1>7 DEF SentIn, LeaderSends, Answers
  <2> QED BY <1>5, <2>1
<1> QED BY <1>3, <1>6, <1>7

\* No message is of a term that its sender has not reached.
LEMMA TermsReached ==
  ASSUME GroupInv, AnswerTerms, NEW k \in 1..Len(queue)
  PROVE  queue[k].term <= currentTerm[queue[k].src]
<1> USE DEF GroupInv
<1>1. PICK m \in SoundMessage : m = queue[k] /\ m \in InFlight(queue)
  BY QueuedInFlight
<1>2. m.src \in Node /\ m.term \in Nat /\ currentTerm[m.src] \in Nat
  BY <1>1 DEF SoundMessage, Message, TypeInv, DurableType
<1>3. CASE m.type = "RequestVote"
  BY <1>1, <1>2, <1>3 DEF CommitsInv, AckSide, RequestInv
<1>4. CASE m.type = "Append"
  <2>1. LeaderSeen(m.term, m.src)
    BY <1>1, <1>4 DEF LogInv, AppendsInv, Appends
  <2> QED BY <1>1, <1>2, <2>1 DEF LeaderSeen
<1>5. CASE m.type \in {"VoteResponse", "AppendResponse"}
  BY <1>1, <1>5 DEF AnswerTerms
<1> QED BY <1>1, <1>3, <1>4, <1>5 DEF SoundMessage, Message

\* Who hears L is its follower and linked to it.
LEMMA NearIsLinked ==
  ASSUME HeardInv, NEW L \in Node, NEW n \in Node, heard[n] = L
  PROVE  Linked(n, L) /\ currentTerm[n] = currentTerm[L] /\ n # L
BY DEF HeardInv, Linked

\* What can be delivered is between nodes that are near L.
LEMMA DeliveredNear ==
  ASSUME NEW L \in Node, Reigns(L), NEW m, m.src \in Node, m.dst \in Node, m.src # m.dst,
         Deliverable(m)
  PROVE  Near(m.src, L) /\ Near(m.dst, L)
<1>1. <<m.src, m.dst>> \in LinksOf(m.src) /\ <<m.src, m.dst>> \in LinksOf(m.dst)
  BY DEF LinksOf
<1> QED BY <1>1 DEF Reigns, Deliverable

\* The message that is handled in a reign is of the leader's term or an
\* earlier one, and an AppendEntries of that term is the leader's.
LEMMA HandledInReign ==
  ASSUME GroupInv, AnswerTerms, HeardInv, NEW L \in Node, Reigns(L), Deliver,
         NEW m, m = Head(queue)
  PROVE  /\ m = queue[1] /\ m \in SoundMessage /\ m.src \in Node /\ m.dst \in Node /\ m.src # m.dst
         /\ Near(m.src, L) /\ Near(m.dst, L)
         /\ m.term \in Nat /\ currentTerm[L] \in Nat
         /\ m.term <= currentTerm[L] /\ currentTerm[m.dst] = currentTerm[L]
         /\ m.type = "Append" /\ m.term = currentTerm[L] => m.src = L
<1> USE DEF GroupInv
<1>1. /\ m = queue[1] /\ 1 \in 1..Len(queue) /\ m \in InFlight(queue) /\ m \in SoundMessage
      /\ m.src \in Node /\ m.dst \in Node /\ m.term \in Nat /\ m.src # m.dst
  BY Handled DEF LogInv, PeersInv
<1>2. Near(m.src, L) /\ Near(m.dst, L)
  BY <1>1, DeliveredNear DEF Deliver
<1>3. currentTerm[m.src] = currentTerm[L] /\ currentTerm[m.dst] = currentTerm[L]
  BY <1>1, <1>2, NearIsLinked DEF Near
<1>4. m.term <= currentTerm[L]
  BY <1>1, <1>3, TermsReached
<1>5. currentTerm[L] \in Nat
  BY DEF TypeInv, DurableType
<1>6. ASSUME m.type = "Append", m.term = currentTerm[L] PROVE m.src = L
  <2>1. Elected(currentTerm[L], m.src)
    BY <1>1, <1>6 DEF LogInv, AppendsInv, Appends, LeaderSeen
  <2>2. SeenLeaders
    BY LeadersAreSeen
  <2> QED BY <1>1, <2>1, <2>2 DEF SeenLeaders, Reigns
<1> QED BY <1>1, <1>2, <1>3, <1>4, <1>5, <1>6

\* What the leader has and counts stays with it.
LeaderStays(L) ==
  /\ role'[L] = "leader" /\ log'[L] = log[L] /\ readAcks[L] \subseteq readAcks'[L]

\* So handling a message changes no term and leaves the leader in office.
LEMMA ReignDelivers ==
  ASSUME GroupInv, AnswerTerms, HeardInv, NEW L \in Node, Reigns(L), Deliver
  PROVE  currentTerm' = currentTerm /\ LeaderStays(L)
<1> USE DEF GroupInv
<1>1. PICK m : m = Head(queue)
  OBVIOUS
<1>2. PICK i \in Node : i = m.dst
  BY <1>1, HandledInReign
<1>3. /\ m \in SoundMessage /\ m.src \in Node /\ m.src # i /\ Near(i, L)
      /\ m.term \in Nat /\ currentTerm[L] \in Nat
      /\ m.term <= currentTerm[L] /\ currentTerm[i] = currentTerm[L]
      /\ m.type = "Append" /\ m.term = currentTerm[L] => m.src = L
  BY <1>1, <1>2, HandledInReign
<1>4. /\ currentTerm \in [Node -> Nat] /\ role \in [Node -> {"follower", "candidate", "leader"}]
      /\ log \in [Node -> Seq(Entry)] /\ readAcks \in [Node -> SUBSET (Nat \X Node)]
      /\ role[L] = "leader"
  BY DEF TypeInv, DurableType, LeaderType, Reigns
<1>5. LoseRole(i) /\ i # L => role'[L] = role[L] /\ readAcks'[L] = readAcks[L]
  BY <1>4 DEF LoseRole
<1>6. CASE m.type = "RequestVote" /\ HandleRequestVote(i, m)
  <2>1. ~(m.term > currentTerm[i]) /\ Larger(m.term, currentTerm[i]) = currentTerm[i]
    BY <1>3 DEF Larger
  <2>2. currentTerm' = [currentTerm EXCEPT ![i] = currentTerm[i]] /\ UNCHANGED leaderVars /\ log' = log
    BY <1>6, <2>1 DEF HandleRequestVote
  <2> QED BY <1>4, <2>2 DEF leaderVars, LeaderStays
<1>7. CASE m.type = "VoteResponse" /\ HandleVoteResponse(i, m)
  <2>1. ~(m.term > currentTerm[i])
    BY <1>3
  <2>2. CASE UNCHANGED <<durableVars, leaderVars>>
    BY <1>4, <2>2 DEF durableVars, leaderVars, LeaderStays
  <2>3. CASE role[i] = "candidate" /\ UNCHANGED <<currentTerm, readAcks>> /\ BecomeLeader(i)
    <3>1. i # L
      BY <1>4, <2>3
    <3>2. PICK l : log' = [log EXCEPT ![i] = l] /\ role' = [role EXCEPT ![i] = "leader"]
      BY <2>3 DEF BecomeLeader
    <3> QED BY <1>4, <2>3, <3>1, <3>2 DEF LeaderStays
  <2>4. CASE UNCHANGED <<currentTerm, readAcks, role, log>>
    BY <1>4, <2>4 DEF LeaderStays
  <2> QED BY <1>7, <2>1, <2>2, <2>3, <2>4 DEF HandleVoteResponse
<1>8. CASE m.type = "Append" /\ HandleAppend(i, m)
  <2>1. CASE m.term < currentTerm[i]
    <3>1. UNCHANGED <<durableVars, leaderVars>>
      BY <1>3, <1>8, <2>1 DEF HandleAppend
    <3> QED BY <1>4, <3>1 DEF durableVars, leaderVars, LeaderStays
  <2>2. CASE ~(m.term < currentTerm[i])
    <3>1. m.term = currentTerm[i] /\ i # L
      BY <1>3, <1>8, <2>2
    <3>2. /\ currentTerm' = [currentTerm EXCEPT ![i] = m.term]
          /\ LoseRole(i) \/ UNCHANGED leaderVars
          /\ \/ log' = log
             \/ \E l : log' = [log EXCEPT ![i] = l]
      BY <1>8, <2>2 DEF HandleAppend
    <3>3. currentTerm' = currentTerm /\ log'[L] = log[L]
      BY <1>4, <3>1, <3>2
    <3> QED BY <1>4, <1>5, <3>1, <3>2, <3>3 DEF leaderVars, LeaderStays
  <2> QED BY <2>1, <2>2
<1>9. CASE m.type = "AppendResponse" /\ HandleAppendResponse(i, m)
  <2>1. ~(m.term > currentTerm[i])
    BY <1>3
  <2>2. /\ UNCHANGED <<currentTerm, log, role>>
        /\ readAcks' = readAcks \/ readAcks' = [readAcks EXCEPT ![i] = WithAck(i, m)]
    BY <1>9, <2>1 DEF HandleAppendResponse, durableVars, leaderVars
  <2>3. readAcks[i] \subseteq WithAck(i, m)
    BY DEF WithAck
  <2>4. readAcks[L] \subseteq readAcks'[L]
    BY <1>4, <2>2, <2>3
  <2> QED BY <1>4, <2>2, <2>4 DEF LeaderStays
<1> QED BY <1>1, <1>2, <1>6, <1>7, <1>8, <1>9 DEF Deliver

\* In a reign L stays in office, and who hears it goes on to.
ReignKept(L) ==
  /\ LeaderStays(L) /\ currentTerm'[L] = currentTerm[L] /\ Reigns(L)'
  /\ \A j \in Node : heard[j] = L => heard'[j] = L /\ currentTerm'[j] = currentTerm[j]

\* Only the terms of nodes that are cut off move, so who hears L is remembered.
LEMMA ReignRemembers ==
  ASSUME HeardInv, NEW L \in Node, Reigns(L), UNCHANGED <<alive, cut>>, LeaderStays(L),
         NEW h, Remember(h), \A j \in Node : heard[j] = L => h[j] = L,
         \A j \in Node : Near(j, L) => currentTerm'[j] = currentTerm[j]
  PROVE  ReignKept(L)
<1>1. currentTerm'[L] = currentTerm[L] /\ L # None
  BY RaftAssumption DEF Near
<1>2. ASSUME NEW j \in Node, heard[j] = L
      PROVE  heard'[j] = L /\ currentTerm'[j] = currentTerm[j]
  <2>1. Linked(j, L) /\ currentTerm[j] = currentTerm[L]
    BY <1>2, NearIsLinked
  <2>2. currentTerm'[j] = currentTerm[j] /\ h[j] = L
    BY <1>2 DEF Near
  <2>3. StillHeard(h, j)
    BY <1>1, <2>1, <2>2 DEF StillHeard, Linked, LeaderStays
  <2> QED BY <2>2, <2>3 DEF Remember
<1>3. Reigns(L)'
  <2>1. role'[L] = "leader" /\ alive'[L]
    BY DEF Reigns, LeaderStays
  <2>2. \A n \in Node : Near(n, L) => (n = L \/ heard'[n] = L)
    BY <1>2 DEF Near
  <2> QED BY <2>1, <2>2 DEF Reigns, Near
<1> QED BY <1>1, <1>2, <1>3 DEF ReignKept

\* What changes no role, term, log or link keeps a reign.
LEMMA ReignUnchanged ==
  ASSUME NEW L \in Node, Reigns(L), UNCHANGED <<alive, cut, role, log, readAcks, currentTerm, heard>>
  PROVE  ReignKept(L)
BY DEF Reigns, Near, ReignKept, LeaderStays

\* What runs while a call waits.
InCall ==
  \/ DeliverDue \/ DiscardDue \/ Tick \/ UNCHANGED timedVars
  \/ \E n \in Node : Beat(n) \/ Stand(n)

\* No other call begins and no fault comes while one waits.
LEMMA CallGoesOn ==
  ASSUME client # Idle, [ClockNext]_timedVars, promised'
  PROVE  InCall /\ promised /\ UNCHANGED <<client, promised>>
<1>1. ~Returns
  BY DEF Returns
<1>2. ASSUME NEW n \in Node,
             \/ Write(n) \/ Read(n)
             \/ CrashNow(n) \/ RestartNow(n) \/ IsolateNow(n) \/ HealNow(n)
      PROVE  FALSE
  BY <1>2 DEF Write, Read, Begin, ClientWrite, ReadStart, CrashNow, RestartNow, IsolateNow, HealNow,
     Fault, Crash, Restart, Isolate, Heal
<1>3. InCall
  BY <1>1, <1>2 DEF ClockNext, Running, InCall
<1>4. UNCHANGED <<client, promised>>
  BY <1>3 DEF InCall, DeliverDue, Deliver, DiscardDue, Discard, Tick, Beat, Heartbeat, Stand, Timeout,
     timedVars, vars, clientVars, historyVars
<1> QED BY <1>3, <1>4

\* A reign lasts as long as the call does.
LEMMA ReignStep ==
  ASSUME GroupInv, ClockInv, AnswerTerms, NEW L \in Node, Reigns(L), InCall
  PROVE  ReignKept(L)
<1>0. /\ TypeInv /\ WaitInv /\ TimerInv /\ HeardInv /\ HistoryType
      /\ currentTerm \in [Node -> Nat] /\ role \in [Node -> {"follower", "candidate", "leader"}]
      /\ role[L] = "leader" /\ heard \in [Node -> Node \cup {None}]
  BY DEF GroupInv, ClockInv, TypeInv, DurableType, LeaderType, Reigns, HistoryType
<1>1. CASE DeliverDue
  <2>1. Deliver /\ UNCHANGED <<alive, cut>>
    BY <1>1 DEF DeliverDue, Deliver
  <2>2. currentTerm' = currentTerm /\ LeaderStays(L)
    BY <1>0, <2>1, ReignDelivers
  <2>3. PICK m : m = Head(queue)
    OBVIOUS
  <2>4. /\ m.dst \in Node /\ m.term \in Nat /\ currentTerm[L] \in Nat
        /\ m.term <= currentTerm[L] /\ currentTerm[m.dst] = currentTerm[L]
        /\ m.type = "Append" /\ m.term = currentTerm[L] => m.src = L
    BY <1>0, <2>1, <2>3, HandledInReign
  <2>5. PICK h : /\ Remember(h)
                 /\ h = IF m.type = "Append" /\ m.term >= currentTerm[m.dst]
                        THEN [heard EXCEPT ![m.dst] = m.src] ELSE heard
    BY <1>1, <2>3 DEF DeliverDue
  <2>6. m.type = "Append" /\ m.term >= currentTerm[m.dst] => m.src = L
    BY <2>4
  <2>7. \A j \in Node : heard[j] = L => h[j] = L
    BY <1>0, <2>4, <2>5, <2>6
  <2> QED BY <1>0, <2>1, <2>2, <2>5, <2>7, ReignRemembers
<1>2. ASSUME NEW n \in Node, Stand(n) PROVE ReignKept(L)
  <2>1. /\ Timeout(n) /\ Remember(heard) /\ UNCHANGED <<alive, cut, log, readAcks>>
        /\ n # L /\ heard[n] # L
    BY <1>0, <1>2, HeardDoesNotStand DEF Stand, Timeout
  <2>2. /\ role' = [role EXCEPT ![n] = "candidate"]
        /\ \A j \in Node \ {n} : currentTerm'[j] = currentTerm[j]
    BY <1>0, <2>1 DEF Timeout
  <2>3. LeaderStays(L)
    BY <1>0, <2>1, <2>2 DEF LeaderStays
  <2>4. \A j \in Node : Near(j, L) => currentTerm'[j] = currentTerm[j]
    BY <2>1, <2>2 DEF Near
  <2>5. Remember(heard) /\ \A j \in Node : heard[j] = L => heard[j] = L
    BY <2>1
  <2> QED BY <1>0, <2>1, <2>3, <2>4, <2>5, ReignRemembers
<1>3. ASSUME DiscardDue \/ Tick \/ (UNCHANGED timedVars) \/ \E n \in Node : Beat(n)
      PROVE  ReignKept(L)
  <2>1. UNCHANGED <<alive, cut, role, log, readAcks, currentTerm, heard>>
    BY <1>3 DEF DiscardDue, Discard, Tick, Beat, Heartbeat, timedVars, vars, historyVars, durableVars,
       leaderVars
  <2> QED BY <2>1, ReignUnchanged
<1> QED BY <1>1, <1>2, <1>3 DEF InCall

----------------------------------------------------------------------------
(* The round, message by message *)

\* Who is counted stays counted.
LEMMA CountedStays ==
  ASSUME GroupInv, TypeInv', SelfMatch', TrafficStep, NEW L \in Node, ReignKept(L), role[L] = "leader",
         client' = client, NEW j \in Node, Counted(j, L)
  PROVE  Counted(j, L)'
<1>1. TypeInv /\ CursorStep /\ role'[L] = "leader" /\ log'[L] = log[L] /\ SelfMatch
  BY DEF GroupInv, CommitsInv, AckSide, TrafficStep, ReignKept, LeaderStays
<1>2. CASE client.op = "read" /\ <<client.ctx, j>> \in readAcks[L]
  BY <1>2 DEF ReignKept, LeaderStays, Counted
<1>3. CASE client.op = "write" /\ matchIndex[L][j] >= client.index
  <2>1. matchIndex[L][j] \in Nat /\ matchIndex'[L][j] \in Nat /\ client.index \in Nat
    BY <1>1, <1>3, WriteFields DEF TypeInv, LeaderType
  <2>2. j # L => matchIndex'[L][j] >= matchIndex[L][j]
    BY <1>1, MatchGrows
  <2>3. j = L => matchIndex'[L][j] = matchIndex[L][j]
    BY <1>1 DEF SelfMatch
  <2>4. matchIndex'[L][j] >= client.index
    BY <1>3, <2>1, <2>2, <2>3
  <2> QED BY <1>3, <2>4 DEF Counted
<1> QED BY <1>2, <1>3 DEF Counted

\* What is asked or agreed moves up in the queue with its due tick, or is the
\* head that is taken.
LEMMA RoundMoves ==
  ASSUME TypeInv, NEW d \in {0, 1}, Along(d), NEW L \in Node, ReignKept(L), NEW j \in Node, NEW K,
         client' = client, left' = left
  PROVE  /\ Asked(j, L, K) => Asked(j, L, K)' \/ (d = 1 /\ Asks(queue[1], j, L, K)
                                                       /\ wait[1] + Patience <= left + Delay)
         /\ Agreed(j, L) => Agreed(j, L)' \/ (d = 1 /\ Agrees(queue[1], j, L)
                                                 /\ wait[1] + Patience <= left + 2 * Delay)
<1>1. /\ d \in Nat /\ Len(queue) \in Nat /\ Len(queue') \in Nat /\ Len(queue') >= Len(queue) - d
      /\ \A k \in 1..Len(queue) - d : queue'[k] = queue[k + d] /\ wait'[k] = wait[k + d]
  BY DEF Along, Moved
<1>2. currentTerm'[L] = currentTerm[L] /\ log'[L] = log[L]
  BY DEF ReignKept, LeaderStays
<1>3. ASSUME NEW k \in 1..Len(queue), k > d
      PROVE  k - d \in 1..Len(queue') /\ queue'[k - d] = queue[k] /\ wait'[k - d] = wait[k]
  <2>1. k - d \in 1..Len(queue) - d /\ k - d \in 1..Len(queue') /\ k - d + d = k
    BY <1>1, <1>3
  <2> QED BY <1>1, <2>1
<1>4. ASSUME NEW k \in 1..Len(queue), k <= d PROVE d = 1 /\ k = 1
  BY <1>1, <1>4
<1>5. ASSUME Asked(j, L, K)
      PROVE  Asked(j, L, K)' \/ (d = 1 /\ Asks(queue[1], j, L, K)
                                     /\ wait[1] + Patience <= left + Delay)
  <2>1. PICK k \in 1..Len(queue) : Asks(queue[k], j, L, K) /\ wait[k] + Patience <= left + Delay
    BY <1>5 DEF Asked
  <2>2. CASE k > d
    <3>1. k - d \in 1..Len(queue') /\ queue'[k - d] = queue[k] /\ wait'[k - d] = wait[k]
      BY <1>3, <2>2
    <3>2. Asks(queue[k - d], j, L, K)'
      BY <1>2, <2>1, <3>1 DEF Asks, Own, Serves
    <3>3. wait'[k - d] + Patience <= left' + Delay
      BY <2>1, <3>1
    <3> QED BY <3>1, <3>2, <3>3 DEF Asked
  <2>3. CASE k <= d
    BY <1>4, <2>1, <2>3
  <2> QED BY <1>1, <2>2, <2>3
<1>6. ASSUME Agreed(j, L)
      PROVE  Agreed(j, L)' \/ (d = 1 /\ Agrees(queue[1], j, L)
                                  /\ wait[1] + Patience <= left + 2 * Delay)
  <2>1. PICK k \in 1..Len(queue) : Agrees(queue[k], j, L) /\ wait[k] + Patience <= left + 2 * Delay
    BY <1>6 DEF Agreed
  <2>2. CASE k > d
    <3>1. k - d \in 1..Len(queue') /\ queue'[k - d] = queue[k] /\ wait'[k - d] = wait[k]
      BY <1>3, <2>2
    <3>2. Agrees(queue[k - d], j, L)'
      BY <1>2, <2>1, <3>1 DEF Agrees, Echo, Serves
    <3>3. wait'[k - d] + Patience <= left' + 2 * Delay
      BY <2>1, <3>1
    <3> QED BY <3>1, <3>2, <3>3 DEF Agreed
  <2>3. CASE k <= d
    BY <1>4, <2>1, <2>3
  <2> QED BY <1>1, <2>2, <2>3
<1> QED BY <1>5, <1>6

\* Logs with one positive term at one index are one up to it.
LEMMA SameUpTo ==
  ASSUME GroupInv, NEW i \in Node, NEW j \in Node, NEW K \in Nat, NEW T \in Nat, T >= 1,
         TermAt(log[i], K) = T, TermAt(log[j], K) = T, NEW n \in Nat, n <= K
  PROVE  n <= Len(log[j]) /\ TermAt(log[j], n) = TermAt(log[i], n)
<1>1. /\ log[i] \in Seq(Entry) /\ log[j] \in Seq(Entry)
      /\ Links(log[i]) \subseteq AllLinks /\ Links(log[j]) \subseteq AllLinks
      /\ Unique(AllLinks)
  BY LogLinks DEF GroupInv, TypeInv, DurableType
<1>2. PICK l \in Seq(Entry), r \in Seq(Entry) :
        l = log[i] /\ r = log[j] /\ Links(l) \subseteq AllLinks /\ Links(r) \subseteq AllLinks
  BY <1>1
<1>3. /\ K \in 1..Len(l) /\ K \in 1..Len(r) /\ l[K].term = r[K].term
      /\ DOMAIN l = 1..Len(l) /\ DOMAIN r = 1..Len(r) /\ Len(l) \in Nat /\ Len(r) \in Nat
  BY <1>2, TermAtIndex, LenProperties
<1>4. \A k \in 1..K : l[k] = r[k]
  BY <1>1, <1>2, <1>3, LogsAgree
<1>5. n <= Len(r) /\ TermAt(r, n) = TermAt(l, n)
  <2>1. n \in 1..K => l[n] = r[n]
    BY <1>4
  <2>2. n \in DOMAIN l <=> n \in 1..K \/ (n > K /\ n \in DOMAIN l)
    BY <1>3
  <2> QED BY <1>3, <2>1 DEF TermAt
<1> QED BY <1>2, <1>5

\* An entry of the leader's term is not cut from the log of who hears it.
LEMMA LogKeepsTerm ==
  ASSUME GoodStep, LogInv, HeardInv, NEW L \in Node, ReignKept(L), NEW j \in Node, heard[j] = L,
         NEW K \in Nat, NEW T \in Nat, T = currentTerm[L], T >= 1, TermAt(log[j], K) = T
  PROVE  TermAt(log'[j], K) = T
<1>1. currentTerm'[j] = T
  <2>1. currentTerm[j] = currentTerm[L]
    BY NearIsLinked
  <2> QED BY <2>1 DEF ReignKept
<1>2. CASE Grew(j)
  BY <1>2, GrewKeeps
<1>3. ASSUME NEW m \in Appends, Follows(j, m) PROVE TermAt(log'[j], K) = T
  <2>1. m.term = T
    BY <1>1, <1>3 DEF Follows
  <2> QED BY <1>3, <2>1, FollowsKeeps
<1> QED BY <1>2, <1>3 DEF GoodStep, Summary, LogsStep

\* Who hears the leader agrees to what it is asked.
LEMMA AskedAgrees ==
  ASSUME GroupInv, AnswerTerms, HeardInv, NEW L \in Node, Reigns(L), ReignKept(L), DeliverDue, Along(1),
         client' = client, left' = left, left \in Nat,
         NEW j \in Node, heard[j] = L, NEW K \in Nat, K >= 1,
         TermAt(log[L], K) = currentTerm[L], TermAt(log[j], K) = currentTerm[L],
         Asks(queue[1], j, L, K), wait[1] + Patience <= left + Delay, wait[1] = 0
  PROVE  Agreed(j, L)'
<1>1. TypeInv /\ queue # <<>> /\ Deliver
  BY DEF GroupInv, DeliverDue, Deliver
<1>2. PICK m \in SoundMessage : /\ m = queue[1] /\ m = Head(queue) /\ m.type = "Append"
                                /\ m.src = L /\ m.dst = j /\ m.term = currentTerm[L]
  BY <1>1, Handled DEF Asks, Own
<1>3. /\ m.prevIndex <= K /\ m.prevTerm = TermAt(log[L], m.prevIndex)
      /\ Serves(m.prevIndex + Len(m.entries), m.ctx)
  BY <1>2 DEF Asks
<1>4. Linked(j, L) /\ currentTerm[j] = currentTerm[L] /\ currentTerm[L] \in Nat /\ currentTerm[L] >= 1
  <2>1. currentTerm[L] \in Nat /\ currentTerm[L] >= 1
    BY DEF GroupInv, TypeInv, DurableType, LogInv, TermsBounded, Reigns
  <2> QED BY <2>1, NearIsLinked
<1>5. m.prevIndex \in Nat
  BY <1>2 DEF SoundMessage, Message
<1>6. HasPrevious(log[j], m)
  BY <1>3, <1>4, <1>5, SameUpTo DEF HasPrevious
<1>7. HandleAppend(j, m)
  BY <1>1, <1>2 DEF Deliver
<1>8. PICK r : /\ Reply({r}) /\ r.dst = L /\ r.src = j /\ r.type = "AppendResponse"
               /\ r.term = m.term /\ r.success /\ r.match = m.prevIndex + Len(m.entries)
               /\ r.ctx = m.ctx
  <2> DEFINE c == Len(Merge(log[j], m.prevIndex, m.entries)) + 1
             a == AppendResponseMsg(j, m.src, m.term, TRUE, m.prevIndex + Len(m.entries), c, m.ctx)
  <2>1. ~(m.term < currentTerm[j])
    BY <1>2, <1>4
  <2>2. Reply({a})
    BY <1>6, <1>7, <2>1 DEF HandleAppend
  <2>3. /\ a.dst = L /\ a.src = j /\ a.type = "AppendResponse" /\ a.term = m.term /\ a.success
        /\ a.match = m.prevIndex + Len(m.entries) /\ a.ctx = m.ctx
    BY <1>2 DEF AppendResponseMsg
  <2> HIDE DEF a
  <2> QED BY <2>2, <2>3
<1>9. <<r.src, r.dst>> \notin cut
  BY <1>4, <1>8 DEF Linked
<1>10. PICK k \in 1..Len(queue') : queue'[k] = r /\ wait'[k] = Delay
  BY <1>1, <1>8, <1>9, ReplySent
<1>11. Agrees(queue[k], j, L)'
  <2>1. currentTerm'[L] = currentTerm[L]
    BY DEF ReignKept
  <2>2. Serves(r.match, r.ctx)'
    BY <1>3, <1>8 DEF Serves
  <2> QED BY <1>2, <1>8, <1>10, <2>1, <2>2 DEF Agrees, Echo
<1>12. wait'[k] + Patience <= left' + 2 * Delay
  <2>1. Patience <= left + Delay /\ Patience \in Nat /\ Delay \in Nat
    BY ClockBounds
  <2> QED BY <1>10, <2>1
<1> QED BY <1>10, <1>11, <1>12 DEF Agreed

\* The leader counts who agrees.
LEMMA AgreedCounts ==
  ASSUME GroupInv, ContextInv, NEW L \in Node, Reigns(L), ReignKept(L),
         Deliver, client' = client, NEW j \in Node, heard[j] = L, Agrees(queue[1], j, L)
  PROVE  Counted(j, L)'
<1>1. TypeInv /\ queue # <<>>
  BY DEF GroupInv, Deliver
<1>2. PICK m \in SoundMessage : /\ m = queue[1] /\ m = Head(queue) /\ m.type = "AppendResponse"
                                /\ m.src = j /\ m.dst = L /\ m.term = currentTerm[L] /\ m.success
                                /\ Serves(m.match, m.ctx)
  BY <1>1, Handled DEF Agrees, Echo
<1>3. /\ role[L] = "leader" /\ currentTerm[L] \in Nat /\ m.match \in Nat
      /\ readAcks \in [Node -> SUBSET (Nat \X Node)]
      /\ matchIndex \in [Node -> [Node -> Nat]]
  BY <1>1, <1>2 DEF Reigns, TypeInv, DurableType, LeaderType, SoundMessage, Message
<1>4. /\ matchIndex' = [matchIndex EXCEPT ![L] = [matchIndex[L] EXCEPT ![j] = Larger(@, m.match)]]
      /\ readAcks' = [readAcks EXCEPT ![L] = WithAck(L, m)]
  <2>1. HandleAppendResponse(L, m)
    BY <1>1, <1>2 DEF Deliver
  <2> QED BY <1>2, <1>3, <2>1 DEF HandleAppendResponse
<1>5. CASE client.op = "write" /\ m.match >= client.index
  <2>1. client.index \in Nat
    BY <1>1, <1>5, WriteFields
  <2>2. matchIndex'[L][j] = Larger(matchIndex[L][j], m.match) /\ matchIndex[L][j] \in Nat
    BY <1>3, <1>4
  <2>3. matchIndex'[L][j] >= client.index
    BY <1>3, <1>5, <2>1, <2>2 DEF Larger
  <2> QED BY <1>5, <2>3 DEF Counted
<1>6. CASE client.op = "read" /\ m.ctx = client.ctx
  <2>1. client.ctx >= 1 /\ m.ctx \in Nat
    BY <1>2, <1>6 DEF ContextInv, SoundMessage, Message
  <2>2. m.ctx # 0
    BY <1>6, <2>1
  <2>3. <<m.ctx, m.src>> \in readAcks'[L]
    BY <1>3, <1>4, <2>2 DEF WithAck
  <2> QED BY <1>2, <1>6, <2>3 DEF Counted
<1> QED BY <1>2, <1>5, <1>6 DEF Serves

\* Its place in the round is kept, or moves on.
LEMMA FollowerStep ==
  ASSUME GroupInv, ClockInv, AnswerTerms, ContextInv, TypeInv', SelfMatch', GoodStep, TrafficStep,
         InCall, client # Idle, client' = client, NEW L \in Node, Reigns(L), ReignKept(L),
         NEW K \in Nat, K >= 1, TermAt(log[L], K) = currentTerm[L],
         NEW j \in Node, Follower(j, L, K)
  PROVE  Follower(j, L, K)'
<1> USE DEF GroupInv, ClockInv
<1>1. /\ heard[j] = L /\ TermAt(log[j], K) = currentTerm[L] /\ currentTerm'[L] = currentTerm[L]
      /\ Asked(j, L, K) \/ Agreed(j, L) \/ Counted(j, L)
  BY DEF Follower, ReignKept
<1>2. heard'[j] = L /\ TermAt(log'[j], K) = currentTerm'[L]
  <2>1. PICK T \in Nat : T = currentTerm[L] /\ T >= 1
    BY DEF TypeInv, DurableType, LogInv, TermsBounded, Reigns
  <2>2. TermAt(log'[j], K) = T
    BY <1>1, <2>1, LogKeepsTerm
  <2> QED BY <1>1, <2>1, <2>2 DEF ReignKept
<1>3. Counted(j, L) => Counted(j, L)'
  BY CountedStays DEF Reigns
<1>4. left \in Nat /\ Delay \in Nat /\ Patience \in Nat
  BY ClockBounds DEF CallInv
<1>5. CASE DeliverDue \/ DiscardDue
  <2>1. Along(1) /\ left' = left
    BY <1>5, TakenAlong DEF DeliverDue, DiscardDue
  <2>2. wait[1] = 0 /\ queue[1] = Head(queue) /\ queue # <<>>
    <3>1. queue # <<>> /\ Head(wait) = 0 /\ wait # <<>>
      BY <1>5, EmptySeq DEF DeliverDue, DiscardDue, Due, WaitInv, TypeInv, QueueType
    <3> QED BY <3>1, TailShifts DEF WaitInv, TypeInv, QueueType
  <2>3. Linked(j, L)
    BY <1>1, NearIsLinked
  <2>4. ASSUME Asks(queue[1], j, L, K) \/ Agrees(queue[1], j, L) PROVE DeliverDue
    <3>1. Deliverable(queue[1])
      BY <2>3, <2>4 DEF Deliverable, Asks, Agrees, Own, Echo, Linked
    <3> QED BY <1>5, <2>2, <3>1 DEF DiscardDue, Discard
  <2>5. Asks(queue[1], j, L, K) /\ wait[1] + Patience <= left + Delay => Agreed(j, L)'
    BY <1>1, <1>4, <2>1, <2>2, <2>4, AskedAgrees
  <2>6. Agrees(queue[1], j, L) => Counted(j, L)'
    BY <1>1, <2>4, AgreedCounts DEF DeliverDue
  <2>7. /\ Asked(j, L, K) => Asked(j, L, K)' \/ Agreed(j, L)'
        /\ Agreed(j, L) => Agreed(j, L)' \/ Counted(j, L)'
    BY <2>1, <2>5, <2>6, RoundMoves
  <2> QED BY <1>1, <1>2, <1>3, <2>7 DEF Follower
<1>6. CASE (UNCHANGED timedVars) \/ \E n \in Node : Beat(n) \/ Stand(n)
  <2>1. Along(0) /\ left' = left
    <3>1. ASSUME UNCHANGED timedVars PROVE Along(0) /\ left' = left
      BY <3>1, QuietActions, SomeNode, StillAlong DEF timedVars, clockVars
    <3>2. ASSUME NEW n \in Node, Beat(n) \/ Stand(n) PROVE Along(0) /\ left' = left
      BY <3>2, AddedAlong DEF Beat, Stand
    <3> QED BY <1>6, <3>1, <3>2
  <2>2. (Asked(j, L, K) => Asked(j, L, K)') /\ (Agreed(j, L) => Agreed(j, L)')
    BY <2>1, RoundMoves
  <2> QED BY <1>1, <1>2, <1>3, <2>2 DEF Follower
<1>7. CASE Tick
  <2>1. queue' = queue /\ left' = left - 1 /\ log'[L] = log[L]
    BY <1>7 DEF Tick, vars, durableVars
  <2>2. /\ Len(queue) \in Nat
        /\ \A k \in 1..Len(queue) : wait'[k] = wait[k] - 1 /\ wait[k] \in Nat
    <3>1. ~Due /\ wait' = [k \in DOMAIN wait |-> wait[k] - 1] /\ Len(queue) \in Nat
      BY <1>7, LenProperties DEF Tick, Quiescent, TypeInv, QueueType
    <3> QED BY <2>1, <3>1, TickWaits
  <2>3. ASSUME Asked(j, L, K) PROVE Asked(j, L, K)'
    <3>1. PICK k \in 1..Len(queue) : Asks(queue[k], j, L, K) /\ wait[k] + Patience <= left + Delay
      BY <2>3 DEF Asked
    <3>2. Asks(queue[k], j, L, K)'
      BY <1>1, <2>1, <3>1 DEF Asks, Own, Serves
    <3>3. wait'[k] + Patience <= left' + Delay
      BY <1>4, <2>1, <2>2, <3>1
    <3> QED BY <2>1, <3>2, <3>3 DEF Asked
  <2>4. ASSUME Agreed(j, L) PROVE Agreed(j, L)'
    <3>1. PICK k \in 1..Len(queue) : Agrees(queue[k], j, L) /\ wait[k] + Patience <= left + 2 * Delay
      BY <2>4 DEF Agreed
    <3>2. Agrees(queue[k], j, L)'
      BY <1>1, <2>1, <3>1 DEF Agrees, Echo, Serves
    <3>3. wait'[k] + Patience <= left' + 2 * Delay
      BY <1>4, <2>1, <2>2, <3>1
    <3> QED BY <2>1, <3>2, <3>3 DEF Agreed
  <2> QED BY <1>1, <1>2, <1>3, <2>3, <2>4 DEF Follower
<1> QED BY <1>5, <1>6, <1>7 DEF InCall

\* When all of the quorum is counted, the loop's next look is satisfied.
LEMMA CountedSatisfies ==
  ASSUME GroupInv, ReadsInv, ClientInv, NEW Q \in SUBSET Node, NEW L \in Node, NEW K \in Nat,
         InRound(Q, L, K), \A j \in Q : Counted(j, L)
  PROVE  Satisfied
<1> USE DEF GroupInv, ReadsInv
<1>1. /\ client.leader = L /\ role[L] = "leader" /\ alive[L] /\ IsQuorum(Q)
      /\ client.op \in {"read", "write"} /\ (client.op = "write" => client.entry.term = currentTerm[L])
  BY DEF InRound, Reigns
<1>2. CASE client.op = "read"
  <2> DEFINE R == {j \in Node : <<client.ctx, j>> \in readAcks[L]}
  <2>1. \A j \in Q : <<client.ctx, j>> \in readAcks[L]
    BY <1>2 DEF Counted
  <2>2. Q \subseteq R /\ R \in SUBSET Node
    BY <2>1
  <2>3. IsQuorum(R)
    <3> HIDE DEF R
    <3> QED BY <1>1, <2>2, QuorumGrows
  <2> QED BY <1>1, <1>2, <2>3 DEF Satisfied, ReadConfirmed
<1>3. CASE client.op = "write"
  <2>1. PICK k \in Nat : k = client.index
    BY <1>3, WriteFields
  <2>2. /\ currentTerm[L] \in Nat /\ commitIndex[L] \in Nat /\ Len(log[L]) \in Nat
        /\ k >= 1 /\ k <= Len(log[L]) /\ log[L][k].term = currentTerm[L]
    <3>1. currentTerm[L] \in Nat /\ commitIndex[L] \in Nat /\ Len(log[L]) \in Nat
      BY LenProperties DEF TypeInv, DurableType, StoreType
    <3> QED BY <1>1, <1>3, <2>1, <3>1 DEF ClientInv
  <2> DEFINE M == {j \in Node : matchIndex[L][j] >= k}
  <2>3. \A j \in Q : matchIndex[L][j] >= k
    BY <1>3, <2>1 DEF Counted
  <2>4. Q \subseteq M /\ M \in SUBSET Node
    BY <2>3
  <2>5. IsQuorum(M)
    <3> HIDE DEF M
    <3> QED BY <1>1, <2>4, QuorumGrows
  <2>6. ~(commitIndex[L] < k)
    <3>1. SUFFICES ASSUME commitIndex[L] < k PROVE FALSE
      OBVIOUS
    <3>2. k \in commitIndex[L]+1..Len(log[L])
      BY <2>2, <3>1
    <3> QED BY <1>1, <2>2, <2>5, <3>2 DEF EagerInv
  <2>7. commitIndex[L] >= client.index
    BY <2>1, <2>2, <2>6
  <2> QED BY <1>1, <1>3, <2>7 DEF Satisfied, WriteCommitted
<1> QED BY <1>1, <1>2, <1>3

\* A round that has spent all its ticks has ended.
LEMMA RoundEnds ==
  ASSUME GroupInv, ReadsInv, ClientInv, ClockInv, NEW Q \in SUBSET Node, NEW L \in Node, NEW K \in Nat,
         InRound(Q, L, K), Tick
  PROVE  left - 1 + 2 * Delay >= Patience
<1> SUFFICES ASSUME ~(left - 1 + 2 * Delay >= Patience) PROVE FALSE
  OBVIOUS
<1> USE DEF GroupInv, ClockInv
<1>1. left \in Nat /\ Delay \in Nat /\ Delay >= 1 /\ Patience \in Nat /\ left + 2 * Delay >= Patience
  BY ClockBounds DEF CallInv, InRound
<1>2. left + 2 * Delay = Patience /\ left + Delay < Patience
  BY <1>1
<1>3. ~Due /\ Len(queue) \in Nat /\ ~Satisfied
  BY LenProperties DEF Tick, Quiescent, TypeInv, QueueType, InRound, Idle
<1>4. \A k \in 1..Len(queue) : wait[k] \in Nat /\ wait[k] >= 1
  <2>1. queue' = queue /\ wait' = [k \in DOMAIN wait |-> wait[k] - 1]
    BY DEF Tick, vars
  <2>2. WaitInv' /\ \A k \in 1..Len(queue) : wait'[k] = wait[k] - 1 /\ wait[k] \in Nat
    BY <1>3, <2>1, TickWaits
  <2>3. \A k \in 1..Len(queue) : wait'[k] \in Nat
    BY <1>1, <2>1, <2>2, ElementOfSeq DEF WaitInv, Ticks
  <2> QED BY <2>2, <2>3
<1>5. ASSUME NEW j \in Q PROVE Counted(j, L)
  <2>1. CASE j = L
    BY <2>1 DEF InRound
  <2>2. CASE j # L
    <3>1. Follower(j, L, K)
      BY <2>2 DEF InRound
    <3>2. ~Asked(j, L, K)
      BY <1>1, <1>2, <1>4 DEF Asked
    <3>3. ~Agreed(j, L)
      BY <1>1, <1>2, <1>4 DEF Agreed
    <3> QED BY <3>1, <3>2, <3>3 DEF Follower
  <2> QED BY <2>1, <2>2
<1> QED BY <1>3, <1>5, CountedSatisfies

\* A round goes on with the call.
LEMMA RoundStep ==
  ASSUME GroupInv, ReadsInv, ClientInv, ClockInv, AnswerTerms, TypeInv', SelfMatch', GoodStep, TrafficStep,
         InCall, client' = client,
         NEW Q \in SUBSET Node, NEW L \in Node, NEW K \in Nat, InRound(Q, L, K)
  PROVE  InRound(Q, L, K)'
<1>1. /\ client.op \in {"read", "write"} /\ client.leader = L /\ Reigns(L)
      /\ (client.op = "write" => client.entry.term = currentTerm[L])
      /\ IsQuorum(Q) /\ K >= 1 /\ TermAt(log[L], K) = currentTerm[L] /\ L \in Q /\ Counted(L, L)
      /\ \A j \in Q \ {L} : Follower(j, L, K)
      /\ left + 2 * Delay >= Patience
  BY DEF InRound
<1>2. client # Idle /\ ContextInv
  BY <1>1 DEF Idle, ReadsInv
<1>3. ReignKept(L)
  BY <1>1, ReignStep
<1>4. currentTerm'[L] = currentTerm[L] /\ log'[L] = log[L] /\ Reigns(L)'
  BY <1>3 DEF ReignKept, LeaderStays
<1>5. Counted(L, L)'
  BY <1>1, <1>3, CountedStays DEF Reigns
<1>6. \A j \in Q \ {L} : Follower(j, L, K)'
  BY <1>1, <1>2, <1>3, FollowerStep
<1>7. left' + 2 * Delay >= Patience
  <2>1. CASE Tick
    <3>1. left' = left - 1
      BY <1>2, <2>1 DEF Tick
    <3> QED BY <2>1, <3>1, RoundEnds
  <2>2. ~Tick => left' = left
    BY DEF InCall, DeliverDue, DiscardDue, Beat, Stand, timedVars, clockVars
  <2> QED BY <1>1, <2>1, <2>2
<1> QED BY <1>1, <1>4, <1>5, <1>6, <1>7 DEF InRound

\* A call whose leader is attended asks all who hear it.
LEMMA RoundOpens ==
  ASSUME GroupInv, ClockInv, OrderInv, NEW L \in Node, Attended(L), alive[L], role[L] = "leader",
         NEW l \in Seq(Entry), log' = [log EXCEPT ![L] = l],
         Len(l) >= Len(log[L]), \A n \in 1..Len(log[L]) : l[n] = log[L][n],
         UNCHANGED <<currentTerm, alive, role, cut>>, Remember(heard), Along(0), left' = Patience,
         NEW c, NEW ctx, Send(AppendsToPeers(L, currentTerm[L], l, nextIndex[L], c, ctx)),
         client'.op \in {"read", "write"}, client'.leader = L,
         client'.op = "write" => client'.entry.term = currentTerm[L],
         Serves(Len(l), ctx)', Counted(L, L)'
  PROVE  \E Q \in SUBSET Node : \E K \in Nat : InRound(Q, L, K)'
<1> USE DEF GroupInv, ClockInv
<1>0. PICK Q \in SUBSET Node : Q = {j \in Node : j = L \/ (heard[j] = L /\ log[j] = log[L])}
  OBVIOUS
<1>1. PICK K \in Nat : K = Len(log[L])
  BY LenProperties DEF TypeInv, DurableType
<1>2. /\ K >= 1 /\ TermAt(log[L], K) = currentTerm[L] /\ DOMAIN log[L] = 1..K
      /\ Len(l) \in Nat /\ DOMAIN l = 1..Len(l) /\ log[L] \in Seq(Entry)
  BY <1>1, LenProperties DEF TypeInv, DurableType, LogInv, Owned, LastTerm
<1>3. TermAt(l, K) = currentTerm[L]
  BY <1>1, <1>2 DEF TermAt
<1>4. log'[L] = l /\ \A j \in Node \ {L} : log'[j] = log[j]
  BY DEF TypeInv, DurableType
<1>5. ASSUME NEW j \in Node, heard[j] = L PROVE heard'[j] = L
  <2>1. Linked(j, L) /\ L # None
    BY <1>5, NearIsLinked, RaftAssumption
  <2>2. StillHeard(heard, j)
    BY <1>5, <2>1 DEF StillHeard, Linked
  <2> QED BY <1>5, <2>2 DEF Remember
<1>6. Reigns(L)'
  <2>1. \A n \in Node : Near(n, L)' \/ ~alive[n] \/ LinksOf(n) \subseteq cut
    BY <1>5 DEF Attended, Near
  <2> QED BY <2>1 DEF Reigns
<1>7. ASSUME NEW j \in Q \ {L} PROVE Follower(j, L, K)'
  <2>1. j \in Node /\ j # L /\ heard[j] = L /\ log[j] = log[L]
    BY <1>0, <1>7
  <2>2. Linked(j, L)
    BY <2>1, NearIsLinked
  <2>3. PICK k \in 1..Len(queue') :
          /\ queue'[k] = AppendMsg(L, j, currentTerm[L], l, nextIndex[L][j], c, ctx)
          /\ wait'[k] = Delay
    <3>1. j \in Node \ {L} /\ <<L, j>> \notin cut
      BY <2>1, <2>2 DEF Linked
    <3> QED BY <3>1, BroadcastSent
  <2>4. PICK next \in Nat : next = nextIndex[L][j] /\ next >= 1 /\ next <= K + 1
    <3>1. nextIndex[L][j] \in Nat /\ nextIndex[L][j] >= 1 /\ currentTerm[L] \in Nat
      BY <2>1 DEF TypeInv, LeaderType, DurableType
    <3>2. nextIndex[L][j] <= K + 1
      BY <1>1, <2>1, <3>1 DEF OrderInv, LeaderOrder
    <3> QED BY <3>1, <3>2
  <2>5. PICK m : m = queue'[k] /\ m = AppendMsg(L, j, currentTerm[L], l, next, c, ctx)
    BY <2>3, <2>4
  <2>5a. /\ Own(m, L) /\ m.dst = j /\ m.term = currentTerm[L]
         /\ m.prevIndex = next - 1 /\ m.prevTerm = TermAt(l, next - 1)
         /\ m.entries = SubSeq(l, next, Len(l)) /\ m.ctx = ctx
    BY <2>5 DEF AppendMsg, Own
  <2>6. m.prevIndex + Len(m.entries) = Len(l)
    <3>1. next \in 1..Len(l) + 1
      BY <1>1, <1>2, <2>4
    <3>2. Len(SubSeq(l, next, Len(l))) = Len(l) - next + 1
      BY <1>2, <3>1, SubSeqProperties
    <3>3. Len(m.entries) = Len(l) - next + 1
      BY <2>5a, <3>2
    <3>4. PICK n : n = Len(l) /\ n \in Nat
      BY <1>2
    <3>5. Len(m.entries) = n - next + 1 /\ m.prevIndex = next - 1
      BY <2>5a, <3>3, <3>4
    <3>6. m.prevIndex + Len(m.entries) = n
      BY <2>4, <3>4, <3>5
    <3> QED BY <3>4, <3>6
  <2>7. Asks(queue[k], j, L, K)'
    <3>1. m.prevIndex <= K /\ m.prevTerm = TermAt(l, m.prevIndex)
      BY <2>4, <2>5a
    <3> QED BY <1>4, <2>5, <2>5a, <2>6, <3>1 DEF Asks, Own, Serves
  <2>8. wait'[k] + Patience <= left' + Delay
    BY <2>3, ClockBounds
  <2>9. Asked(j, L, K)'
    BY <2>7, <2>8 DEF Asked
  <2> QED BY <1>2, <1>4, <1>5, <2>1, <2>9 DEF Follower
<1>8. IsQuorum(Q) /\ L \in Q
  BY <1>0 DEF Attended
<1>9. left' + 2 * Delay >= Patience
  BY ClockBounds
<1>10. currentTerm'[L] = currentTerm[L]
  OBVIOUS
<1>11. InRound(Q, L, K)'
  BY <1>2, <1>3, <1>4, <1>6, <1>7, <1>8, <1>9, <1>10 DEF InRound
<1> QED BY <1>11

\* So a call that begins with an attended leader begins its round.
LEMMA RoundBegins ==
  ASSUME GroupInv, ClockInv, OrderInv, TypeInv', SelfMatch', NEW L \in Node, Write(L) \/ Read(L), promised'
  PROVE  RoundInv'
<1> USE DEF GroupInv, ClockInv
<1>1. /\ Attended(L) /\ Remember(heard) /\ left' = Patience /\ Along(0)
      /\ log[L] \in Seq(Entry) /\ log \in [Node -> Seq(Entry)] /\ currentTerm[L] \in Nat
      /\ Len(log[L]) \in Nat
  BY AddedAlong, LenProperties DEF Write, Read, Begin, TypeInv, DurableType
<1>2. ASSUME NEW k \in Key, NEW v \in Value, ClientWrite(L, k, v)
      PROVE  \E Q \in SUBSET Node : \E K \in Nat : InRound(Q, L, K)'
  <2>1. PICK e \in Entry : e = [term |-> currentTerm[L], key |-> k, value |-> v]
    BY <1>1 DEF Entry
  <2>2. PICK l : l = Append(log[L], e)
    OBVIOUS
  <2>2a. /\ alive[L] /\ role[L] = "leader" /\ log' = [log EXCEPT ![L] = l]
         /\ client' = [op |-> "write", leader |-> L, index |-> Len(l), entry |-> e]
         /\ Send(AppendsToPeers(L, currentTerm[L], l, nextIndex[L], commitIndex[L], 0))
         /\ UNCHANGED <<currentTerm, alive, role, cut>>
    BY <1>2, <2>1, <2>2 DEF ClientWrite, IsCurrentLeader
  <2>3. /\ l \in Seq(Entry) /\ Len(l) = Len(log[L]) + 1
        /\ \A n \in 1..Len(log[L]) : l[n] = log[L][n]
    BY <1>1, <2>1, <2>2, AppendProperties
  <2>4. /\ client'.op = "write" /\ client'.leader = L /\ client'.index = Len(l)
        /\ client'.entry.term = currentTerm[L]
    BY <2>1, <2>2a
  <2>5. Serves(Len(l), 0)'
    BY <1>1, <2>3, <2>4 DEF Serves
  <2>6. Counted(L, L)'
    <3>1. role'[L] = "leader" /\ log'[L] = l
      BY <1>1, <2>2a
    <3>2. matchIndex'[L][L] = Len(l)
      BY <3>1 DEF SelfMatch
    <3> QED BY <1>1, <2>3, <2>4, <3>2 DEF Counted
  <2>7. client'.op \in {"read", "write"} /\ Len(l) >= Len(log[L])
    BY <1>1, <2>3, <2>4
  <2> QED BY <1>1, <2>2a, <2>3, <2>4, <2>5, <2>6, <2>7, RoundOpens
<1>3. ASSUME ReadStart(L)
      PROVE  \E Q \in SUBSET Node : \E K \in Nat : InRound(Q, L, K)'
  <2>0. PICK l, ctx : l = log[L] /\ ctx = nextContext
    OBVIOUS
  <2>1. /\ alive[L] /\ role[L] = "leader" /\ log' = [log EXCEPT ![L] = l]
        /\ client'.op = "read" /\ client'.leader = L /\ client'.ctx = ctx
        /\ Send(AppendsToPeers(L, currentTerm[L], l, nextIndex[L], commitIndex[L], ctx))
        /\ UNCHANGED <<currentTerm, alive, role, cut>>
    BY <1>1, <1>3, <2>0 DEF ReadStart, IsCurrentLeader, durableVars
  <2>2. Serves(Len(l), ctx)'
    BY <2>1 DEF Serves
  <2>3. Counted(L, L)'
    <3>1. readAcks \in [Node -> SUBSET (Nat \X Node)]
      BY DEF TypeInv, LeaderType
    <3>2. readAcks' = [readAcks EXCEPT ![L] = readAcks[L] \cup {<<ctx, L>>}]
      BY <1>3, <2>0 DEF ReadStart
    <3>3. <<ctx, L>> \in readAcks'[L]
      BY <3>1, <3>2
    <3> QED BY <2>1, <3>3 DEF Counted
  <2>4. /\ l \in Seq(Entry) /\ Len(l) >= Len(log[L]) /\ \A n \in 1..Len(log[L]) : l[n] = log[L][n]
        /\ client'.op \in {"read", "write"} /\ client'.op # "write"
    BY <1>1, <2>0, <2>1
  <2> QED BY <1>1, <2>1, <2>2, <2>3, <2>4, RoundOpens
<1>4. \E Q \in SUBSET Node : \E K \in Nat : InRound(Q, L, K)'
  BY <1>2, <1>3 DEF Write, Read, Begin
<1> QED BY <1>4 DEF RoundInv

\* RoundInv is kept by every step.
LEMMA RoundInvStep ==
  ASSUME GroupInv, GroupInv', ReadsInv, ClientInv, ClockInv, AnswerTerms, GoodStep, TrafficStep,
         promised => client # Idle, RoundInv, [ClockNext]_timedVars
  PROVE  RoundInv'
<1>1. SUFFICES ASSUME promised' PROVE RoundInv'
  BY DEF RoundInv
<1>2. TypeInv' /\ SelfMatch' /\ OrderInv
  BY DEF GroupInv, CommitsInv, AckSide, ReadsInv
<1>3. CASE \E n \in Node : Write(n) \/ Read(n)
  BY <1>1, <1>2, <1>3, RoundBegins
<1>4. CASE client # Idle
  <2>1. InCall /\ promised /\ client' = client
    BY <1>1, <1>4, CallGoesOn
  <2>2. PICK Q \in SUBSET Node, L \in Node, K \in Nat : InRound(Q, L, K)
    BY <2>1 DEF RoundInv
  <2>3. InRound(Q, L, K)'
    BY <1>2, <2>1, <2>2, RoundStep
  <2> QED BY <2>3 DEF RoundInv
<1>5. CASE ~promised /\ ~\E n \in Node : Write(n) \/ Read(n)
  <2>1. UNCHANGED promised \/ promised' = FALSE
    BY <1>5 DEF ClockNext, Running, DeliverDue, DiscardDue, Tick, Returns, Beat, Stand, CrashNow,
       RestartNow, IsolateNow, HealNow, Fault, timedVars, historyVars
  <2> QED BY <1>1, <1>5, <2>1
<1> QED BY <1>3, <1>4, <1>5

\* A round is a call's.
LEMMA RoundIsCall == RoundInv => (promised => client # Idle)
BY DEF RoundInv, InRound, Idle

\* RoundInv holds in every state of the group with its clock.
LEMMA RoundInvariant == ClockSpec => [](AnswerTerms /\ RoundInv)
<1>1. ClockInit => AnswerTerms /\ RoundInv
  BY DEF ClockInit, Init, AnswerTerms, RoundInv
<1>2. /\ GroupInv /\ GroupInv' /\ ReadsInv /\ ClientInv /\ ClockInv /\ AnswerTerms /\ RoundInv
      /\ [ClockNext]_timedVars
      => AnswerTerms' /\ RoundInv'
  <2> SUFFICES ASSUME GroupInv, GroupInv', ReadsInv, ClientInv, ClockInv, AnswerTerms, RoundInv,
                      [ClockNext]_timedVars
               PROVE  AnswerTerms' /\ RoundInv'
    OBVIOUS
  <2>1. [Next]_vars /\ TypeInv /\ TypeInv'
    BY ClockStepIsRaft DEF GroupInv
  <2>2. GoodStep /\ TrafficStep
    BY <2>1, CommitSteps, NextTraffic DEF GroupInv, CommitStep
  <2>3. AnswerTerms'
    BY <2>1, <2>2, AnswerTermsStep
  <2>4. RoundInv'
    BY <2>2, RoundInvStep, RoundIsCall
  <2> QED BY <2>3, <2>4
<1> QED BY <1>1, <1>2, ClockInvariant, ReadsInvariant, ClientInvariant, ClockImplementsRaft, PTL
        DEF ClockSpec

\* A call to an attended leader needs one round trip, for every delay,
\* interval, range of timeouts and number of nodes: its quorum is asked, agrees
\* and is counted, each within the delay, and the look that follows ends it.
THEOREM CallsAnsweredHolds == ClockSpec => []CallsAnswered
<1>1. RoundInv /\ ClockInv => CallsAnswered
  <2> SUFFICES ASSUME RoundInv, ClockInv, promised PROVE left >= Patience - 2 * Delay
    BY DEF CallsAnswered
  <2>1. left + 2 * Delay >= Patience
    BY DEF RoundInv, InRound
  <2>2. left \in Nat /\ Delay \in Nat /\ Patience \in Nat
    BY ClockBounds DEF ClockInv, CallInv
  <2> QED BY <2>1, <2>2
<1> QED BY <1>1, RoundInvariant, ClockInvariant, PTL

----------------------------------------------------------------------------
(* Elections end.  An election that begins alone is followed message by      *)
(* message, each with the ticks it has taken, until its candidate leads and  *)
(* every other node hears it.                                                *)

\* A message of i in its term, or one that answers it.
Dealing(m, i) ==
  /\ m.term = currentTerm[i]
  /\ m.type \in {"RequestVote", "Append"} => m.src = i
  /\ m.type \in {"VoteResponse", "AppendResponse"} => m.dst = i

\* Nothing else is in flight; nobody else leads, nobody is down, no link is cut.
Sole(i) ==
  /\ cut = {} /\ \A j \in Node : alive[j] /\ (j # i => role[j] # "leader")
  /\ \A k \in 1..Len(queue) : Dealing(queue[k], i)

\* e ticks after i stood, requests and votes are due on time.
Punctual(e) ==
  \A k \in 1..Len(queue) :
    /\ queue[k].type = "RequestVote" => wait[k] + e = Delay
    /\ queue[k].type = "VoteResponse" => wait[k] + e = 2 * Delay
    /\ queue[k].type \in {"RequestVote", "VoteResponse"}

\* Candidate i's request reaches j before j's own deadline, and j will grant it.
Wooed(j, i) ==
  /\ currentTerm[j] < currentTerm[i]
  /\ UpToDate(RequestVoteMsg(i, j, currentTerm[i], log[i]), log[j])
  /\ \E k \in 1..Len(queue) :
       queue[k].type = "RequestVote" /\ queue[k].dst = j /\ wait[k] <= timer[j]

\* j's granted vote is counted by i, or on its way.
Pledged(j, i) ==
  \/ j \in votes[i]
  \/ \E k \in 1..Len(queue) :
       queue[k].type = "VoteResponse" /\ queue[k].src = j /\ queue[k].granted

\* j has voted for i and will wait until i's first heartbeat has come.
Won(j, i, e) ==
  /\ currentTerm[j] = currentTerm[i] /\ role[j] = "follower"
  /\ timer[j] + e > 3 * Delay + HeartbeatInterval
  /\ Pledged(j, i)

\* i stood e ticks ago and is still counting.
Campaign(i, e) ==
  /\ role[i] = "candidate" /\ i \in votes[i] /\ ~IsQuorum(votes[i])
  /\ timer[i] + e > 2 * Delay + HeartbeatInterval
  /\ Punctual(e)
  /\ \A j \in Node \ {i} : Wooed(j, i) \/ Won(j, i, e)

\* i leads, and every other node has heard it or will before its deadline.
Rules(i) ==
  /\ role[i] = "leader"
  /\ \A k \in 1..Len(queue) : queue[k].type # "RequestVote"
  /\ \A j \in Node \ {i} :
       /\ currentTerm[j] = currentTerm[i] /\ role[j] = "follower"
       /\ heard[j] = i \/ Coming(j, i)

\* An election that began alone goes on or has its leader.
Underway(i) == Sole(i) /\ (Rules(i) \/ \E e \in 0..2 * Delay : Campaign(i, e))

SoloInv == solo => \E i \in Node : Underway(i)

\* What is in the queue after a step: what was, moved up, and what is sent.
Joins(d, out) ==
  \A k \in 1..Len(queue') :
    \/ k + d \in 1..Len(queue) /\ queue'[k] = queue[k + d] /\ wait'[k] = wait[k + d]
    \/ queue'[k] \in out /\ wait'[k] = Delay

\* A message that is not taken keeps its due tick.
LEMMA MovesUp ==
  ASSUME NEW d \in {0, 1}, Along(d), NEW k \in 1..Len(queue), k > d
  PROVE  k - d \in 1..Len(queue') /\ queue'[k - d] = queue[k] /\ wait'[k - d] = wait[k]
<1>1. /\ d \in Nat /\ Len(queue) \in Nat /\ Len(queue') \in Nat /\ Len(queue') >= Len(queue) - d
      /\ \A j \in 1..Len(queue) - d : queue'[j] = queue[j + d] /\ wait'[j] = wait[j + d]
  BY DEF Along, Moved
<1>2. k - d \in 1..Len(queue) - d /\ k - d \in 1..Len(queue') /\ k - d + d = k
  BY <1>1
<1> QED BY <1>1, <1>2

\* Messages that are sent join the queue.
LEMMA SendJoins ==
  ASSUME TypeInv, NEW out, IsFiniteSet(out), Send(out), Along(0)
  PROVE  Joins(0, out)
<1> DEFINE S == SoundMessage \cup out
<1>1. queue \in Seq(S) /\ out \in SUBSET S
  <2>1. queue \in Seq(SoundMessage) /\ SoundMessage \subseteq S
    BY DEF TypeInv, QueueType
  <2> QED BY <2>1, SeqMonotonic
<1> HIDE DEF S
<1>2. /\ Len(queue) \in Nat /\ Len(queue') \in Nat
      /\ \A k \in 1..Len(queue') : k > Len(queue) => queue'[k] \in out
  BY <1>1, EnqueuedOrder DEF Send
<1>3. SUFFICES ASSUME NEW k \in 1..Len(queue')
               PROVE  \/ k + 0 \in 1..Len(queue) /\ queue'[k] = queue[k + 0] /\ wait'[k] = wait[k + 0]
                      \/ queue'[k] \in out /\ wait'[k] = Delay
  BY DEF Joins
<1>4. CASE k > Len(queue)
  BY <1>2, <1>4 DEF Along
<1>5. CASE ~(k > Len(queue))
  <2>1. k \in 1..Len(queue) - 0 /\ k + 0 \in 1..Len(queue)
    BY <1>2, <1>5
  <2> QED BY <2>1 DEF Along, Moved
<1> QED BY <1>4, <1>5

\* So do those that are sent in answer.
LEMMA ReplyJoins ==
  ASSUME TypeInv, queue # <<>>, NEW out, IsFiniteSet(out), Reply(out), Along(1)
  PROVE  Joins(1, out)
<1> DEFINE S == SoundMessage \cup out
<1>1. queue \in Seq(S) /\ out \in SUBSET S
  <2>1. queue \in Seq(SoundMessage) /\ SoundMessage \subseteq S
    BY DEF TypeInv, QueueType
  <2> QED BY <2>1, SeqMonotonic
<1> HIDE DEF S
<1>2. PICK q \in Seq(S) : q = Tail(queue)
  BY <1>1, TailShifts
<1>3. Len(queue) \in Nat /\ Len(q) = Len(queue) - 1
  BY <1>1, <1>2, TailShifts
<1>4. queue' \in Enqueued(q, out, cut)
  BY <1>2 DEF Reply
<1>5. Len(queue') \in Nat /\ \A k \in 1..Len(queue') : k > Len(q) => queue'[k] \in out
  BY <1>1, <1>4, EnqueuedOrder
<1>6. SUFFICES ASSUME NEW k \in 1..Len(queue')
               PROVE  \/ k + 1 \in 1..Len(queue) /\ queue'[k] = queue[k + 1] /\ wait'[k] = wait[k + 1]
                      \/ queue'[k] \in out /\ wait'[k] = Delay
  BY DEF Joins
<1>7. CASE k > Len(queue) - 1
  BY <1>3, <1>5, <1>7 DEF Along
<1>8. CASE ~(k > Len(queue) - 1)
  <2>1. k \in 1..Len(queue) - 1 /\ k + 1 \in 1..Len(queue)
    BY <1>3, <1>8
  <2> QED BY <2>1 DEF Along, Moved
<1> QED BY <1>7, <1>8

\* Nothing joins when nothing is answered.
LEMMA NoReplyJoins ==
  ASSUME TypeInv, queue # <<>>, NoReply, Along(1)
  PROVE  Joins(1, {})
<1>1. queue \in Seq(SoundMessage)
  BY DEF TypeInv, QueueType
<1>2. Len(queue) \in Nat /\ Len(queue') = Len(queue) - 1
  BY <1>1, TailShifts DEF NoReply
<1>3. SUFFICES ASSUME NEW k \in 1..Len(queue')
               PROVE  k + 1 \in 1..Len(queue) /\ queue'[k] = queue[k + 1] /\ wait'[k] = wait[k + 1]
  BY DEF Joins
<1>4. k \in 1..Len(queue) - 1 /\ k + 1 \in 1..Len(queue)
  BY <1>2
<1> QED BY <1>4 DEF Along, Moved

\* The head is due now.
LEMMA DueNow ==
  ASSUME TypeInv, WaitInv, Due
  PROVE  wait[1] = 0 /\ queue # <<>> /\ 1 \in 1..Len(queue) /\ Len(queue) \in Nat
<1>1. queue \in Seq(SoundMessage) /\ queue # <<>> /\ wait \in Seq(Ticks) /\ Len(wait) = Len(queue)
  BY DEF TypeInv, QueueType, WaitInv, Due
<1>2. Len(queue) \in Nat /\ Len(queue) >= 1
  BY <1>1, TailShifts
<1>3. wait # <<>>
  BY <1>1, <1>2, EmptySeq
<1>4. wait[1] = Head(wait)
  BY <1>1, <1>3, TailShifts
<1> QED BY <1>1, <1>2, <1>4 DEF Due

\* While i deals alone, only its own messages join the queue.
LEMMA SoleStep ==
  ASSUME NEW i \in Node, Sole(i), NEW d \in {0, 1}, NEW out, Joins(d, out),
         UNCHANGED <<alive, cut>>, currentTerm'[i] = currentTerm[i],
         \A j \in Node \ {i} : role'[j] # "leader", \A m \in out : Dealing(m, i)
  PROVE  Sole(i)'
<1>1. ASSUME NEW k \in 1..Len(queue') PROVE Dealing(queue'[k], i)
  BY <1>1 DEF Joins, Sole
<1>2. \A k \in 1..Len(queue') : Dealing(queue[k], i)'
  BY <1>1 DEF Dealing
<1> QED BY <1>2 DEF Sole

\* What is in flight can be delivered.
LEMMA SoleDelivers ==
  ASSUME TypeInv, NEW i \in Node, Sole(i)
  PROVE  ~DiscardDue
<1> SUFFICES ASSUME DiscardDue PROVE FALSE
  OBVIOUS
<1>1. queue # <<>> /\ ~Deliverable(Head(queue)) /\ queue \in Seq(SoundMessage)
  BY DEF DiscardDue, Discard, TypeInv, QueueType
<1>2. Head(queue) \in SoundMessage
  BY <1>1, TailProperties
<1>3. Head(queue).src \in Node /\ Head(queue).dst \in Node
  BY <1>2 DEF SoundMessage, Message
<1> QED BY <1>1, <1>3 DEF Deliverable, Sole

\* Neither the candidate nor those it woos or has won let their deadlines pass;
\* nor do those that its heartbeats reach.
LEMMA SoloStands ==
  ASSUME GroupInv, ClockInv, NEW i \in Node, Sole(i),
         Rules(i) \/ \E e \in 0..2 * Delay : Campaign(i, e), NEW n \in Node
  PROVE  ~Stand(n)
<1> SUFFICES ASSUME Stand(n) PROVE FALSE
  OBVIOUS
<1>1. ~Due /\ timer[n] = 0 /\ role[n] # "leader"
  BY DEF Stand, GoesOff, Expired, Timeout
<1>2. TypeInv /\ WaitInv /\ TimerInv /\ HeardInv /\ Len(queue) \in Nat
  BY LenProperties DEF GroupInv, ClockInv, TypeInv, QueueType
<1>3. ASSUME NEW k \in 1..Len(queue), wait[k] <= timer[n] PROVE FALSE
  <2>1. wait[k] <= 0
    BY <1>1, <1>3
  <2> QED BY <1>1, <1>2, <2>1, LateIsDue
<1>4. CASE Rules(i)
  <2>1. n # i /\ (heard[n] = i \/ Coming(n, i))
    BY <1>1, <1>4 DEF Rules
  <2>2. heard[n] # i
    BY <1>2, HeardDoesNotStand
  <2> QED BY <1>3, <2>1, <2>2 DEF Coming
<1>5. ASSUME NEW e \in 0..2 * Delay, Campaign(i, e) PROVE FALSE
  <2>1. Delay \in Nat /\ HeartbeatInterval \in Nat /\ e \in Nat /\ e <= 2 * Delay
    BY ClockBounds
  <2>2. n # i
    BY <1>1, <1>5, <2>1 DEF Campaign
  <2>3. ~Won(n, i, e)
    BY <1>1, <2>1 DEF Won
  <2>4. Wooed(n, i)
    BY <1>5, <2>2, <2>3 DEF Campaign
  <2> QED BY <1>3, <2>4 DEF Wooed
<1> QED BY <1>4, <1>5

\* What is coming to a node that nothing else happens to.
LEMMA WooedStays ==
  ASSUME NEW d \in {0, 1}, Along(d), NEW i \in Node, NEW j \in Node, Wooed(j, i),
         d = 1 => queue[1].dst # j \/ queue[1].type # "RequestVote",
         timer'[j] = timer[j], UNCHANGED log,
         currentTerm'[j] = currentTerm[j], currentTerm'[i] = currentTerm[i]
  PROVE  Wooed(j, i)'
<1>1. PICK k \in 1..Len(queue) :
        queue[k].type = "RequestVote" /\ queue[k].dst = j /\ wait[k] <= timer[j]
  BY DEF Wooed
<1>2. k > d
  BY <1>1
<1>3. k - d \in 1..Len(queue') /\ queue'[k - d] = queue[k] /\ wait'[k - d] = wait[k]
  BY <1>2, MovesUp
<1>4. \E h \in 1..Len(queue') :
        queue'[h].type = "RequestVote" /\ queue'[h].dst = j /\ wait'[h] <= timer'[j]
  BY <1>1, <1>3
<1>5. UpToDate(RequestVoteMsg(i, j, currentTerm'[i], log'[i]), log'[j]) /\ currentTerm'[j] < currentTerm'[i]
  BY DEF Wooed
<1> QED BY <1>4, <1>5 DEF Wooed

\* A vote that is not taken stays on its way, and one that is counted counts.
LEMMA PledgedStays ==
  ASSUME NEW d \in {0, 1}, Along(d), NEW i \in Node, NEW j \in Node, Pledged(j, i),
         votes[i] \subseteq votes'[i],
         d = 1 /\ queue[1].type = "VoteResponse" /\ queue[1].granted => queue[1].src \in votes'[i]
  PROVE  Pledged(j, i)'
<1>1. CASE j \in votes[i]
  BY <1>1 DEF Pledged
<1>2. CASE j \notin votes[i]
  <2>1. PICK k \in 1..Len(queue) :
          queue[k].type = "VoteResponse" /\ queue[k].src = j /\ queue[k].granted
    BY <1>2 DEF Pledged
  <2>2. CASE k > d
    <3>1. k - d \in 1..Len(queue') /\ queue'[k - d] = queue[k]
      BY <2>2, MovesUp
    <3> QED BY <2>1, <3>1 DEF Pledged
  <2>3. CASE ~(k > d)
    <3>1. k = 1 /\ d = 1
      BY <2>3
    <3> QED BY <2>1, <3>1 DEF Pledged
  <2> QED BY <2>2, <2>3
<1> QED BY <1>1, <1>2

\* Requests and votes stay on time while those that join are sent on time.
LEMMA PunctualStep ==
  ASSUME NEW e \in Nat, Punctual(e), NEW d \in {0, 1}, NEW out, Joins(d, out),
         \A m \in out : \/ m.type = "RequestVote" /\ e = 0
                        \/ m.type = "VoteResponse" /\ e = Delay
  PROVE  Punctual(e)'
<1>1. SUFFICES ASSUME NEW k \in 1..Len(queue')
               PROVE  /\ queue'[k].type = "RequestVote" => wait'[k] + e = Delay
                      /\ queue'[k].type = "VoteResponse" => wait'[k] + e = 2 * Delay
                      /\ queue'[k].type \in {"RequestVote", "VoteResponse"}
  BY DEF Punctual
<1>2. CASE k + d \in 1..Len(queue) /\ queue'[k] = queue[k + d] /\ wait'[k] = wait[k + d]
  BY <1>2 DEF Punctual
<1>3. CASE queue'[k] \in out /\ wait'[k] = Delay
  BY <1>3, ClockBounds
<1> QED BY <1>2, <1>3 DEF Joins

\* Who has heard the leader that all are linked to is remembered.
LEMMA SoleRemembers ==
  ASSUME NEW i \in Node, NEW j \in Node, NEW h, Remember(h), h[j] = i, Sole(i)', role'[i] = "leader",
         currentTerm'[j] = currentTerm'[i]
  PROVE  heard'[j] = i
<1>1. i # None
  BY RaftAssumption
<1>2. StillHeard(h, j)
  BY <1>1 DEF StillHeard, Sole
<1> QED BY <1>2 DEF Remember

\* A request is answered with the vote of a node that has not voted in the
\* term, and its new deadline is behind the first heartbeat.
LEMMA RequestDelivered ==
  ASSUME GroupInv, ClockInv, NEW i \in Node, Sole(i), NEW e \in 0..2 * Delay, Campaign(i, e),
         DeliverDue, NEW m, m = Head(queue), m.type = "RequestVote"
  PROVE  Sole(i)' /\ Campaign(i, e)'
<1>0. /\ TypeInv /\ WaitInv /\ TimerInv /\ PeersInv /\ RequestInv /\ Along(1)
      /\ currentTerm \in [Node -> Nat] /\ role \in [Node -> {"follower", "candidate", "leader"}]
      /\ votes \in [Node -> SUBSET Node] /\ timer \in [Node -> 0..ElectionHigh]
  BY TakenAlong DEF GroupInv, LogInv, CommitsInv, AckSide, ClockInv, TypeInv, DurableType, LeaderType,
     TimerInv
<1>1. /\ m = queue[1] /\ 1 \in 1..Len(queue) /\ queue # <<>> /\ m \in InFlight(queue)
      /\ m.src \in Node /\ m.dst \in Node /\ m.src # m.dst
  BY <1>0, Handled DEF DeliverDue, PeersInv
<1>2. m.src = i /\ m.term = currentTerm[i]
  BY <1>1 DEF Sole, Dealing
<1>3. PICK j \in Node \ {i} : j = m.dst
  BY <1>1, <1>2
<1>4. e = Delay
  <2>1. wait[1] = 0
    BY <1>0, DueNow DEF DeliverDue
  <2>2. wait[1] + e = Delay
    BY <1>1 DEF Campaign, Punctual
  <2> QED BY <2>1, <2>2
<1>5. HandleRequestVote(j, m) /\ UNCHANGED <<alive, cut>>
  BY <1>3 DEF DeliverDue, Deliver
<1>6. Wooed(j, i) \/ Won(j, i, e)
  BY DEF Campaign
<1>7. PICK T \in Nat : T = currentTerm[i]
  BY <1>0
<1>8. Larger(m.term, currentTerm[j]) = T /\ currentTerm[j] \in Nat /\ currentTerm[j] <= T
  BY <1>0, <1>2, <1>6, <1>7 DEF Larger, Wooed, Won
<1>9. /\ currentTerm' = [currentTerm EXCEPT ![j] = T] /\ log' = log
      /\ role' = [role EXCEPT ![j] = "follower"] /\ votes'[i] = votes[i]
  <2>1. currentTerm' = [currentTerm EXCEPT ![j] = T] /\ log' = log
    BY <1>5, <1>8 DEF HandleRequestVote
  <2>2. CASE Wooed(j, i)
    <3>1. m.term > currentTerm[j]
      BY <1>2, <1>7, <1>8, <2>2 DEF Wooed
    <3>2. LoseRole(j)
      BY <1>5, <3>1 DEF HandleRequestVote
    <3> QED BY <1>0, <2>1, <3>2 DEF LoseRole
  <2>3. CASE Won(j, i, e)
    <3>1. ~(m.term > currentTerm[j]) /\ role[j] = "follower"
      BY <1>2, <1>7, <1>8, <2>3 DEF Won
    <3>2. UNCHANGED leaderVars
      BY <1>5, <3>1 DEF HandleRequestVote
    <3> QED BY <1>0, <2>1, <3>1, <3>2 DEF leaderVars
  <2> QED BY <1>6, <2>2, <2>3
<1>10. /\ \A n \in Node \ {j} : currentTerm'[n] = currentTerm[n] /\ role'[n] = role[n]
       /\ currentTerm'[j] = T /\ role'[j] = "follower" /\ currentTerm'[i] = T
  BY <1>0, <1>7, <1>9
<1>11. PICK r : /\ Reply({r}) /\ r.type = "VoteResponse" /\ r.src = j /\ r.dst = i /\ r.term = T
                /\ Wooed(j, i) => r.granted
  <2>1. PICK voted, r : /\ Reply({r}) /\ r = VoteResponseMsg(j, i, T, Grants(j, m, voted))
                        /\ m.term > currentTerm[j] => voted = None
    BY <1>2, <1>5, <1>8 DEF HandleRequestVote
  <2>2. ASSUME Wooed(j, i) PROVE Grants(j, m, voted)
    <3>1. m.term > currentTerm[j]
      BY <1>2, <1>7, <1>8, <2>2 DEF Wooed
    <3>2. m.lastIndex = Len(log[i]) /\ m.lastTerm = LastTerm(log[i])
      BY <1>0, <1>1, <1>2 DEF RequestInv, Campaign
    <3>3. UpToDate(m, log[j])
      BY <2>2, <3>2 DEF Wooed, UpToDate, RequestVoteMsg
    <3> QED BY <1>2, <1>7, <1>8, <2>1, <3>1, <3>3 DEF Grants
  <2>3. r.type = "VoteResponse" /\ r.src = j /\ r.dst = i /\ r.term = T /\ r.granted = Grants(j, m, voted)
    BY <2>1 DEF VoteResponseMsg
  <2> QED BY <2>1, <2>2, <2>3
<1>12. Joins(1, {r}) /\ Dealing(r, i)
  <2>1. Joins(1, {r})
    BY <1>0, <1>1, <1>11, FS_Singleton, ReplyJoins
  <2> QED BY <1>7, <1>11, <2>1 DEF Dealing
<1>13. Sole(i)'
  <2>1. \A n \in Node \ {i} : role'[n] # "leader"
    BY <1>10 DEF Sole
  <2>2. \A a \in {r} : Dealing(a, i)
    BY <1>12
  <2> QED BY <1>5, <1>7, <1>10, <1>12, <2>1, <2>2, SoleStep
<1>14. Punctual(e)'
  <2>1. \A a \in {r} : \/ a.type = "RequestVote" /\ e = 0
                       \/ a.type = "VoteResponse" /\ e = Delay
    BY <1>4, <1>11
  <2>2. e \in Nat /\ Punctual(e)
    BY <1>4, ClockBounds DEF Campaign
  <2> QED BY <1>12, <2>1, <2>2, PunctualStep
<1>15. /\ \A n \in Node \ {j} : timer'[n] = timer[n]
       /\ timer'[j] = timer[j] \/ timer'[j] \in Timeouts
       /\ Wooed(j, i) => timer'[j] \in Timeouts
  <2>1. ~TakesOffice(j)
    BY <1>10 DEF TakesOffice
  <2>2. \/ Resets(j, m) /\ Redraw(j)
        \/ ~Resets(j, m) /\ UNCHANGED timer
    BY <1>3, <2>1 DEF DeliverDue
  <2>3. Wooed(j, i) => Resets(j, m)
    BY <1>2, <1>7, <1>8 DEF Wooed, Resets
  <2> QED BY <1>0, <2>2, <2>3, Drawn
<1>16. ASSUME NEW n \in Node, Pledged(n, i) PROVE Pledged(n, i)'
  BY <1>0, <1>1, <1>9, <1>16, PledgedStays
<1>17. ASSUME NEW n \in Node \ {i} PROVE Wooed(n, i)' \/ Won(n, i, e)'
  <2>1. CASE n # j /\ Wooed(n, i)
    <3>1. queue[1].dst # n
      BY <1>1, <1>3, <2>1
    <3> QED BY <1>0, <1>7, <1>9, <1>10, <1>15, <2>1, <3>1, WooedStays
  <2>2. CASE n # j /\ Won(n, i, e)
    BY <1>7, <1>10, <1>15, <1>16, <2>2 DEF Won
  <2>3. CASE n = j /\ Wooed(j, i)
    <3>1. Pledged(j, i)'
      <4>1. <<r.src, r.dst>> \notin cut /\ r.dst \in Node
        BY <1>11 DEF Sole
      <4>2. PICK k \in 1..Len(queue') : queue'[k] = r
        BY <1>0, <1>1, <1>11, <4>1, ReplySent
      <4> QED BY <1>11, <2>3, <4>2 DEF Pledged
    <3>2. timer'[j] + e > 3 * Delay + HeartbeatInterval
      BY <1>4, <1>15, <2>3, ClockBounds
    <3> QED BY <1>10, <2>3, <3>1, <3>2 DEF Won
  <2>4. CASE n = j /\ Won(j, i, e)
    <3>1. timer'[j] + e > 3 * Delay + HeartbeatInterval
      BY <1>4, <1>15, <2>4, ClockBounds DEF Won
    <3>2. Pledged(j, i)'
      BY <1>16, <2>4 DEF Won
    <3> QED BY <1>10, <2>4, <3>1, <3>2 DEF Won
  <2> QED BY <2>1, <2>2, <2>3, <2>4 DEF Campaign
<1>18. role'[i] = "candidate" /\ i \in votes'[i] /\ ~IsQuorum(votes'[i])
       /\ timer'[i] + e > 2 * Delay + HeartbeatInterval
  BY <1>9, <1>10, <1>15 DEF Campaign
<1> QED BY <1>13, <1>14, <1>17, <1>18 DEF Campaign

\* The votes are in: a quorum of them gives the office, with heartbeats that
\* reach the voters before their deadlines.
LEMMA OfficeTaken ==
  ASSUME GroupInv, ClockInv, NEW i \in Node, Sole(i), NEW e \in Nat, e = 2 * Delay, Campaign(i, e),
         Along(1), queue # <<>>, UNCHANGED <<alive, cut, currentTerm>>, BecomeLeader(i),
         \A n \in Node \ {i} : timer'[n] = timer[n]
  PROVE  Sole(i)' /\ Rules(i)'
<1>0. /\ TypeInv /\ WaitInv /\ Len(queue) \in Nat
      /\ currentTerm \in [Node -> Nat] /\ role \in [Node -> {"follower", "candidate", "leader"}]
      /\ timer \in [Node -> 0..ElectionHigh] /\ DOMAIN wait = 1..Len(queue)
  BY LenProperties DEF GroupInv, ClockInv, TypeInv, DurableType, LeaderType, QueueType, TimerInv, WaitInv
<1>1. \A k \in 1..Len(queue) : queue[k].type # "RequestVote"
  <2> SUFFICES ASSUME NEW k \in 1..Len(queue), queue[k].type = "RequestVote" PROVE FALSE
    OBVIOUS
  <2>1. wait[k] + e = Delay
    BY DEF Campaign, Punctual
  <2>2. wait[k] \in 0..Delay
    BY <1>0, ElementOfSeq DEF WaitInv, Ticks
  <2> QED BY <2>1, <2>2, ClockBounds
<1>2. ASSUME NEW n \in Node \ {i}
      PROVE  currentTerm[n] = currentTerm[i] /\ role[n] = "follower" /\ timer[n] >= Delay
  <2>1. Won(n, i, e)
    BY <1>1 DEF Campaign, Wooed
  <2>2. timer[n] \in Nat
    BY <1>0, ClockBounds
  <2> QED BY <2>1, <2>2, ClockBounds DEF Won
<1>3. role' = [role EXCEPT ![i] = "leader"]
  BY DEF BecomeLeader
<1>4. PICK l, next, c, out : out = AppendsToPeers(i, currentTerm[i], l, next, c, 0) /\ Reply(out)
  BY DEF BecomeLeader
<1>5. IsFiniteSet(out)
  BY <1>4, BroadcastFinite
<1>6. \A m \in out : /\ m.type = "Append" /\ m.src = i /\ m.term = currentTerm[i] /\ m.dst \in Node
                     /\ Dealing(m, i)
  BY <1>4 DEF AppendsToPeers, AppendMsg, Dealing
<1>7. Joins(1, out)
  BY <1>0, <1>4, <1>5, ReplyJoins
<1>8. Sole(i)'
  <2>1. \A n \in Node \ {i} : role'[n] # "leader"
    BY <1>0, <1>2, <1>3
  <2> QED BY <1>6, <1>7, <2>1, SoleStep
<1>9. \A k \in 1..Len(queue') : queue'[k].type # "RequestVote"
  BY <1>1, <1>6, <1>7 DEF Joins
<1>10. ASSUME NEW n \in Node \ {i} PROVE Coming(n, i)'
  <2>1. PICK m \in out : m.dst = n
    <3>1. AppendMsg(i, n, currentTerm[i], l, next[n], c, 0) \in out
      BY <1>4 DEF AppendsToPeers
    <3> QED BY <3>1 DEF AppendMsg
  <2>2. PICK k \in 1..Len(queue') : queue'[k] = m /\ wait'[k] = Delay
    <3>1. <<m.src, m.dst>> \notin cut
      BY DEF Sole
    <3>2. \A d \in out : d.dst \in Node
      BY <1>6
    <3> QED BY <1>0, <1>4, <1>5, <3>1, <3>2, RepliesSent
  <2>3. Calls(queue[k], n, i)'
    BY <1>2, <1>6, <2>1, <2>2 DEF Calls
  <2>4. wait'[k] <= timer'[n]
    BY <1>2, <2>2
  <2> QED BY <2>3, <2>4 DEF Coming
<1>11. role'[i] = "leader"
       /\ \A n \in Node \ {i} : currentTerm'[n] = currentTerm'[i] /\ role'[n] = "follower"
  BY <1>0, <1>2, <1>3
<1> QED BY <1>8, <1>9, <1>10, <1>11 DEF Rules

\* A vote is counted, and with a quorum the candidate leads.
LEMMA VoteDelivered ==
  ASSUME GroupInv, ClockInv, NEW i \in Node, Sole(i), NEW e \in 0..2 * Delay, Campaign(i, e),
         DeliverDue, NEW m, m = Head(queue), m.type = "VoteResponse"
  PROVE  Sole(i)' /\ (Rules(i)' \/ Campaign(i, e)')
<1>0. /\ TypeInv /\ WaitInv /\ TimerInv /\ Along(1)
      /\ currentTerm \in [Node -> Nat] /\ role \in [Node -> {"follower", "candidate", "leader"}]
      /\ votes \in [Node -> SUBSET Node] /\ timer \in [Node -> 0..ElectionHigh]
      /\ role[i] = "candidate"
  BY TakenAlong DEF GroupInv, ClockInv, TypeInv, DurableType, LeaderType, TimerInv, Campaign
<1>0a. e \in Nat
  BY ClockBounds
<1>1. m = queue[1] /\ 1 \in 1..Len(queue) /\ queue # <<>>
  BY <1>0, Handled DEF DeliverDue
<1>2. m.dst = i /\ m.term = currentTerm[i]
  BY <1>1 DEF Sole, Dealing
<1>3. e = 2 * Delay
  <2>1. wait[1] = 0
    BY <1>0, DueNow DEF DeliverDue
  <2>2. wait[1] + e = 2 * Delay
    BY <1>1 DEF Campaign, Punctual
  <2> QED BY <2>1, <2>2
<1>4. HandleVoteResponse(i, m) /\ UNCHANGED <<alive, cut>>
  BY <1>2 DEF DeliverDue, Deliver
<1>5. ~Resets(i, m) /\ ~(m.term > currentTerm[i]) /\ ~(m.term < currentTerm[i])
  BY <1>0, <1>2 DEF Resets
<1>6. \/ TakesOffice(i) /\ timer' = [timer EXCEPT ![i] = HeartbeatInterval]
      \/ ~TakesOffice(i) /\ UNCHANGED timer
  BY <1>2, <1>5 DEF DeliverDue
<1>7. CASE m.granted /\ IsQuorum(votes[i] \cup {m.src})
  <2>1. BecomeLeader(i) /\ UNCHANGED currentTerm
    BY <1>0, <1>4, <1>5, <1>7 DEF HandleVoteResponse
  <2>2. \A n \in Node \ {i} : timer'[n] = timer[n]
    BY <1>0, <1>6
  <2> QED BY <1>0, <1>1, <1>0a, <1>3, <1>4, <2>1, <2>2, OfficeTaken
<1>8. CASE ~(m.granted /\ IsQuorum(votes[i] \cup {m.src}))
  <2>1. /\ UNCHANGED <<currentTerm, log, role>> /\ NoReply
        /\ votes' = IF m.granted THEN [votes EXCEPT ![i] = @ \cup {m.src}] ELSE votes
    BY <1>0, <1>2, <1>4, <1>5, <1>8 DEF HandleVoteResponse, durableVars, leaderVars
  <2>2. /\ votes[i] \subseteq votes'[i] /\ (m.granted => m.src \in votes'[i]) /\ ~IsQuorum(votes'[i])
    BY <1>0, <1>8, <2>1 DEF Campaign
  <2>3. UNCHANGED timer
    BY <1>0, <1>6, <2>1 DEF TakesOffice
  <2>4. Joins(1, {})
    BY <1>0, <1>1, <2>1, NoReplyJoins
  <2>5. Sole(i)'
    <3>1. \A n \in Node \ {i} : role'[n] # "leader"
      BY <2>1 DEF Sole
    <3> QED BY <1>4, <2>1, <2>4, <3>1, SoleStep
  <2>6. Punctual(e)'
    BY <1>0a, <2>4, PunctualStep DEF Campaign
  <2>7. ASSUME NEW n \in Node \ {i} PROVE Wooed(n, i)' \/ Won(n, i, e)'
    <3>1. CASE Wooed(n, i)
      <4>1. queue[1].type # "RequestVote"
        BY <1>1
      <4> QED BY <1>0, <2>1, <2>3, <3>1, <4>1, WooedStays
    <3>2. CASE Won(n, i, e)
      <4>1. Pledged(n, i)'
        BY <1>0, <1>1, <2>2, <3>2, PledgedStays DEF Won
      <4> QED BY <2>1, <2>3, <3>2, <4>1 DEF Won
    <3> QED BY <3>1, <3>2 DEF Campaign
  <2> QED BY <2>1, <2>2, <2>3, <2>5, <2>6, <2>7 DEF Campaign
<1> QED BY <1>7, <1>8

\* What i broadcasts as the leader.
LEMMA LeaderDeals ==
  ASSUME NEW i \in Node, NEW l, NEW next, NEW c, NEW ctx, NEW out,
         out = AppendsToPeers(i, currentTerm[i], l, next, c, ctx)
  PROVE  IsFiniteSet(out) /\ \A m \in out : Dealing(m, i) /\ m.type # "RequestVote"
<1>1. IsFiniteSet(out)
  BY BroadcastFinite
<1>2. \A m \in out : Dealing(m, i) /\ m.type # "RequestVote"
  BY DEF AppendsToPeers, AppendMsg, Dealing
<1> QED BY <1>1, <1>2

\* The leader's rule is kept by a step that changes no role and no term, when
\* who has heard it is remembered and its heartbeats stay on their way.
LEMMA RulesStep ==
  ASSUME NEW i \in Node, Sole(i), Rules(i), NEW d \in {0, 1}, NEW out, Joins(d, out),
         UNCHANGED <<alive, cut, currentTerm, role>>,
         \A m \in out : Dealing(m, i) /\ m.type # "RequestVote",
         \A n \in Node \ {i} : heard'[n] = i \/ Coming(n, i)'
  PROVE  Rules(i)'
<1>1. \A k \in 1..Len(queue') : queue'[k].type # "RequestVote"
  BY DEF Joins, Rules
<1> QED BY <1>1 DEF Rules

\* A heartbeat is heard and acknowledged.
LEMMA AppendDelivered ==
  ASSUME GroupInv, ClockInv, NEW i \in Node, Sole(i), Rules(i),
         DeliverDue, NEW m, m = Head(queue), m.type = "Append"
  PROVE  Sole(i)' /\ Rules(i)'
<1>0. /\ TypeInv /\ WaitInv /\ TimerInv /\ PeersInv /\ Along(1)
      /\ currentTerm \in [Node -> Nat] /\ role \in [Node -> {"follower", "candidate", "leader"}]
      /\ timer \in [Node -> 0..ElectionHigh] /\ heard \in [Node -> Node \cup {None}]
  BY TakenAlong DEF GroupInv, LogInv, ClockInv, TypeInv, DurableType, LeaderType, TimerInv, HistoryType
<1>1. /\ m = queue[1] /\ 1 \in 1..Len(queue) /\ queue # <<>>
      /\ m.src \in Node /\ m.dst \in Node /\ m.src # m.dst
  BY <1>0, Handled DEF DeliverDue, PeersInv
<1>2. m.src = i /\ m.term = currentTerm[i]
  BY <1>1 DEF Sole, Dealing
<1>3. PICK j \in Node \ {i} : j = m.dst
  BY <1>1, <1>2
<1>4. HandleAppend(j, m) /\ UNCHANGED <<alive, cut>>
  BY <1>3 DEF DeliverDue, Deliver
<1>5. m.term = currentTerm[j] /\ role[j] = "follower"
  BY <1>2 DEF Rules
<1>6. ~(m.term < currentTerm[j]) /\ ~(m.term > currentTerm[j]) /\ m.term >= currentTerm[j]
  BY <1>0, <1>5
<1>7. UNCHANGED <<currentTerm, role>>
  <2>1. currentTerm' = [currentTerm EXCEPT ![j] = m.term] /\ UNCHANGED leaderVars
    BY <1>4, <1>5, <1>6 DEF HandleAppend
  <2> QED BY <1>0, <1>5, <2>1 DEF leaderVars
<1>8. PICK r : Reply({r}) /\ r.type = "AppendResponse" /\ r.dst = i /\ r.term = m.term
  <2>1. PICK success, match, conflict, r :
          Reply({r}) /\ r = AppendResponseMsg(j, m.src, m.term, success, match, conflict, m.ctx)
    BY <1>4, <1>6 DEF HandleAppend
  <2> QED BY <1>2, <2>1 DEF AppendResponseMsg
<1>9. Joins(1, {r}) /\ \A a \in {r} : Dealing(a, i) /\ a.type # "RequestVote"
  <2>1. Joins(1, {r})
    BY <1>0, <1>1, <1>8, FS_Singleton, ReplyJoins
  <2> QED BY <1>2, <1>8, <2>1 DEF Dealing
<1>10. Sole(i)'
  <2>1. \A n \in Node \ {i} : role'[n] # "leader"
    BY <1>7 DEF Sole
  <2> QED BY <1>4, <1>7, <1>9, <2>1, SoleStep
<1>11. \A n \in Node \ {j} : timer'[n] = timer[n]
  <2>1. ~TakesOffice(j) /\ Resets(j, m)
    BY <1>5, <1>7 DEF TakesOffice, Resets
  <2>2. Redraw(j)
    BY <1>3, <2>1 DEF DeliverDue
  <2> QED BY <1>0, <2>2, Drawn
<1>12. PICK h : Remember(h) /\ h = [heard EXCEPT ![j] = i]
  BY <1>2, <1>3, <1>6 DEF DeliverDue
<1>13. ASSUME NEW n \in Node \ {i}, h[n] = i PROVE heard'[n] = i
  <2>1. currentTerm'[n] = currentTerm'[i] /\ role'[i] = "leader"
    BY <1>7 DEF Rules
  <2> QED BY <1>10, <1>12, <1>13, <2>1, SoleRemembers
<1>14. ASSUME NEW n \in Node \ {i} PROVE heard'[n] = i \/ Coming(n, i)'
  <2>1. CASE n = j \/ heard[n] = i
    <3>1. h[n] = i
      BY <1>0, <1>12, <2>1
    <3> QED BY <1>13, <3>1
  <2>2. CASE n # j /\ Coming(n, i)
    <3>1. ~Calls(queue[1], n, i)
      BY <1>1, <1>3, <2>2 DEF Calls
    <3> QED BY <1>0, <1>7, <1>11, <2>2, <3>1, ComingStep
  <2> QED BY <2>1, <2>2 DEF Rules
<1> QED BY <1>4, <1>7, <1>9, <1>10, <1>14, RulesStep

\* An answer to the leader leaves it in office; what it sends is its own.
LEMMA AnswerDelivered ==
  ASSUME GroupInv, ClockInv, NEW i \in Node, Sole(i), Rules(i),
         DeliverDue, NEW m, m = Head(queue), m.type \in {"VoteResponse", "AppendResponse"}
  PROVE  Sole(i)' /\ Rules(i)'
<1>0. /\ TypeInv /\ WaitInv /\ TimerInv /\ Along(1)
      /\ currentTerm \in [Node -> Nat] /\ heard \in [Node -> Node \cup {None}]
      /\ role[i] = "leader"
  BY TakenAlong DEF GroupInv, ClockInv, TypeInv, DurableType, HistoryType, Rules
<1>1. m = queue[1] /\ 1 \in 1..Len(queue) /\ queue # <<>>
  BY <1>0, Handled DEF DeliverDue
<1>2. m.dst = i /\ m.term = currentTerm[i]
  BY <1>1 DEF Sole, Dealing
<1>3. ~(m.term > currentTerm[i]) /\ ~(m.term < currentTerm[i])
  BY <1>0, <1>2
<1>4. UNCHANGED <<alive, cut>>
  BY DEF DeliverDue, Deliver
<1>5. /\ UNCHANGED <<currentTerm, role>>
      /\ \E out : Joins(1, out) /\ \A a \in out : Dealing(a, i) /\ a.type # "RequestVote"
  <2>1. NoReply => Joins(1, {})
    BY <1>0, <1>1, NoReplyJoins
  <2>2. CASE HandleVoteResponse(i, m)
    <3>1. NoReply /\ UNCHANGED <<currentTerm, role>>
      BY <1>0, <1>3, <2>2 DEF HandleVoteResponse, durableVars, leaderVars
    <3> QED BY <2>1, <3>1
  <2>3. CASE HandleAppendResponse(i, m)
    <3>1. UNCHANGED <<currentTerm, role>>
      BY <1>0, <1>2, <1>3, <2>3 DEF HandleAppendResponse, durableVars
    <3>2. CASE \E r : Reply({r}) /\ r.type = "Append" /\ r.src = i /\ r.term = currentTerm[i]
      <4>1. PICK r : Reply({r}) /\ r.type = "Append" /\ r.src = i /\ r.term = currentTerm[i]
        BY <3>2
      <4>2. Joins(1, {r})
        BY <1>0, <1>1, <4>1, FS_Singleton, ReplyJoins
      <4>3. \A a \in {r} : Dealing(a, i) /\ a.type # "RequestVote"
        BY <4>1 DEF Dealing
      <4> QED BY <3>1, <4>2, <4>3
    <3>3. CASE \E match, next : AdvanceCommit(i, match, next)
      <4>1. PICK match, next : AdvanceCommit(i, match, next)
        BY <3>3
      <4>2. CASE \E c : Reply(AppendsToPeers(i, currentTerm[i], log[i], next, c, 0))
        <5>1. PICK c, out : out = AppendsToPeers(i, currentTerm[i], log[i], next, c, 0) /\ Reply(out)
          BY <4>2
        <5>2. IsFiniteSet(out) /\ \A a \in out : Dealing(a, i) /\ a.type # "RequestVote"
          BY <5>1, LeaderDeals
        <5>3. Joins(1, out)
          BY <1>0, <1>1, <5>1, <5>2, ReplyJoins
        <5> QED BY <3>1, <5>2, <5>3
      <4> QED BY <2>1, <3>1, <4>1, <4>2 DEF AdvanceCommit
    <3>4. \/ NoReply
          \/ \E next : Reply({AppendMsg(i, m.src, currentTerm[i], log[i], next[m.src],
                                       commitIndex[i], m.ctx)})
          \/ \E match, next : AdvanceCommit(i, match, next)
      BY <2>3 DEF HandleAppendResponse
    <3>5. CASE \E next : Reply({AppendMsg(i, m.src, currentTerm[i], log[i], next[m.src],
                                        commitIndex[i], m.ctx)})
      <4>1. PICK next, r :
              /\ r = AppendMsg(i, m.src, currentTerm[i], log[i], next[m.src], commitIndex[i], m.ctx)
              /\ Reply({r})
        BY <3>5
      <4>2. r.type = "Append" /\ r.src = i /\ r.term = currentTerm[i]
        BY <4>1 DEF AppendMsg
      <4> QED BY <3>2, <4>1, <4>2
    <3>6. CASE NoReply
      BY <2>1, <3>1, <3>6
    <3> QED BY <3>3, <3>4, <3>5, <3>6
  <2> QED BY <1>2, <2>2, <2>3 DEF DeliverDue, Deliver
<1>6. PICK out : Joins(1, out) /\ \A a \in out : Dealing(a, i) /\ a.type # "RequestVote"
  BY <1>5
<1>7. Sole(i)'
  <2>1. \A n \in Node \ {i} : role'[n] # "leader"
    BY <1>5 DEF Sole
  <2> QED BY <1>4, <1>5, <1>6, <2>1, SoleStep
<1>8. UNCHANGED timer
  <2>1. ~TakesOffice(i) /\ ~Resets(i, m)
    BY <1>0, <1>2, <1>3 DEF TakesOffice, Resets
  <2> QED BY <1>2, <2>1 DEF DeliverDue
<1>9. Remember(heard)
  BY DEF DeliverDue
<1>10. ASSUME NEW n \in Node \ {i} PROVE heard'[n] = i \/ Coming(n, i)'
  <2>1. CASE heard[n] = i
    <3>1. currentTerm'[n] = currentTerm'[i] /\ role'[i] = "leader"
      BY <1>5 DEF Rules
    <3> QED BY <1>7, <1>9, <2>1, <3>1, SoleRemembers
  <2>2. CASE Coming(n, i)
    <3>1. ~Calls(queue[1], n, i)
      BY <1>1 DEF Calls
    <3> QED BY <1>0, <1>5, <1>8, <2>2, <3>1, ComingStep
  <2> QED BY <2>1, <2>2 DEF Rules
<1> QED BY <1>4, <1>5, <1>6, <1>7, <1>10, RulesStep

\* What the leader broadcasts by itself or for a call leaves it in office.
LEMMA RulesAdd ==
  ASSUME GroupInv, ClockInv, NEW i \in Node, Sole(i), Rules(i),
         NEW n \in Node, Beat(n) \/ Write(n) \/ Read(n)
  PROVE  Sole(i)' /\ Rules(i)'
<1>0. /\ TypeInv /\ TimerInv /\ WaitInv /\ Along(0)
      /\ timer \in [Node -> 0..ElectionHigh]
  BY AddedAlong DEF GroupInv, ClockInv, TimerInv
<1>1. role[n] = "leader" /\ UNCHANGED <<alive, cut, currentTerm, role>>
  BY DEF Beat, Heartbeat, Write, Read, Begin, ClientWrite, ReadStart, IsCurrentLeader, durableVars,
         leaderVars
<1>2. n = i
  BY <1>1 DEF Sole
<1>3. PICK l, next, c, ctx, out : out = AppendsToPeers(i, currentTerm[i], l, next, c, ctx) /\ Send(out)
  <2>1. Beat(i) => \E l, next, c, ctx : Send(AppendsToPeers(i, currentTerm[i], l, next, c, ctx))
    BY DEF Beat, Heartbeat
  <2>2. Read(i) => \E l, next, c, ctx : Send(AppendsToPeers(i, currentTerm[i], l, next, c, ctx))
    BY DEF Read, Begin, ReadStart
  <2>3. Write(i) => \E l, next, c, ctx : Send(AppendsToPeers(i, currentTerm[i], l, next, c, ctx))
    BY DEF Write, Begin, ClientWrite
  <2> QED BY <1>2, <2>1, <2>2, <2>3
<1>4. Joins(0, out) /\ \A m \in out : Dealing(m, i) /\ m.type # "RequestVote"
  <2>1. IsFiniteSet(out) /\ \A m \in out : Dealing(m, i) /\ m.type # "RequestVote"
    BY <1>3, LeaderDeals
  <2> QED BY <1>0, <1>3, <2>1, SendJoins
<1>5. Sole(i)'
  <2>1. \A j \in Node \ {i} : role'[j] # "leader"
    BY <1>1 DEF Sole
  <2> QED BY <1>1, <1>4, <2>1, SoleStep
<1>6. \A j \in Node \ {i} : timer'[j] = timer[j]
  BY <1>0, <1>2 DEF Beat, Write, Read, Begin
<1>7. UNCHANGED heard \/ Remember(heard)
  BY DEF Beat, Write, Read, Begin, historyVars
<1>8. ASSUME NEW j \in Node \ {i} PROVE heard'[j] = i \/ Coming(j, i)'
  <2>1. CASE heard[j] = i
    <3>1. currentTerm'[j] = currentTerm'[i] /\ role'[i] = "leader"
      BY <1>1 DEF Rules
    <3> QED BY <1>5, <1>7, <2>1, <3>1, SoleRemembers
  <2>2. CASE Coming(j, i)
    BY <1>0, <1>1, <1>6, <2>2, ComingStep
  <2> QED BY <2>1, <2>2 DEF Rules
<1> QED BY <1>1, <1>4, <1>5, <1>8, RulesStep

\* All the nodes are a quorum.
LEMMA AllAreQuorum ==
  ASSUME NEW S \in SUBSET Node, \A j \in Node : j \in S
  PROVE  IsQuorum(S)
<1>1. S = Node
  OBVIOUS
<1> QED BY <1>1, NodeIsFinite, RaftAssumption DEF IsQuorum

\* When the votes of all are due, all of them have been counted.
LEMMA CampaignEnds ==
  ASSUME TypeInv, WaitInv, ~Due, NEW i \in Node, NEW e \in 0..2 * Delay, Campaign(i, e)
  PROVE  e < 2 * Delay
<1>0. Delay \in Nat /\ e \in Nat /\ e <= 2 * Delay
  BY ClockBounds
<1> SUFFICES ASSUME e = 2 * Delay PROVE FALSE
  BY <1>0
<1>1. Len(queue) \in Nat /\ votes[i] \in SUBSET Node
  BY LenProperties DEF TypeInv, QueueType, LeaderType
<1>2. ASSUME NEW k \in 1..Len(queue) PROVE FALSE
  <2>1. wait[k] + e = Delay \/ wait[k] + e = 2 * Delay
    BY DEF Campaign, Punctual
  <2>2. wait[k] \in 0..Delay
    BY <1>1, LenProperties, ElementOfSeq DEF WaitInv, Ticks
  <2>3. wait[k] <= 0
    BY <1>0, <2>1, <2>2
  <2> QED BY <1>1, <2>3, LateIsDue
<1>3. ASSUME NEW j \in Node PROVE j \in votes[i]
  <2>1. CASE j = i
    BY <2>1 DEF Campaign
  <2>2. CASE j # i
    <3>1. Won(j, i, e)
      BY <1>2, <2>2 DEF Campaign, Wooed
    <3> QED BY <1>2, <3>1 DEF Won, Pledged
  <2> QED BY <2>1, <2>2
<1>4. IsQuorum(votes[i])
  BY <1>1, <1>3, AllAreQuorum
<1> QED BY <1>4 DEF Campaign

\* A tick brings all of it nearer.
LEMMA SoloTick ==
  ASSUME GroupInv, ClockInv, NEW i \in Node, Sole(i), Tick
  PROVE  /\ Sole(i)'
         /\ Rules(i) => Rules(i)'
         /\ \A e \in 0..2 * Delay : Campaign(i, e) => \E f \in 0..2 * Delay : Campaign(i, f)'
<1>0. /\ TypeInv /\ WaitInv /\ TimerInv /\ Len(queue) \in Nat
      /\ timer \in [Node -> 0..ElectionHigh] /\ Delay \in Nat
  BY LenProperties, ClockBounds DEF GroupInv, ClockInv, TypeInv, QueueType, TimerInv
<1>1. /\ ~Due
      /\ UNCHANGED <<queue, alive, cut, role, currentTerm, log, votes, heard>>
      /\ wait' = [k \in DOMAIN wait |-> wait[k] - 1]
      /\ timer' = [j \in Node |-> IF alive[j] THEN timer[j] - 1 ELSE 0]
  BY DEF Tick, Quiescent, vars, durableVars, leaderVars, historyVars
<1>2. \A j \in Node : timer'[j] = timer[j] - 1 /\ timer[j] \in Nat
  BY <1>0, <1>1 DEF Sole
<1>3. \A k \in 1..Len(queue) : wait'[k] = wait[k] - 1 /\ wait[k] \in Nat
  BY <1>0, <1>1, TickWaits
<1>4. Sole(i)'
  <2>1. \A k \in 1..Len(queue') : Dealing(queue[k], i)'
    BY <1>1 DEF Sole, Dealing
  <2> QED BY <1>1, <2>1 DEF Sole
<1>5. ASSUME Rules(i) PROVE Rules(i)'
  <2>1. ASSUME NEW j \in Node \ {i}, Coming(j, i) PROVE Coming(j, i)'
    <3>1. PICK k \in 1..Len(queue) : Calls(queue[k], j, i) /\ wait[k] <= timer[j]
      BY <2>1 DEF Coming
    <3>2. wait'[k] <= timer'[j]
      BY <1>2, <1>3, <3>1
    <3>3. Calls(queue[k], j, i)'
      BY <1>1, <3>1 DEF Calls
    <3> QED BY <1>1, <3>2, <3>3 DEF Coming
  <2> QED BY <1>1, <1>5, <2>1 DEF Rules
<1>6. ASSUME NEW e \in 0..2 * Delay, Campaign(i, e)
      PROVE  \E f \in 0..2 * Delay : Campaign(i, f)'
  <2>1. e < 2 * Delay
    BY <1>0, <1>1, <1>6, CampaignEnds
  <2>2. PICK f \in 0..2 * Delay : f = e + 1
    BY <1>0, <2>1
  <2>3. Punctual(f)'
    <3>1. ASSUME NEW k \in 1..Len(queue')
          PROVE  /\ queue'[k].type = "RequestVote" => wait'[k] + f = Delay
                 /\ queue'[k].type = "VoteResponse" => wait'[k] + f = 2 * Delay
                 /\ queue'[k].type \in {"RequestVote", "VoteResponse"}
      <4>1. queue' = queue /\ wait'[k] + f = wait[k] + e
        <5>1. queue' = queue /\ wait'[k] = wait[k] - 1 /\ wait[k] \in Nat
          BY <1>1, <1>3
        <5> QED BY <1>0, <2>2, <5>1
      <4> QED BY <1>6, <4>1 DEF Campaign, Punctual
    <3> QED BY <3>1 DEF Punctual
  <2>4. ASSUME NEW j \in Node \ {i} PROVE Wooed(j, i)' \/ Won(j, i, f)'
    <3>1. CASE Wooed(j, i)
      <4>1. PICK k \in 1..Len(queue) :
              queue[k].type = "RequestVote" /\ queue[k].dst = j /\ wait[k] <= timer[j]
        BY <3>1 DEF Wooed
      <4>2. wait'[k] <= timer'[j]
        BY <1>2, <1>3, <4>1
      <4>3. \E h \in 1..Len(queue') :
              queue'[h].type = "RequestVote" /\ queue'[h].dst = j /\ wait'[h] <= timer'[j]
        BY <1>1, <4>1, <4>2
      <4> QED BY <1>1, <3>1, <4>3 DEF Wooed
    <3>2. CASE Won(j, i, e)
      <4>1. timer'[j] + f = timer[j] + e
        BY <1>2, <2>2
      <4>2. Pledged(j, i)'
        BY <1>1, <3>2 DEF Won, Pledged
      <4> QED BY <1>1, <3>2, <4>1, <4>2 DEF Won
    <3> QED BY <1>6, <3>1, <3>2 DEF Campaign
  <2>5. timer'[i] + f = timer[i] + e
    BY <1>2, <2>2
  <2>6. Campaign(i, f)'
    BY <1>1, <1>6, <2>3, <2>4, <2>5 DEF Campaign
  <2> QED BY <2>6
<1> QED BY <1>4, <1>5, <1>6

\* An election that is uncontested begins a campaign.
LEMMA SoloBegins ==
  ASSUME GroupInv, ClockInv, NEW i \in Node, Stand(i), Uncontested(i)
  PROVE  Sole(i)' /\ Campaign(i, 0)'
<1>0. /\ TypeInv /\ TimerInv /\ WaitInv /\ Along(0)
      /\ currentTerm \in [Node -> Nat] /\ role \in [Node -> {"follower", "candidate", "leader"}]
      /\ votes \in [Node -> SUBSET Node]
  BY AddedAlong DEF GroupInv, ClockInv, TypeInv, DurableType, LeaderType
<1>1. PICK T \in Nat : T = currentTerm[i] + 1
  BY <1>0
<1>2. PICK out : out = {RequestVoteMsg(i, j, T, log[i]) : j \in Node \ {i}} /\ Send(out)
  BY <1>1 DEF Stand, Timeout
<1>3. /\ role' = [role EXCEPT ![i] = "candidate"] /\ currentTerm' = [currentTerm EXCEPT ![i] = T]
      /\ votes' = [votes EXCEPT ![i] = {i}] /\ UNCHANGED <<log, alive, cut>> /\ Redraw(i)
  BY <1>1 DEF Stand, Timeout
<1>4. /\ role'[i] = "candidate" /\ currentTerm'[i] = T /\ votes'[i] = {i}
      /\ \A j \in Node \ {i} : role'[j] = role[j] /\ currentTerm'[j] = currentTerm[j]
  BY <1>0, <1>3
<1>5. timer'[i] \in Timeouts /\ \A j \in Node \ {i} : timer'[j] = timer[j]
  BY <1>0, <1>3, Drawn
<1>6. /\ IsFiniteSet(out)
      /\ \A m \in out : m.type = "RequestVote" /\ m.src = i /\ m.dst \in Node /\ m.term = T
  <2>1. \A m \in out : m.type = "RequestVote" /\ m.src = i /\ m.dst \in Node /\ m.term = T
    BY <1>2 DEF RequestVoteMsg
  <2> QED BY <1>2, <2>1, RequestsFinite
<1>7. Len(queue) = 0 /\ Joins(0, out)
  BY <1>0, <1>2, <1>6, SendJoins DEF Uncontested
<1>8. \A k \in 1..Len(queue') : queue'[k] \in out /\ wait'[k] = Delay
  BY <1>7 DEF Joins
<1>9. Sole(i)'
  <2>1. \A k \in 1..Len(queue') : Dealing(queue[k], i)'
    BY <1>4, <1>6, <1>8 DEF Dealing
  <2> QED BY <1>3, <1>4, <2>1 DEF Uncontested, Sole
<1>10. Punctual(0)'
  <2>1. Delay + 0 = Delay
    BY ClockBounds
  <2> QED BY <1>6, <1>8, <2>1 DEF Punctual
<1>11. ASSUME NEW j \in Node \ {i} PROVE Wooed(j, i)'
  <2>1. /\ currentTerm[j] <= currentTerm[i] /\ timer[j] >= Delay
        /\ UpToDate(RequestVoteMsg(i, j, T, log[i]), log[j])
    BY <1>1 DEF Uncontested
  <2>2. currentTerm'[j] < currentTerm'[i]
    BY <1>0, <1>1, <1>4, <2>1
  <2>3. PICK r \in out : r.dst = j
    <3>1. RequestVoteMsg(i, j, T, log[i]) \in out
      BY <1>2
    <3> QED BY <3>1 DEF RequestVoteMsg
  <2>4. PICK k \in 1..Len(queue') : queue'[k] = r /\ wait'[k] = Delay
    <3>1. <<r.src, r.dst>> \notin cut /\ \A d \in out : d.dst \in Node
      BY <1>6 DEF Uncontested
    <3> QED BY <1>0, <1>2, <1>6, <3>1, SendsSent
  <2>5. \E h \in 1..Len(queue') :
          queue'[h].type = "RequestVote" /\ queue'[h].dst = j /\ wait'[h] <= timer'[j]
    BY <1>5, <1>6, <2>1, <2>3, <2>4
  <2>6. UpToDate(RequestVoteMsg(i, j, currentTerm'[i], log'[i]), log'[j])
    BY <1>3, <1>4, <2>1
  <2> QED BY <2>2, <2>5, <2>6 DEF Wooed
<1>12. ~IsQuorum(votes'[i])
  BY <1>4, OneIsNoQuorum
<1>13. timer'[i] + 0 > 2 * Delay + HeartbeatInterval
  BY <1>5, ClockBounds
<1> QED BY <1>4, <1>9, <1>10, <1>11, <1>12, <1>13 DEF Campaign

\* Only who stands becomes or stays a candidate in another term.
LEMMA OnlyStandingRaises ==
  ASSUME TypeInv, PeersInv, OwnVote, [ClockNext]_timedVars, NEW i \in Node,
         role'[i] = "candidate", currentTerm'[i] # currentTerm[i]
  PROVE  \E n \in Node : Stand(n)
<1>0. /\ currentTerm \in [Node -> Nat] /\ role \in [Node -> {"follower", "candidate", "leader"}]
  BY DEF TypeInv, DurableType, LeaderType
<1>1. LoseRole(i) => role'[i] = "follower"
  BY <1>0 DEF LoseRole
<1>2. ~DeliverDue
  <2> SUFFICES ASSUME DeliverDue PROVE FALSE
    OBVIOUS
  <2>1. PICK m \in SoundMessage : m = Head(queue) /\ m.dst \in Node /\ m.term \in Nat
    BY Handled DEF DeliverDue
  <2>2. PICK n \in Node : n = m.dst
    BY <2>1
  <2>3. n = i
    <3>1. \E t : currentTerm' = [currentTerm EXCEPT ![n] = t]
      <4>1. UNCHANGED currentTerm => currentTerm' = [currentTerm EXCEPT ![n] = currentTerm[n]]
        BY <1>0
      <4> QED BY <2>1, <2>2, <4>1 DEF DeliverDue, Deliver, HandleRequestVote, HandleVoteResponse,
              HandleAppend, HandleAppendResponse, AdoptTerm, durableVars
    <3> QED BY <1>0, <3>1
  <2>4. CASE HandleRequestVote(i, m)
    <3>1. m.term > currentTerm[i]
      BY <1>0, <2>1, <2>4 DEF HandleRequestVote, Larger
    <3> QED BY <1>1, <2>4, <3>1 DEF HandleRequestVote
  <2>5. CASE HandleVoteResponse(i, m)
    BY <1>1, <2>5 DEF HandleVoteResponse, AdoptTerm, durableVars
  <2>6. CASE HandleAppend(i, m)
    <3>1. LoseRole(i) \/ (role[i] = "follower" /\ UNCHANGED leaderVars)
      BY <2>6 DEF HandleAppend, durableVars
    <3> QED BY <1>1, <3>1 DEF leaderVars
  <2>7. CASE HandleAppendResponse(i, m)
    BY <1>1, <2>7 DEF HandleAppendResponse, AdoptTerm, durableVars
  <2> QED BY <2>1, <2>2, <2>3, <2>4, <2>5, <2>6, <2>7 DEF DeliverDue, Deliver
<1>3. ~DiscardDue /\ ~Returns /\ ~Tick /\ ~UNCHANGED timedVars
  BY DEF DiscardDue, Discard, Returns, WriteAccepted, WriteUnknown, ReadAnswered, ReadFailed,
         ReadEnd, Tick, timedVars, vars, durableVars
<1>4. ASSUME NEW n \in Node,
             \/ Beat(n) \/ Write(n) \/ Read(n)
             \/ CrashNow(n) \/ RestartNow(n) \/ IsolateNow(n) \/ HealNow(n)
      PROVE  FALSE
  BY <1>4 DEF Beat, Heartbeat, Write, Read, Begin, ClientWrite, ReadStart, CrashNow, RestartNow,
     IsolateNow, HealNow, Fault, Crash, Restart, Isolate, Heal, durableVars
<1> QED BY <1>2, <1>3, <1>4 DEF ClockNext, Running

\* A call that returns, or nothing, changes nothing of it.
LEMMA SoloQuiet ==
  ASSUME NEW i \in Node, Underway(i), Returns \/ UNCHANGED timedVars
  PROVE  Underway(i)'
<1>1. UNCHANGED <<queue, wait, timer, heard, alive, role, currentTerm, votes, cut, log>>
  BY DEF Returns, WriteAccepted, WriteUnknown, ReadAnswered, ReadFailed, ReadEnd, timedVars,
     clockVars, historyVars, vars, durableVars, leaderVars
<1>2. Sole(i)'
  <2>1. \A k \in 1..Len(queue') : Dealing(queue[k], i)'
    BY <1>1 DEF Underway, Sole, Dealing
  <2> QED BY <1>1, <2>1 DEF Underway, Sole
<1>3. Rules(i) => Rules(i)'
  <2>1. \A j \in Node : Coming(j, i) => Coming(j, i)'
    BY <1>1 DEF Coming, Calls
  <2> QED BY <1>1, <2>1 DEF Rules
<1>4. ASSUME NEW e \in 0..2 * Delay, Campaign(i, e) PROVE Campaign(i, e)'
  <2>1. Punctual(e)'
    BY <1>1, <1>4 DEF Campaign, Punctual
  <2>2. \A j \in Node : Wooed(j, i) => Wooed(j, i)'
    BY <1>1 DEF Wooed
  <2>3. \A j \in Node : Won(j, i, e) => Won(j, i, e)'
    BY <1>1 DEF Won, Pledged
  <2> QED BY <1>1, <1>4, <2>1, <2>2, <2>3 DEF Campaign
<1> QED BY <1>2, <1>3, <1>4 DEF Underway

\* A message that is handled carries the election on.
LEMMA SoloDelivers ==
  ASSUME GroupInv, ClockInv, NEW i \in Node, Underway(i), DeliverDue
  PROVE  Underway(i)'
<1>1. PICK m \in SoundMessage : m = Head(queue) /\ m = queue[1] /\ 1 \in 1..Len(queue)
  BY Handled DEF DeliverDue, GroupInv
<1>2. m.type \in {"RequestVote", "VoteResponse", "Append", "AppendResponse"}
  BY <1>1 DEF DeliverDue, Deliver
<1>3. CASE Rules(i)
  <2>1. m.type # "RequestVote"
    BY <1>1, <1>3 DEF Rules
  <2>2. Sole(i)' /\ Rules(i)'
    BY <1>1, <1>2, <1>3, <2>1, AppendDelivered, AnswerDelivered DEF Underway
  <2> QED BY <2>2 DEF Underway
<1>4. ASSUME NEW e \in 0..2 * Delay, Campaign(i, e) PROVE Underway(i)'
  <2>1. m.type \in {"RequestVote", "VoteResponse"}
    BY <1>1, <1>4 DEF Campaign, Punctual
  <2>2. Sole(i)' /\ (Rules(i)' \/ Campaign(i, e)')
    BY <1>1, <1>4, <2>1, RequestDelivered, VoteDelivered DEF Underway
  <2> QED BY <2>2 DEF Underway
<1> QED BY <1>3, <1>4 DEF Underway

\* SoloInv is kept: nobody else stands, and a fault ends what it is about.
LEMMA SoloInvStep ==
  ASSUME GroupInv, ClockInv, SoloInv, [ClockNext]_timedVars
  PROVE  SoloInv'
<1>0. TypeInv
  BY DEF GroupInv
<1>1. SUFFICES ASSUME solo' PROVE \E i \in Node : Underway(i)'
  BY DEF SoloInv
<1>2. CASE ~solo
  <2>1. PICK n \in Node : Stand(n) /\ Uncontested(n)
    BY <1>1, <1>2 DEF ClockNext, Running, DeliverDue, DiscardDue, Tick, Returns, Beat, Stand, Write,
       Read, Begin, CrashNow, RestartNow, IsolateNow, HealNow, Fault, historyVars, timedVars, clockVars
  <2>2. Sole(n)' /\ Campaign(n, 0)' /\ 0 \in 0..2 * Delay
    BY <2>1, SoloBegins, ClockBounds
  <2> QED BY <2>2 DEF Underway
<1>3. CASE solo
  <2>1. PICK i \in Node : Underway(i)
    BY <1>3 DEF SoloInv
  <2>2. CASE DeliverDue
    BY <2>1, <2>2, SoloDelivers
  <2>3. CASE DiscardDue
    BY <1>0, <2>1, <2>3, SoleDelivers DEF Underway
  <2>4. CASE Tick
    BY <2>1, <2>4, SoloTick DEF Underway
  <2>5. CASE Returns \/ UNCHANGED timedVars
    BY <2>1, <2>5, SoloQuiet
  <2>6. ASSUME NEW n \in Node, Beat(n) \/ Write(n) \/ Read(n) PROVE Underway(i)'
    <3>1. role[n] = "leader"
      BY <2>6 DEF Beat, Heartbeat, Write, Read, Begin, ClientWrite, ReadStart, IsCurrentLeader
    <3>2. Rules(i)
      BY <2>1, <3>1 DEF Underway, Sole, Campaign
    <3> QED BY <2>1, <2>6, <3>2, RulesAdd DEF Underway
  <2>7. ASSUME NEW n \in Node, Stand(n) PROVE FALSE
    BY <2>1, <2>7, SoloStands DEF Underway
  <2>8. ASSUME NEW n \in Node, CrashNow(n) \/ RestartNow(n) \/ IsolateNow(n) \/ HealNow(n)
        PROVE  FALSE
    BY <1>1, <2>8 DEF CrashNow, RestartNow, IsolateNow, HealNow, Fault
  <2> QED BY <2>1, <2>2, <2>3, <2>4, <2>5, <2>6, <2>7, <2>8 DEF ClockNext, Running
<1> QED BY <1>2, <1>3 DEF GroupInv, ClockInv, HistoryType

\* SoloInv holds in every state of the group with its clock.
LEMMA SoloInvariant == ClockSpec => []SoloInv
<1>1. ClockInit => SoloInv
  BY DEF ClockInit, SoloInv
<1> QED BY <1>1, SoloInvStep, ClockInvariant, PTL DEF ClockSpec

\* Elections end, for every delay, interval, range of timeouts and number of
\* nodes: once a candidate has stood alone nobody starts another election
\* before the next fault, because every other node votes for it within the
\* delay, waits from then on, and hears its heartbeat in time.
THEOREM ElectionsEndHolds == ClockSpec => ElectionsEnd
<1>1. GroupInv /\ ClockInv /\ SoloInv /\ [ClockNext]_timedVars =>
        (solo => \A i \in Node : role'[i] = "candidate" => currentTerm'[i] = currentTerm[i])
  <2> SUFFICES ASSUME GroupInv, ClockInv, SoloInv, [ClockNext]_timedVars, solo,
                      NEW i \in Node, role'[i] = "candidate", currentTerm'[i] # currentTerm[i]
               PROVE  FALSE
    OBVIOUS
  <2>1. TypeInv /\ PeersInv /\ OwnVote
    BY DEF GroupInv, LogInv, ClockInv
  <2>2. PICK n \in Node : Stand(n)
    BY <2>1, OnlyStandingRaises
  <2> QED BY <2>2, SoloStands DEF SoloInv, Underway
<1> QED BY <1>1, SoloInvariant, ClockInvariant, PTL DEF ClockSpec, ElectionsEnd
=============================================================================
