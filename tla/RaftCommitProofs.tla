-------------------------- MODULE RaftCommitProofs --------------------------
(***************************************************************************)
(* What is committed stays, for any number of nodes.  An entry that a       *)
(* leader has counted on a quorum pins every node of that quorum: its log   *)
(* keeps the entry's term at the entry's index, or has moved on to a later  *)
(* term, and so has every candidate that it votes for.  A later leader was  *)
(* voted for by one of them, so nothing of a later term is ever put         *)
(* anywhere but on top of that entry.                                       *)
(***************************************************************************)
EXTENDS RaftProofs

----------------------------------------------------------------------------
(* What a step does to votes and to the client's call *)

\* Every vote that is counted was claimed before, or is a new candidate's own.
VotesStep ==
  \A c, v \in Node : role'[c] # "follower" /\ v \in votes'[c] =>
    \/ Claim(v, currentTerm'[c], c)
    \/ v = c /\ role'[c] = "candidate" /\ currentTerm'[c] = currentTerm[c] + 1

\* The client's write is still the one it was, or is the leader's last entry.
ClientStep ==
  \/ client' = client
  \/ client'.op # "write"
  \/ \E i \in Node :
       /\ role'[i] = "leader" /\ client'.leader = i /\ client'.index = Len(log'[i])
       /\ Len(log'[i]) >= 1
       /\ client'.entry = log'[i][Len(log'[i])] /\ client'.entry.term = currentTerm'[i]

\* Nobody counts a vote.
LEMMA SameVotes ==
  ASSUME UNCHANGED <<currentTerm, role, votes>>
  PROVE  VotesStep
BY DEF VotesStep, Claim, HeldVote

\* One node loses its role, the others' votes stay.
LEMMA LostVotes ==
  ASSUME TypeInv, NEW i \in Node, LoseRole(i),
         \A j \in Node \ {i} : currentTerm'[j] = currentTerm[j]
  PROVE  VotesStep
<1>1. /\ role'[i] = "follower"
      /\ \A j \in Node \ {i} : role'[j] = role[j] /\ votes'[j] = votes[j]
  BY DEF LoseRole, TypeInv, LeaderType
<1> QED BY <1>1 DEF VotesStep, Claim, HeldVote

\* The handlers of the four kinds of message.
LEMMA DeliverVotes ==
  ASSUME TypeInv, Deliver
  PROVE  VotesStep
<1> DEFINE m == Head(queue)
           i == m.dst
<1>0. m \in SoundMessage /\ m \in InFlight(queue)
  BY TailProperties DEF Deliver, TypeInv, QueueType
<1>1. i \in Node /\ m.src \in Node /\ m.term \in Nat
  BY <1>0 DEF SoundMessage, Message
<1>2. \/ m.type = "RequestVote" /\ HandleRequestVote(i, m)
      \/ m.type = "VoteResponse" /\ HandleVoteResponse(i, m)
      \/ m.type = "Append" /\ HandleAppend(i, m)
      \/ m.type = "AppendResponse" /\ HandleAppendResponse(i, m)
  BY DEF Deliver
<1>3. /\ currentTerm \in [Node -> Nat] /\ votes \in [Node -> SUBSET Node]
      /\ role \in [Node -> {"follower", "candidate", "leader"}]
  BY DEF TypeInv, DurableType, LeaderType
<1>4. m.src = m.src /\ m.dst = i
  OBVIOUS
<1> HIDE DEF m, i
<1>5. ASSUME AdoptTerm(i, m) PROVE VotesStep
  <2>1. LoseRole(i) /\ \A j \in Node \ {i} : currentTerm'[j] = currentTerm[j]
    BY <1>3, <1>5 DEF AdoptTerm
  <2> QED BY <1>1, <2>1, LostVotes
<1>6. CASE HandleRequestVote(i, m)
  <2>1. /\ currentTerm' = [currentTerm EXCEPT ![i] = Larger(m.term, currentTerm[i])]
        /\ LoseRole(i) \/ (m.term <= currentTerm[i] /\ UNCHANGED leaderVars)
    BY <1>1, <1>3, <1>6 DEF HandleRequestVote
  <2>2. CASE LoseRole(i)
    BY <1>1, <1>3, <2>1, <2>2, LostVotes
  <2>3. CASE m.term <= currentTerm[i] /\ UNCHANGED leaderVars
    <3>1. currentTerm' = currentTerm
      BY <1>1, <1>3, <2>1, <2>3 DEF Larger
    <3> QED BY <2>3, <3>1, SameVotes DEF leaderVars
  <2> QED BY <2>1, <2>2, <2>3
<1>7. CASE m.type = "VoteResponse" /\ HandleVoteResponse(i, m)
  <2>1. CASE AdoptTerm(i, m)
    BY <1>5, <2>1
  <2>2. CASE UNCHANGED <<durableVars, leaderVars>>
    BY <2>2, SameVotes DEF durableVars, leaderVars
  <2>3. CASE /\ m.term = currentTerm[i] /\ role[i] = "candidate" /\ m.granted
             /\ votes' = [votes EXCEPT ![i] = @ \cup {m.src}] /\ UNCHANGED currentTerm
             /\ BecomeLeader(i) \/ UNCHANGED role
    <3>1. /\ votes'[i] = votes[i] \cup {m.src}
          /\ \A j \in Node \ {i} : votes'[j] = votes[j] /\ role'[j] = role[j]
      BY <1>1, <1>3, <2>3 DEF BecomeLeader
    <3>2. SentVote(m.src, currentTerm[i], i)
      BY <1>0, <1>4, <1>7, <2>3 DEF SentVote
    <3>3. \A v \in Node : v \in votes'[i] => Claim(v, currentTerm'[i], i)
      BY <2>3, <3>1, <3>2 DEF Claim, HeldVote
    <3>4. \A j \in Node \ {i} : \A v \in Node : role'[j] # "follower" /\ v \in votes'[j] =>
            Claim(v, currentTerm'[j], j)
      BY <2>3, <3>1 DEF Claim, HeldVote
    <3> QED BY <3>3, <3>4 DEF VotesStep
  <2> QED BY <1>7, <2>1, <2>2, <2>3 DEF HandleVoteResponse
<1>8. CASE HandleAppend(i, m)
  <2>1. CASE UNCHANGED <<durableVars, leaderVars>>
    BY <2>1, SameVotes DEF durableVars, leaderVars
  <2>2. CASE /\ currentTerm' = [currentTerm EXCEPT ![i] = m.term]
             /\ \/ LoseRole(i)
                \/ m.term = currentTerm[i] /\ UNCHANGED leaderVars
    <3>1. CASE LoseRole(i)
      BY <1>1, <1>3, <2>2, <3>1, LostVotes
    <3>2. CASE m.term = currentTerm[i] /\ UNCHANGED leaderVars
      <4>1. currentTerm' = currentTerm
        BY <1>1, <1>3, <2>2, <3>2
      <4> QED BY <3>2, <4>1, SameVotes DEF leaderVars
    <3> QED BY <2>2, <3>1, <3>2
  <2> QED BY <1>8, <2>1, <2>2 DEF HandleAppend
<1>9. CASE HandleAppendResponse(i, m)
  <2>1. AdoptTerm(i, m) \/ UNCHANGED <<currentTerm, role, votes>>
    BY <1>9 DEF HandleAppendResponse, durableVars, leaderVars
  <2> QED BY <1>5, <2>1, SameVotes
<1> QED BY <1>2, <1>6, <1>7, <1>8, <1>9

\* Votes are only counted in _receive_vote_response and _start_election.
LEMMA VotesStepHolds ==
  ASSUME TypeInv, [Next]_vars
  PROVE  VotesStep
<1>1. ASSUME NEW i \in Node, Timeout(i) PROVE VotesStep
  <2>1. /\ currentTerm' = [currentTerm EXCEPT ![i] = currentTerm[i] + 1]
        /\ role' = [role EXCEPT ![i] = "candidate"] /\ votes' = [votes EXCEPT ![i] = {i}]
        /\ currentTerm \in [Node -> Nat] /\ votes \in [Node -> SUBSET Node]
        /\ role \in [Node -> {"follower", "candidate", "leader"}]
    BY <1>1 DEF Timeout, TypeInv, DurableType, LeaderType
  <2> QED BY <2>1 DEF VotesStep, Claim, HeldVote
<1>2. ASSUME NEW i \in Node, Crash(i) PROVE VotesStep
  <2>1. LoseRole(i) /\ UNCHANGED currentTerm
    BY <1>2 DEF Crash, durableVars
  <2> QED BY <2>1, LostVotes
<1>3. ASSUME NEW i \in Node,
             Heartbeat(i) \/ ReadStart(i) \/ Restart(i) \/ Isolate(i) \/ Heal(i)
      PROVE  VotesStep
  BY <1>3, SameVotes DEF Heartbeat, ReadStart, Restart, Isolate, Heal, durableVars, leaderVars
<1>4. ASSUME NEW i \in Node, NEW k \in Key, NEW v \in Value, ClientWrite(i, k, v)
      PROVE  VotesStep
  BY <1>4, SameVotes DEF ClientWrite
<1>5. CASE Discard \/ WriteAccepted \/ WriteUnknown \/ ReadAnswered \/ ReadFailed \/ UNCHANGED vars
  BY <1>5, SameVotes
  DEF Discard, WriteAccepted, WriteUnknown, ReadAnswered, ReadFailed, ReadEnd, vars,
      durableVars, leaderVars
<1> QED BY <1>1, <1>2, <1>3, <1>4, <1>5, DeliverVotes DEF Next

\* Only client_write starts a write.
LEMMA ClientStepHolds ==
  ASSUME TypeInv, [Next]_vars
  PROVE  ClientStep
<1>1. ASSUME NEW i \in Node, NEW k \in Key, NEW v \in Value, ClientWrite(i, k, v)
      PROVE  ClientStep
  <2> DEFINE e == [term |-> currentTerm[i], key |-> k, value |-> v]
             l == Append(log[i], e)
  <2>1. /\ currentTerm \in [Node -> Nat] /\ log \in [Node -> Seq(Entry)] /\ e \in Entry
    BY DEF TypeInv, DurableType, Entry
  <2>2. /\ log' = [log EXCEPT ![i] = l] /\ role[i] = "leader" /\ UNCHANGED <<role, currentTerm>>
        /\ client' = [op |-> "write", leader |-> i, index |-> Len(l), entry |-> e]
    BY <1>1 DEF ClientWrite, IsCurrentLeader
  <2>3. Len(l) = Len(log[i]) + 1 /\ l[Len(log[i]) + 1] = e /\ Len(log[i]) \in Nat
    <3> HIDE DEF e
    <3> QED BY <2>1, AppendProperties, LenProperties
  <2>4. /\ role'[i] = "leader" /\ client'.leader = i /\ client'.index = Len(log'[i])
        /\ Len(log'[i]) >= 1 /\ client'.entry = log'[i][Len(log'[i])]
        /\ client'.entry.term = currentTerm'[i]
    <3>1. log'[i] = l
      BY <2>1, <2>2
    <3>2. e.term = currentTerm[i]
      OBVIOUS
    <3> HIDE DEF l, e
    <3> QED BY <2>2, <2>3, <3>1, <3>2
  <2> QED BY <2>4 DEF ClientStep
<1>2. ASSUME NEW i \in Node, ReadStart(i) PROVE ClientStep
  BY <1>2 DEF ReadStart, ClientStep
<1>3. ASSUME NEW i \in Node,
             Timeout(i) \/ Heartbeat(i) \/ Crash(i) \/ Restart(i) \/ Isolate(i) \/ Heal(i)
      PROVE  ClientStep
  BY <1>3 DEF Timeout, Heartbeat, Crash, Restart, Isolate, Heal, ClientStep, clientVars
<1>4. CASE WriteAccepted \/ WriteUnknown \/ ReadAnswered \/ ReadFailed
  BY <1>4 DEF WriteAccepted, WriteUnknown, ReadAnswered, ReadFailed, ReadEnd, ClientStep, Idle
<1>5. CASE Deliver \/ Discard \/ UNCHANGED vars
  BY <1>5 DEF Deliver, Discard, vars, clientVars, ClientStep
<1> QED BY <1>1, <1>2, <1>3, <1>4, <1>5 DEF Next

----------------------------------------------------------------------------
(* What an acknowledgement pins *)

\* v has told L, the leader of its term, that it holds L's log up to K.
AckedAt(v, L, K) ==
  \/ matchIndex[L][v] = K
  \/ \E m \in Acks : m.src = v /\ m.dst = L /\ m.term = currentTerm[L] /\ m.match = K

\* The log l is at least as up to date as one that ends at K with term T.
AtLeast(l, T, K) == LastTerm(l) > T \/ (LastTerm(l) = T /\ Len(l) >= K)

\* v's log has term T at K, or has something later.
Recent(v, T, K) == TermAt(log[v], K) = T \/ LastTerm(log[v]) > T

\* Every candidate of a later term that v votes for has a log to match.
Bound(v, T, K) ==
  \A c \in Node :
    role[c] = "candidate" /\ currentTerm[c] > T /\ Claim(v, currentTerm[c], c)
      => AtLeast(log[c], T, K)

Pinned(v, T, K) ==
  /\ currentTerm[v] >= T /\ (currentTerm[v] = T => TermAt(log[v], K) = T)
  /\ Recent(v, T, K) /\ Bound(v, T, K)

AckInv ==
  \A L, v \in Node : \A K \in Nat : role[L] = "leader" /\ K >= 1 /\ AckedAt(v, L, K) =>
    TermAt(log[L], K) = currentTerm[L] /\ Pinned(v, currentTerm[L], K)

\* An acknowledgement was sent to the winner of its term.
AcksSeen == \A m \in Acks : LeaderSeen(m.term, m.dst)

SelfMatch == \A L \in Node : role[L] = "leader" => matchIndex[L][L] = Len(log[L])

\* A vote request describes its candidate's log, a grant is not ahead of its candidate.
RequestInv ==
  \A m \in InFlight(queue) : m.type = "RequestVote" =>
    /\ currentTerm[m.src] >= m.term
    /\ currentTerm[m.src] = m.term /\ role[m.src] = "candidate" =>
         m.lastIndex = Len(log[m.src]) /\ m.lastTerm = LastTerm(log[m.src])

GrantInv ==
  \A m \in InFlight(queue) : m.type = "VoteResponse" /\ m.granted =>
    currentTerm[m.dst] >= m.term

AckSide == AckInv /\ AcksSeen /\ SelfMatch /\ RequestInv /\ GrantInv

\* What the proofs below know of a step.
CommitStep == GoodStep /\ VoteInv' /\ VotesStep /\ LogInv /\ LogInv'

\* Every step from a state with the logs' invariant is such a step.
LEMMA CommitSteps ==
  TypeInv /\ VoteInv /\ LogInv /\ [Next]_vars => CommitStep
BY GoodSteps, LogInvStep, VotesStepHolds DEF CommitStep, LogInv

\* A positive term is the term of an entry.
LEMMA TermAtIndex ==
  ASSUME NEW l \in Seq(Entry), NEW K \in Nat, NEW T \in Nat, T >= 1, TermAt(l, K) = T
  PROVE  K \in 1..Len(l) /\ l[K].term = T
BY LenProperties DEF TermAt

\* A log with term T at K is at least as up to date as that.
LEMMA HeldIsAtLeast ==
  ASSUME NEW S, Rising(S), NEW l \in Seq(Entry), Links(l) \subseteq S,
         NEW K \in Nat, NEW T \in Nat, T >= 1, TermAt(l, K) = T
  PROVE  AtLeast(l, T, K)
<1>1. K \in 1..Len(l) /\ l[K].term = T
  BY TermAtIndex
<1>2. Len(l) \in 1..Len(l) /\ K <= Len(l) /\ DOMAIN l = 1..Len(l) /\ l[Len(l)].term \in Nat
  BY <1>1, EntriesOfSeq
<1>3. l[K].term <= l[Len(l)].term
  BY <1>1, <1>2, LogsRise
<1> QED BY <1>1, <1>2, <1>3 DEF AtLeast, LastTerm, TermAt

\* The messages of votes and acknowledgements, by their type.
LEMMA VoteFields ==
  ASSUME TypeInv, NEW m \in InFlight(queue)
  PROVE  /\ m.src \in Node /\ m.dst \in Node /\ m.term \in Nat
         /\ m.type = "RequestVote" => m.lastIndex \in Nat /\ m.lastTerm \in Nat
         /\ m.type = "AppendResponse" => m.match \in Nat
<1>1. m \in SoundMessage
  BY ElementOfSeq, LenProperties DEF InFlight, TypeInv, QueueType
<1> QED BY <1>1 DEF SoundMessage, Message

\* The links of a node's log are among all links, and its last term is known.
LEMMA LogLinks ==
  ASSUME TypeInv, LogInv, NEW v \in Node
  PROVE  /\ log[v] \in Seq(Entry) /\ Links(log[v]) \subseteq AllLinks
         /\ Rising(AllLinks) /\ Unique(AllLinks) /\ OneRun(AllLinks)
         /\ LastTerm(log[v]) \in Nat /\ LastTerm(log[v]) <= currentTerm[v]
         /\ currentTerm[v] \in Nat
<1>1. log[v] \in Seq(Entry) /\ currentTerm[v] \in Nat
  BY DEF TypeInv, DurableType
<1>2. Links(log[v]) \subseteq AllLinks
  BY DEF AllLinks
<1>3. Len(log[v]) \in Nat /\ DOMAIN log[v] = 1..Len(log[v])
      /\ \A k \in 1..Len(log[v]) : log[v][k].term \in Nat /\ log[v][k].term <= currentTerm[v]
  BY <1>1, EntriesOfSeq DEF LogInv, TermsBounded
<1>4. LastTerm(log[v]) \in Nat /\ LastTerm(log[v]) <= currentTerm[v]
  BY <1>1, <1>3 DEF LastTerm, TermAt
<1> QED BY <1>1, <1>2, <1>4 DEF LogInv, LinksInv

\* A vote given after the acknowledgement goes to a candidate with a log to match.
LEMMA BoundStep ==
  ASSUME CommitStep, RequestInv, GrantInv, NEW v \in Node,
         NEW T \in Nat, T >= 1, NEW K \in Nat, Recent(v, T, K), Bound(v, T, K)
  PROVE  Bound(v, T, K)'
<1> USE DEF CommitStep
<1> SUFFICES ASSUME NEW c \in Node, role'[c] = "candidate",
                    NEW t \in Nat, t = currentTerm'[c], t > T, Claim(v, t, c)'
             PROVE  AtLeast(log'[c], T, K)
  BY StepTypes DEF Bound, Claim, HeldVote, SentVote
<1>0. TypeInv /\ currentTerm[c] \in Nat /\ currentTerm'[c] \in Nat /\ currentTerm'[c] >= currentTerm[c]
  BY StepTypes DEF GoodStep
<1>1. /\ log'[c] = log[c]
      /\ \/ role[c] = "candidate" /\ currentTerm'[c] = currentTerm[c]
         \/ currentTerm'[c] = currentTerm[c] + 1
  BY DEF GoodStep, Summary, RolesStep
<1>2. AtLeast(log[v], T, K)
  <2>1. CASE TermAt(log[v], K) = T
    BY <1>0, <2>1, LogLinks, HeldIsAtLeast
  <2>2. CASE LastTerm(log[v]) > T
    BY <2>2 DEF AtLeast
  <2> QED BY <2>1, <2>2 DEF Recent
<1>3. CASE Claim(v, t, c)
  <2>1. CASE role[c] = "candidate" /\ currentTerm'[c] = currentTerm[c]
    BY <1>1, <1>3, <2>1 DEF Bound
  <2>2. CASE currentTerm'[c] = currentTerm[c] + 1
    <3>1. SentVote(v, t, c)
      BY <1>0, <1>3, <2>2 DEF Claim, HeldVote
    <3> QED BY <1>0, <2>2, <3>1 DEF SentVote, GrantInv
  <2> QED BY <1>1, <2>1, <2>2
<1>4. CASE v = c
  BY <1>1, <1>2, <1>4
<1>5. ASSUME NEW m \in InFlight(queue'), Fresh(m), m.type = "VoteResponse", m.granted,
             m.src = v, m.dst = c, m.term = t
      PROVE  AtLeast(log'[c], T, K)
  <2>1. PICK r \in InFlight(queue) :
          /\ r.type = "RequestVote" /\ r.src = c /\ r.dst = v /\ r.term = t
          /\ UpToDate(r, log[v])
    BY <1>5 DEF Fresh, FreshGrant
  <2>2. currentTerm[c] >= currentTerm'[c]
    BY <2>1 DEF RequestInv
  <2>3. currentTerm[c] = currentTerm'[c] /\ role[c] = "candidate"
    BY <1>0, <1>1, <2>2
  <2>4. r.lastIndex = Len(log[c]) /\ r.lastTerm = LastTerm(log[c])
    BY <2>1, <2>3 DEF RequestInv
  <2>5. /\ Len(log[c]) \in Nat /\ Len(log[v]) \in Nat
        /\ LastTerm(log[c]) \in Nat /\ LastTerm(log[v]) \in Nat
    BY <1>0, LogLinks, LenProperties
  <2> QED BY <1>1, <1>2, <2>1, <2>4, <2>5 DEF UpToDate, AtLeast
<1>6. CASE HeldVote(v, t, c)'
  BY <1>3, <1>4, <1>6 DEF HeldVote, VotesStep
<1>7. CASE SentVote(v, t, c)'
  <2>1. PICK m \in InFlight(queue') :
          m.type = "VoteResponse" /\ m.granted /\ m.src = v /\ m.dst = c /\ m.term = t
    BY <1>7 DEF SentVote
  <2>2. CASE m \in InFlight(queue)
    <3>1. SentVote(v, t, c)
      BY <2>1, <2>2 DEF SentVote
    <3> QED BY <1>3, <3>1 DEF Claim
  <2> QED BY <1>5, <2>1, <2>2 DEF GoodStep, Summary, MessagesStep
<1> QED BY <1>6, <1>7 DEF Claim

\* The last entry of a log.
LEMMA LastEntry ==
  ASSUME NEW l \in Seq(Entry), Len(l) >= 1
  PROVE  Len(l) \in 1..Len(l) /\ l[Len(l)].term = LastTerm(l) /\ LastTerm(l) \in Nat
<1>1. Len(l) \in Nat /\ DOMAIN l = 1..Len(l) /\ \A k \in 1..Len(l) : l[k].term \in Nat
  BY EntriesOfSeq
<1> QED BY <1>1 DEF LastTerm, TermAt

\* Two logs that end with, or hold, one term agree as far as both go.
LEMMA OneTermAgrees ==
  ASSUME NEW S, Unique(S), OneRun(S), NEW l \in Seq(Entry), NEW d \in Seq(Entry),
         Links(l) \subseteq S, Links(d) \subseteq S, Len(d) >= 1,
         NEW T \in Nat, T >= 1, LastTerm(d) = T,
         NEW K \in Nat, TermAt(l, K) = T, Len(d) <= K
  PROVE  Len(d) \in 1..Len(l) /\ \A j \in 1..Len(d) : l[j] = d[j]
<1>1. K \in 1..Len(l) /\ l[K].term = T /\ Len(l) \in Nat
  BY TermAtIndex, LenProperties
<1>2. Len(d) \in 1..Len(d) /\ d[Len(d)].term = T
  BY LastEntry
<1> DEFINE b == [index |-> Len(d), entry |-> d[Len(d)], after |-> TermAt(d, Len(d) - 1)]
<1>3. b \in S
  BY <1>2, LinkAt
<1>4. b.index = Len(d) /\ b.entry.term = T /\ Len(d) \in Nat
  BY <1>2, LenProperties
<1> HIDE DEF b
<1>5. l[Len(d)].term = T
  BY <1>1, <1>2, <1>3, <1>4, RunReaches
<1>6. Len(d) \in 1..Len(l)
  BY <1>1, <1>2, <1>4
<1> QED BY <1>2, <1>5, <1>6, LogsAgree

\* A merge does not take away term T at K, if what it brings ends with T, or
\* with something later while T at K is safe.
LEMMA MergeKeeps ==
  ASSUME NEW S, Unique(S), OneRun(S), NEW l \in Seq(Entry), NEW d \in Seq(Entry),
         Links(l) \subseteq S, Links(d) \subseteq S, Len(d) >= 1, ~Covers(l, d),
         NEW T \in Nat, T >= 1, NEW K \in Nat, TermAt(l, K) = T,
         LastTerm(d) = T \/ (LastTerm(d) > T /\ SafeIn(S, T, K))
  PROVE  TermAt(d, K) = T
<1>1. K \in 1..Len(l) /\ l[K].term = T /\ Len(l) \in Nat /\ Len(d) \in Nat /\ DOMAIN d = 1..Len(d)
  BY TermAtIndex, LenProperties
<1> DEFINE a == [index |-> K, entry |-> l[K], after |-> TermAt(l, K - 1)]
<1>2. a \in S /\ a.index = K /\ a.entry.term = T
  BY <1>1, LinkAt
<1> HIDE DEF a
<1>3. Len(d) \in 1..Len(d) /\ d[Len(d)].term = LastTerm(d)
  BY LastEntry
<1>4. CASE LastTerm(d) > T /\ SafeIn(S, T, K)
  <2>1. K \in 1..Len(d) /\ d[K].term = T
    BY <1>1, <1>2, <1>3, <1>4, SafeReaches
  <2> QED BY <1>1, <2>1 DEF TermAt
<1>5. CASE LastTerm(d) = T /\ K <= Len(d)
  <2>1. d[K].term = T
    BY <1>1, <1>2, <1>3, <1>5, RunReaches
  <2> QED BY <1>1, <1>5, <2>1 DEF TermAt
<1>6. CASE LastTerm(d) = T /\ K > Len(d)
  <2>1. Len(d) \in 1..Len(l) /\ \A j \in 1..Len(d) : l[j] = d[j]
    BY <1>1, <1>6, OneTermAgrees
  <2> QED BY <1>1, <2>1 DEF Covers
<1> QED BY <1>1, <1>4, <1>5, <1>6

\* So following a leader does not.
LEMMA FollowsKeeps ==
  ASSUME GoodStep, LogInv, NEW v \in Node, NEW m \in Appends, Follows(v, m),
         NEW T \in Nat, T >= 1, NEW K \in Nat, TermAt(log[v], K) = T,
         m.term = T \/ (m.term > T /\ SafeIn(AllLinks, T, K))
  PROVE  TermAt(log'[v], K) = T
<1>1. PICK l, d : l = log[v] /\ d = Described(v, m)
  OBVIOUS
<1>2. /\ d \in Seq(Entry) /\ Len(d) >= 1 /\ LastTerm(d) = m.term
      /\ Links(l) \subseteq AllLinks /\ Links(d) \subseteq AllLinks
      /\ log'[v] = IF Covers(l, d) THEN l ELSE d
  BY <1>1, FollowsResult
<1>3. l \in Seq(Entry) /\ Unique(AllLinks) /\ OneRun(AllLinks)
  BY <1>1, LogLinks DEF GoodStep
<1>4. CASE Covers(l, d)
  BY <1>1, <1>2, <1>4
<1>5. CASE ~Covers(l, d)
  <2>1. TermAt(d, K) = T
    BY <1>1, <1>2, <1>3, <1>5, MergeKeeps
  <2> QED BY <1>2, <1>5, <2>1
<1> QED BY <1>4, <1>5

\* A new entry takes nothing away.
LEMMA GrewKeeps ==
  ASSUME GoodStep, NEW v \in Node, Grew(v),
         NEW T \in Nat, T >= 1, NEW K \in Nat, TermAt(log[v], K) = T
  PROVE  TermAt(log'[v], K) = T
<1>1. log[v] \in Seq(Entry) /\ log'[v] \in Seq(Entry)
  BY StepTypes
<1>2. K \in 1..Len(log[v]) /\ log[v][K].term = T
  BY <1>1, TermAtIndex
<1>3. /\ Len(log'[v]) = Len(log[v]) + 1 /\ Len(log[v]) \in Nat
      /\ \A k \in 1..Len(log[v]) : log'[v][k] = log[v][k]
  BY GrewLinks
<1> QED BY <1>1, <1>2, <1>3, LenProperties DEF TermAt

\* What is pinned stays pinned.
LEMMA PinnedStep ==
  ASSUME CommitStep, RequestInv, GrantInv, NEW v \in Node,
         NEW T \in Nat, T >= 1, NEW K \in Nat, Pinned(v, T, K)
  PROVE  Pinned(v, T, K)'
<1> USE DEF CommitStep
<1>0. /\ currentTerm[v] \in Nat /\ currentTerm'[v] \in Nat /\ currentTerm'[v] >= currentTerm[v]
      /\ log[v] \in Seq(Entry) /\ log'[v] \in Seq(Entry)
      /\ LastTerm(log[v]) <= currentTerm[v] /\ LastTerm(log[v]) \in Nat
  BY StepTypes, LogLinks DEF GoodStep
<1>1. Bound(v, T, K)'
  BY BoundStep DEF Pinned
<1>2. CASE log'[v] = log[v]
  BY <1>0, <1>1, <1>2 DEF Pinned, Recent
<1>3. CASE Grew(v)
  <2>1. currentTerm'[v] = currentTerm[v] /\ LastTerm(log'[v]) = currentTerm[v]
    BY <1>3, GrewLinks DEF Grew
  <2>2. TermAt(log[v], K) = T => TermAt(log'[v], K) = T
    BY <1>3, GrewKeeps
  <2> QED BY <1>0, <1>1, <2>1, <2>2 DEF Pinned, Recent
<1>4. ASSUME NEW m \in Appends, Follows(v, m) PROVE Pinned(v, T, K)'
  <2>1. m.term \in Nat /\ m.term >= currentTerm[v] /\ currentTerm'[v] = m.term
    BY <1>4, AppendFields DEF Follows, GoodStep
  <2>2. CASE m.term = T
    <3>1. TermAt(log[v], K) = T
      BY <1>0, <2>1, <2>2 DEF Pinned
    <3>2. TermAt(log'[v], K) = T
      BY <1>4, <2>2, <3>1, FollowsKeeps
    <3> QED BY <1>0, <1>1, <2>1, <2>2, <3>2 DEF Pinned, Recent
  <2>3. CASE m.term > T
    <3>1. log'[v] = log[v] \/ LastTerm(log'[v]) = m.term
      BY <1>4, FollowsResult
    <3> QED BY <1>0, <1>1, <1>2, <2>1, <2>3, <3>1 DEF Pinned, Recent
  <2> QED BY <1>0, <2>1, <2>2, <2>3 DEF Pinned
<1> QED BY <1>2, <1>3, <1>4 DEF GoodStep, Summary, LogsStep

\* An acknowledgement after a step: an old one, or the one of a follower's merge.
LEMMA AcksStep ==
  ASSUME GoodStep, NEW m \in Acks'
  PROVE  /\ m.src \in Node /\ m.dst \in Node /\ m.term \in Nat /\ m.match \in Nat
         /\ m \in Acks \/ (m.src # m.dst /\ FreshAck(m))
<1>1. m \in InFlight(queue') /\ m.type = "AppendResponse" /\ m.success
  BY DEF Acks
<1>2. m.src \in Node /\ m.dst \in Node /\ m.term \in Nat /\ m.match \in Nat
  <2>1. queue' \in Seq(Message)
    BY DEF GoodStep, TypeInv, QueueType
  <2>2. m \in Message
    BY <1>1, <2>1, ElementOfSeq, LenProperties DEF InFlight
  <2> QED BY <1>1, <2>2 DEF Message
<1>3. CASE m \in InFlight(queue)
  BY <1>1, <1>2, <1>3 DEF Acks
<1>4. CASE Fresh(m)
  BY <1>1, <1>2, <1>4 DEF Fresh
<1> QED BY <1>1, <1>3, <1>4 DEF GoodStep, Summary, MessagesStep

\* A leader was the leader of its term, or has just won it.
LEMMA LeaderBefore ==
  ASSUME GoodStep, NEW L \in Node, role'[L] = "leader"
  PROVE  /\ currentTerm'[L] = currentTerm[L] /\ role[L] \in {"leader", "candidate"}
         /\ \/ role[L] = "leader" /\ log'[L] = log[L]
            \/ Grew(L)
BY DEF GoodStep, Summary, RolesStep, Grew

\* AcksSeen is kept: a fresh acknowledgement answers an append of a leader.
LEMMA AcksSeenStep ==
  ASSUME CommitStep, AcksSeen
  PROVE  AcksSeen'
<1> USE DEF CommitStep
<1> SUFFICES ASSUME NEW m \in Acks', NEW t \in Nat, t = m.term, NEW c \in Node, c = m.dst
             PROVE  LeaderSeen(t, c)'
  BY AcksStep DEF AcksSeen
<1>1. CASE m \in Acks
  BY <1>1, LeaderSeenKept DEF AcksSeen, GoodStep, Summary
<1>2. CASE FreshAck(m)
  <2>1. LeaderSeen(t, c)
    BY <1>2 DEF FreshAck, LogInv, AppendsInv
  <2> QED BY <2>1, LeaderSeenKept DEF GoodStep, Summary
<1> QED BY <1>1, <1>2, AcksStep

\* SelfMatch is kept.
LEMMA SelfMatchStep ==
  ASSUME CommitStep, SelfMatch
  PROVE  SelfMatch'
<1> USE DEF CommitStep
<1> SUFFICES ASSUME NEW L \in Node, role'[L] = "leader"
             PROVE  matchIndex'[L][L] = Len(log'[L])
  BY DEF SelfMatch
<1>1. \A m \in Acks : m.src # m.dst
  BY DEF Acks, LogInv, PeersInv
<1> QED BY <1>1 DEF GoodStep, Summary, MatchStep, SelfMatch

\* RequestInv is kept: a vote request describes the log its candidate still has.
LEMMA RequestInvStep ==
  ASSUME CommitStep, RequestInv
  PROVE  RequestInv'
<1> USE DEF CommitStep
<1> SUFFICES ASSUME NEW m \in InFlight(queue'), m.type = "RequestVote"
             PROVE  /\ currentTerm'[m.src] >= m.term
                    /\ currentTerm'[m.src] = m.term /\ role'[m.src] = "candidate" =>
                         m.lastIndex = Len(log'[m.src]) /\ m.lastTerm = LastTerm(log'[m.src])
  BY DEF RequestInv
<1>1. CASE m \in InFlight(queue)
  <2>1. m.src \in Node /\ m.term \in Nat
    BY <1>1, VoteFields DEF GoodStep
  <2>2. PICK c \in Node : c = m.src
    BY <2>1
  <2>3. /\ currentTerm[c] \in Nat /\ currentTerm'[c] \in Nat /\ currentTerm'[c] >= currentTerm[c]
    BY StepTypes
  <2>4. role'[c] = "candidate" =>
          /\ log'[c] = log[c]
          /\ \/ role[c] = "candidate" /\ currentTerm'[c] = currentTerm[c]
             \/ currentTerm'[c] = currentTerm[c] + 1
    BY DEF GoodStep, Summary, RolesStep
  <2> QED BY <1>1, <2>1, <2>2, <2>3, <2>4 DEF RequestInv
<1>2. CASE Fresh(m)
  <2>1. m.src \in Node /\ m.term \in Nat
    <3>1. queue' \in Seq(Message)
      BY DEF GoodStep, TypeInv, QueueType
    <3>2. m \in Message
      BY <3>1, ElementOfSeq, LenProperties DEF InFlight
    <3> QED BY <3>2 DEF Message
  <2> QED BY <1>2, <2>1 DEF Fresh, FreshRequest
<1> QED BY <1>1, <1>2 DEF GoodStep, Summary, MessagesStep

\* GrantInv is kept.
LEMMA GrantInvStep ==
  ASSUME CommitStep, GrantInv, RequestInv
  PROVE  GrantInv'
<1> USE DEF CommitStep
<1> SUFFICES ASSUME NEW m \in InFlight(queue'), m.type = "VoteResponse", m.granted
             PROVE  currentTerm'[m.dst] >= m.term
  BY DEF GrantInv
<1>1. m.dst \in Node /\ m.term \in Nat
  <2>1. queue' \in Seq(Message)
    BY DEF GoodStep, TypeInv, QueueType
  <2>2. m \in Message
    BY <2>1, ElementOfSeq, LenProperties DEF InFlight
  <2> QED BY <2>2 DEF Message
<1>2. PICK c \in Node : c = m.dst
  BY <1>1
<1>3. currentTerm[c] \in Nat /\ currentTerm'[c] \in Nat /\ currentTerm'[c] >= currentTerm[c]
  BY StepTypes
<1>4. currentTerm[c] >= m.term
  <2>1. CASE m \in InFlight(queue)
    BY <1>2, <2>1 DEF GrantInv
  <2>2. CASE Fresh(m)
    BY <1>2, <2>2 DEF Fresh, FreshGrant, RequestInv
  <2> QED BY <2>1, <2>2 DEF GoodStep, Summary, MessagesStep
<1> QED BY <1>1, <1>2, <1>3, <1>4

\* Where an acknowledgement that a leader may count comes from.
LEMMA AckedAtStep ==
  ASSUME CommitStep, AcksSeen, NEW L \in Node, NEW v \in Node, NEW K \in Nat, K >= 1,
         role'[L] = "leader", AckedAt(v, L, K)'
  PROVE  \/ role[L] = "leader" /\ AckedAt(v, L, K)
         \/ v = L /\ K = Len(log'[L])
         \/ /\ role[L] = "leader" /\ v # L
            /\ \E a \in Appends : /\ Follows(v, a) /\ a.src = L /\ a.term = currentTerm'[L]
                                  /\ K = a.prevIndex + Len(a.entries)
<1> USE DEF CommitStep
<1>0. /\ currentTerm'[L] = currentTerm[L] /\ role[L] \in {"leader", "candidate"}
      /\ currentTerm[L] \in Nat
  BY LeaderBefore, StepTypes
<1>1. ASSUME LeaderSeen(currentTerm[L], L) PROVE role[L] = "leader"
  BY <1>0, <1>1 DEF LeaderSeen
<1>2. CASE matchIndex'[L][v] = K
  BY <1>0, <1>2 DEF GoodStep, Summary, MatchStep, AckedAt
<1>3. ASSUME NEW m \in Acks', m.src = v, m.dst = L, m.term = currentTerm'[L], m.match = K
      PROVE  \/ role[L] = "leader" /\ AckedAt(v, L, K)
             \/ /\ role[L] = "leader" /\ v # L
                /\ \E a \in Appends : /\ Follows(v, a) /\ a.src = L /\ a.term = currentTerm'[L]
                                      /\ K = a.prevIndex + Len(a.entries)
  <2>1. CASE m \in Acks
    <3>1. LeaderSeen(currentTerm[L], L)
      BY <1>0, <1>3, <2>1 DEF AcksSeen
    <3> QED BY <1>0, <1>1, <1>3, <2>1, <3>1 DEF AckedAt
  <2>2. CASE m.src # m.dst /\ FreshAck(m)
    <3>1. PICK a \in Appends : /\ Follows(v, a) /\ a.src = L /\ a.term = currentTerm[L]
                               /\ K = a.prevIndex + Len(a.entries)
      BY <1>0, <1>3, <2>2 DEF FreshAck
    <3>2. LeaderSeen(currentTerm[L], L)
      BY <3>1 DEF LogInv, AppendsInv
    <3> QED BY <1>0, <1>1, <1>3, <2>2, <3>1, <3>2
  <2> QED BY <2>1, <2>2, AcksStep
<1> QED BY <1>2, <1>3 DEF AckedAt

\* A node of term T has not yet voted in a later one.
LEMMA BoundNow ==
  ASSUME CommitStep, NEW v \in Node, NEW T \in Nat, NEW K \in Nat, currentTerm'[v] = T
  PROVE  Bound(v, T, K)'
<1> USE DEF CommitStep
<1> SUFFICES ASSUME NEW c \in Node, NEW t \in Nat, t = currentTerm'[c], t > T, Claim(v, t, c)'
             PROVE  FALSE
  BY StepTypes DEF Bound, Claim, HeldVote, SentVote
<1>1. VotedIn(v, t, c)'
  BY DEF VoteInv
<1> QED BY <1>1 DEF VotedIn

\* AckInv is kept.
LEMMA AckInvStep ==
  ASSUME CommitStep, AckSide
  PROVE  AckInv'
<1> USE DEF CommitStep
<1> SUFFICES ASSUME NEW L \in Node, NEW v \in Node, NEW K \in Nat, K >= 1,
                    role'[L] = "leader", AckedAt(v, L, K)', NEW T \in Nat, T = currentTerm'[L]
             PROVE  TermAt(log'[L], K) = T /\ Pinned(v, T, K)'
  BY StepTypes DEF AckInv, Pinned, Recent, Bound
<1>0. /\ currentTerm[L] = T /\ T >= 1
      /\ \/ role[L] = "leader" /\ log'[L] = log[L]
         \/ Grew(L)
      /\ log'[L] \in Seq(Entry) /\ log'[v] \in Seq(Entry) /\ Len(log'[L]) \in Nat
  BY LeaderBefore, StepTypes, LenProperties DEF LogInv, TermsBounded
<1>1. ASSUME TermAt(log[L], K) = T PROVE TermAt(log'[L], K) = T
  BY <1>0, <1>1, GrewKeeps
<1>2. CASE role[L] = "leader" /\ AckedAt(v, L, K)
  <2>1. TermAt(log[L], K) = T /\ Pinned(v, T, K)
    BY <1>0, <1>2 DEF AckSide, AckInv
  <2> QED BY <1>0, <1>1, <2>1, PinnedStep DEF AckSide
<1>3. CASE v = L /\ K = Len(log'[L])
  <2>1. TermAt(log'[L], K) = T
    BY <1>3 DEF LogInv, Owned, LastTerm
  <2>2. Bound(v, T, K)'
    BY <1>3, BoundNow
  <2> QED BY <1>3, <2>1, <2>2 DEF Pinned, Recent
<1>4. ASSUME role[L] = "leader", NEW a \in Appends, Follows(v, a), a.src = L, a.term = T,
             K = a.prevIndex + Len(a.entries)
      PROVE  TermAt(log'[L], K) = T /\ Pinned(v, T, K)'
  <2>1. PICK l, d : l = log[v] /\ d = Described(v, a)
    OBVIOUS
  <2>2. /\ d \in Seq(Entry) /\ Len(d) = K /\ LastTerm(d) = T
        /\ Links(d) \subseteq AllLinks
        /\ log'[v] = IF Covers(l, d) THEN l ELSE d
    BY <1>4, <2>1, FollowsResult
  <2>3. K \in 1..K /\ d[K].term = T /\ l \in Seq(Entry)
    BY <2>1, <2>2, LastEntry, StepTypes
  <2>4. TermAt(log'[v], K) = T
    <3>1. CASE Covers(l, d)
      <4>1. l[K].term = T /\ K \in 1..Len(l)
        BY <2>2, <2>3, <3>1, LenProperties DEF Covers
      <4> QED BY <2>2, <2>3, <3>1, <4>1, LenProperties DEF TermAt
    <3>2. CASE ~Covers(l, d)
      BY <2>2, <3>2 DEF LastTerm
    <3> QED BY <3>1, <3>2
  <2>5. TermAt(log'[L], K) = T
    <3> DEFINE b == [index |-> K, entry |-> d[K], after |-> TermAt(d, K - 1)]
    <3>1. b \in AllLinks /\ b.entry.term = T /\ b.index = K
      BY <2>2, <2>3, LinkAt
    <3> HIDE DEF b
    <3>2. b \in Links(log[L])
      BY <1>0, <1>4, <3>1 DEF LogInv, Owned
    <3>3. TermAt(log[L], K) = T
      BY <3>1, <3>2 DEF Links, TermAt
    <3> QED BY <1>1, <3>3
  <2>6. currentTerm'[v] = T
    BY <1>4 DEF Follows
  <2> QED BY <2>4, <2>5, <2>6, BoundNow DEF Pinned, Recent
<1> QED BY <1>0, <1>2, <1>3, <1>4, AckedAtStep DEF AckSide

\* AckSide is kept.
LEMMA AckSideStep ==
  ASSUME CommitStep, AckSide
  PROVE  AckSide'
BY AckInvStep, AcksSeenStep, SelfMatchStep, RequestInvStep, GrantInvStep DEF AckSide

----------------------------------------------------------------------------
(* What is safe to commit *)

\* More nodes than a quorum are a quorum.
LEMMA QuorumGrows ==
  ASSUME NEW S, NEW R \in SUBSET Node, S \subseteq R, IsQuorum(S)
  PROVE  IsQuorum(R)
<1>1. IsFiniteSet(R) /\ IsFiniteSet(S)
  BY NodeIsFinite, FS_Subset
<1>2. Cardinality(S) <= Cardinality(R) /\ Cardinality(S) \in Nat /\ Cardinality(R) \in Nat
  BY <1>1, FS_Subset, FS_CardinalityType
<1>3. N \div 2 \in Int
  BY RaftAssumption
<1> QED BY <1>2, <1>3 DEF IsQuorum

Safe(T, K) == SafeIn(AllLinks, T, K)

\* L may still come to count a quorum at k: so many have acknowledged k, or
\* have not moved on to a later term.
Choosable(L, k) ==
  IsQuorum({v \in Node : \/ currentTerm[v] <= currentTerm[L]
                         \/ \E K \in Nat : K >= k /\ AckedAt(v, L, K)})

SafeLeader ==
  \A L \in Node : role[L] = "leader" =>
    \A k \in 1..Len(log[L]) :
      log[L][k].term = currentTerm[L] /\ Choosable(L, k) => Safe(currentTerm[L], k)

\* What is safe stays so if every new leader's log is up to date with it.
LEMMA SafeStep ==
  ASSUME CommitStep, NEW w \in Node, NEW T \in Nat, T >= 1, NEW K \in Nat,
         TermAt(log[w], K) = T, Safe(T, K),
         \A j \in Node : Grew(j) /\ role[j] = "candidate" /\ currentTerm[j] > T =>
           AtLeast(log[j], T, K)
  PROVE  Safe(T, K)'
<1> USE DEF CommitStep
<1> SUFFICES ASSUME NEW a \in AllLinks', a.entry.term > T
             PROVE  a.index > K /\ a.after >= T /\ (a.index = K + 1 => a.after = T)
  BY DEF Safe, SafeIn
<1>1. CASE a \in AllLinks
  BY <1>1 DEF Safe, SafeIn
<1>2. ASSUME NEW j \in Node, Grew(j), a = NewLink(j)
      PROVE  a.index > K /\ a.after >= T /\ (a.index = K + 1 => a.after = T)
  <2>1. /\ a.index = Len(log[j]) + 1 /\ Len(log[j]) \in Nat /\ a.after = LastTerm(log[j])
        /\ currentTerm[j] > T
    BY <1>2, GrewLinks DEF GoodStep
  <2>2. /\ log[j] \in Seq(Entry) /\ Links(log[j]) \subseteq AllLinks /\ OneRun(AllLinks)
        /\ LastTerm(log[j]) \in Nat
    BY LogLinks DEF GoodStep
  <2>3. AtLeast(log[j], T, K)
    <3>1. CASE role[j] = "leader"
      BY <2>1, <3>1 DEF LogInv, Owned, AtLeast
    <3>2. CASE role[j] = "candidate"
      BY <1>2, <2>1, <3>2
    <3> QED BY <1>2, <3>1, <3>2, GrewRole
  <2>4. CASE LastTerm(log[j]) > T
    <3>1. Len(log[j]) >= 1
      BY <2>1, <2>2, <2>4, LenProperties DEF LastTerm, TermAt
    <3>2. Len(log[j]) \in 1..Len(log[j]) /\ log[j][Len(log[j])].term = LastTerm(log[j])
      BY <2>2, <3>1, LastEntry
    <3>3. /\ log[w] \in Seq(Entry) /\ Links(log[w]) \subseteq AllLinks
          /\ K \in 1..Len(log[w]) /\ log[w][K].term = T
      BY LogLinks, TermAtIndex DEF GoodStep
    <3> DEFINE b == [index |-> K, entry |-> log[w][K], after |-> TermAt(log[w], K - 1)]
    <3>4. b \in AllLinks /\ b.index = K /\ b.entry.term = T
      BY <3>3, LinkAt
    <3>5. SafeIn(AllLinks, T, K) /\ K >= 1
      BY <3>3 DEF Safe
    <3> HIDE DEF b
    <3>6. K \in 1..Len(log[j]) /\ log[j][K].term = T
      BY <2>2, <2>4, <3>2, <3>4, <3>5, SafeReaches
    <3>7. K # Len(log[j])
      BY <2>4, <3>2, <3>6
    <3> QED BY <2>1, <2>2, <2>4, <3>6, <3>7
  <2>5. CASE LastTerm(log[j]) = T /\ Len(log[j]) >= K
    BY <2>1, <2>5
  <2> QED BY <2>3, <2>4, <2>5 DEF AtLeast
<1> QED BY <1>1, <1>2, AllLinksStep

\* The voters of a new leader had claims of it before the step, and its term.
LEMMA ElectorsClaimed ==
  ASSUME CommitStep, NEW j \in Node, Grew(j)
  PROVE  \E Q \in SUBSET Node :
           /\ IsQuorum(Q)
           /\ \A v \in Q : Claim(v, currentTerm[j], j) /\ currentTerm'[v] >= currentTerm[j]
<1> USE DEF CommitStep
<1>1. role'[j] = "leader" /\ currentTerm'[j] = currentTerm[j] /\ currentTerm[j] \in Nat
  BY StepTypes DEF Grew
<1>2. votes'[j] \in SUBSET Node /\ IsQuorum(votes'[j])
  BY <1>1 DEF GoodStep, TypeInv, LeaderType, VoteInv
<1>3. ASSUME NEW v \in votes'[j]
      PROVE  Claim(v, currentTerm[j], j) /\ currentTerm'[v] >= currentTerm[j]
  <2>1. Claim(v, currentTerm[j], j)
    BY <1>1, <1>2 DEF VotesStep
  <2>2. PICK t \in Nat : t = currentTerm[j]
    BY <1>1
  <2>3. Claim(v, t, j)'
    BY <1>1, <2>2 DEF Claim, HeldVote
  <2>4. VotedIn(v, t, j)'
    BY <1>2, <2>3 DEF VoteInv
  <2>5. currentTerm'[v] \in Nat
    BY <1>2, StepTypes
  <2> QED BY <2>1, <2>2, <2>4, <2>5 DEF VotedIn
<1> QED BY <1>2, <1>3

\* An acknowledgement by a node that has moved on was there before.
LEMMA AckedBeyond ==
  ASSUME CommitStep, AckSide, NEW L \in Node, NEW v \in Node, NEW K \in Nat, K >= 1,
         role'[L] = "leader", AckedAt(v, L, K)', currentTerm'[v] > currentTerm'[L]
  PROVE  role[L] = "leader" /\ AckedAt(v, L, K)
<1>1. currentTerm'[v] \in Nat /\ currentTerm'[L] \in Nat
  BY StepTypes DEF CommitStep
<1> QED BY <1>1, AckedAtStep DEF AckSide, Follows

\* SafeLeader is kept.
LEMMA SafeLeaderStep ==
  ASSUME CommitStep, AckSide, SafeLeader
  PROVE  SafeLeader'
<1> USE DEF CommitStep
<1> SUFFICES ASSUME NEW L \in Node, role'[L] = "leader", NEW k \in 1..Len(log'[L]),
                    NEW T \in Nat, T = currentTerm'[L], log'[L][k].term = T, Choosable(L, k)'
             PROVE  Safe(T, k)'
  BY StepTypes DEF SafeLeader, Safe
<1> DEFINE W == {v \in Node : \/ currentTerm'[v] <= T
                              \/ \E K \in Nat : K >= k /\ AckedAt(v, L, K)'}
<1>0. /\ currentTerm[L] = T /\ T >= 1 /\ k \in Nat /\ k >= 1
      /\ log[L] \in Seq(Entry) /\ log'[L] \in Seq(Entry)
      /\ Len(log[L]) \in Nat /\ Len(log'[L]) \in Nat
      /\ IsQuorum(W) /\ W \in SUBSET Node
  BY LeaderBefore, StepTypes, LenProperties DEF LogInv, TermsBounded, Choosable
<1>1. ASSUME NEW v \in W, currentTerm'[v] > T
      PROVE  role[L] = "leader" /\ \E K \in Nat : K >= k /\ AckedAt(v, L, K)
  <2>1. v \in Node /\ currentTerm'[v] \in Nat
    BY StepTypes
  <2>2. PICK K \in Nat : K >= k /\ AckedAt(v, L, K)'
    BY <1>1, <2>1
  <2>3. role[L] = "leader" /\ AckedAt(v, L, K)
    BY <1>0, <1>1, <2>1, <2>2, AckedBeyond
  <2> QED BY <2>2, <2>3
<1> HIDE DEF W
<1>2. ASSUME NEW Q \in SUBSET Node, IsQuorum(Q), \A v \in Q : currentTerm'[v] > T
      PROVE  /\ role[L] = "leader"
             /\ \E v \in Q : \E K \in Nat : /\ K >= k /\ AckedAt(v, L, K)
                                            /\ TermAt(log[L], K) = T /\ Pinned(v, T, K)
  <2>1. PICK v \in Node : v \in Q /\ v \in W
    BY <1>0, <1>2, QuorumsMeet
  <2>2. role[L] = "leader" /\ \E K \in Nat : K >= k /\ AckedAt(v, L, K)
    BY <1>1, <1>2, <2>1
  <2>3. PICK K \in Nat : K >= k /\ AckedAt(v, L, K)
    BY <2>2
  <2>4. TermAt(log[L], K) = T /\ Pinned(v, T, K)
    BY <1>0, <2>1, <2>2, <2>3 DEF AckSide, AckInv
  <2> QED BY <2>1, <2>2, <2>3, <2>4
<1>3. CASE role[L] = "leader" /\ k \in 1..Len(log[L])
  <2>1. log[L][k].term = T
    <3>1. log'[L] = log[L] \/ Grew(L)
      BY LeaderBefore
    <3>2. log'[L][k] = log[L][k]
      BY <1>3, <3>1, GrewLinks
    <3> QED BY <3>2
  <2>2. Safe(T, k)
    <3> DEFINE R == {v \in Node : \/ currentTerm[v] <= T
                                  \/ \E K \in Nat : K >= k /\ AckedAt(v, L, K)}
    <3>1. W \subseteq R
      <4> SUFFICES ASSUME NEW v \in W PROVE v \in R
        OBVIOUS
      <4>1. v \in Node
        BY <1>0
      <4>2. /\ currentTerm[v] \in Nat /\ currentTerm'[v] \in Nat
            /\ currentTerm'[v] >= currentTerm[v]
        BY <4>1, StepTypes
      <4>3. CASE currentTerm'[v] > T
        BY <1>1, <4>1, <4>3
      <4>4. CASE currentTerm'[v] <= T
        BY <4>1, <4>2, <4>4
      <4> QED BY <4>2, <4>3, <4>4
    <3>2. IsQuorum(R)
      <4>1. R \in SUBSET Node
        OBVIOUS
      <4> HIDE DEF R
      <4> QED BY <1>0, <3>1, <4>1, QuorumGrows
    <3>3. Choosable(L, k)
      BY <1>0, <3>2 DEF Choosable
    <3> QED BY <1>0, <1>3, <2>1, <3>3 DEF SafeLeader
  <2>3. TermAt(log[L], k) = T
    BY <1>0, <1>3, <2>1, LenProperties DEF TermAt
  <2>4. ASSUME NEW j \in Node, Grew(j), role[j] = "candidate", currentTerm[j] > T
        PROVE  AtLeast(log[j], T, k)
    <3>0. currentTerm[j] \in Nat /\ log[j] \in Seq(Entry) /\ Len(log[j]) \in Nat
      BY StepTypes, LenProperties
    <3>1. PICK Q \in SUBSET Node :
            /\ IsQuorum(Q)
            /\ \A v \in Q : Claim(v, currentTerm[j], j) /\ currentTerm'[v] >= currentTerm[j]
      BY <2>4, ElectorsClaimed
    <3>2. \A v \in Q : currentTerm'[v] > T
      <4> SUFFICES ASSUME NEW v \in Q PROVE currentTerm'[v] > T
        OBVIOUS
      <4>1. currentTerm'[v] \in Nat
        BY StepTypes
      <4> QED BY <2>4, <3>0, <3>1, <4>1
    <3>3. PICK v \in Q, K \in Nat : K >= k /\ Pinned(v, T, K)
      BY <1>2, <3>1, <3>2
    <3>4. AtLeast(log[j], T, K)
      BY <2>4, <3>1, <3>3 DEF Pinned, Bound
    <3> QED BY <1>0, <3>0, <3>3, <3>4 DEF AtLeast
  <2> QED BY <1>0, <2>2, <2>3, <2>4, SafeStep
<1>4. CASE ~(role[L] = "leader" /\ k \in 1..Len(log[L]))
  <2>1. ASSUME NEW a \in AllLinks', a.entry.term > T PROVE FALSE
    <3>1. PICK t : t = a.entry.term
      OBVIOUS
    <3>2. PICK c \in Node : LeaderSeen(t, c)'
      BY <3>1 DEF LogInv, FromLeaders
    <3>3. PICK Q \in SUBSET Node : IsQuorum(Q) /\ \A v \in Q : Backed(v, t, c)'
      BY <3>2 DEF LeaderSeen, Elected
    <3>4. \A v \in Q : currentTerm'[v] > T
      <4> SUFFICES ASSUME NEW v \in Q PROVE currentTerm'[v] > T
        OBVIOUS
      <4>1. currentTerm'[v] \in Nat /\ VotedIn(v, t, c)'
        BY <3>3, StepTypes DEF Backed
      <4>2. t \in Nat
        <5>1. AllLinks' \subseteq StepLinks
          BY StepLinksSound
        <5>2. CASE a \in AllLinks
          BY <3>1, <5>2, AllLinksType DEF Link, Entry, GoodStep
        <5>3. ASSUME NEW j \in Node, Grew(j), a = NewLink(j) PROVE t \in Nat
          BY <3>1, <5>3, GrewLinks, StepTypes
        <5> QED BY <5>2, <5>3, AllLinksStep
      <4> QED BY <2>1, <3>1, <4>1, <4>2 DEF VotedIn
    <3>5. PICK K \in Nat : role[L] = "leader" /\ K >= k /\ TermAt(log[L], K) = T
      BY <1>2, <3>3, <3>4
    <3>6. K \in 1..Len(log[L])
      BY <1>0, <3>5, TermAtIndex
    <3>7. k \in 1..Len(log[L])
      BY <1>0, <3>5, <3>6
    <3> QED BY <1>4, <3>5, <3>7
  <2> QED BY <2>1 DEF Safe, SafeIn
<1> QED BY <1>3, <1>4

----------------------------------------------------------------------------
(* What is committed *)

\* v's log has term T at K, and so will every log that wins through v's vote.
Holds(v, T, K) == currentTerm[v] >= T /\ TermAt(log[v], K) = T /\ Bound(v, T, K)

\* A quorum holds term T at K for good.
Anchor(T, K) ==
  Safe(T, K) /\ \E Q \in SUBSET Node : IsQuorum(Q) /\ \A v \in Q : Holds(v, T, K)

\* The log l starts with the first k committed entries.
AgreesUpTo(l, k) ==
  k <= Len(l) /\ k <= Len(chosen) /\ \A j \in 1..k : l[j] = chosen[j].entry

\* The anchor of the first k committed entries.
SettledBy(T, K, k) ==
  /\ T >= 1 /\ k <= K /\ Anchor(T, K)
  /\ \A v \in Node : TermAt(log[v], K) = T => AgreesUpTo(log[v], k)

\* Every committed entry has an anchor of the term it was committed in.
ChosenInv ==
  \A k \in 1..Len(chosen) : \E T, K \in Nat : chosen[k].at = T /\ SettledBy(T, K, k)

\* An index is anchored at or above k, in a term up to t.
Anchored(k, t) == \E T, K \in Nat : T >= 1 /\ T <= t /\ k <= K /\ Anchor(T, K)

\* What a node has committed is committed, and no newer than its term.
CommitInv ==
  \A i \in Node :
    /\ AgreesUpTo(log[i], commitIndex[i])
    /\ commitIndex[i] >= 1 => Anchored(commitIndex[i], currentTerm[i])

\* So is what a leader tells its followers to commit, and they get it with it.
MsgCommit ==
  \A m \in Appends :
    /\ m.commit <= m.prevIndex + Len(m.entries) /\ m.commit <= Len(chosen)
    /\ m.commit >= 1 => Anchored(m.commit, m.term)

CommitsInv == AckSide /\ SafeLeader /\ ChosenInv /\ CommitInv /\ MsgCommit

\* The committed sequence, by its type.
LEMMA ChosenType ==
  ASSUME TypeInv
  PROVE  /\ Len(chosen) \in Nat /\ DOMAIN chosen = 1..Len(chosen)
         /\ \A k \in 1..Len(chosen) :
              /\ chosen[k] \in [entry : Entry, at : Nat]
              /\ chosen[k].entry \in Entry /\ chosen[k].at \in Nat
<1>1. chosen \in Seq([entry : Entry, at : Nat])
  BY DEF TypeInv, StoreType
<1>2. Len(chosen) \in Nat /\ DOMAIN chosen = 1..Len(chosen)
      /\ \A k \in 1..Len(chosen) : chosen[k] \in [entry : Entry, at : Nat]
  BY <1>1, LenProperties, ElementOfSeq
<1> QED BY <1>2

\* A node that holds T at K goes on to.
LEMMA HoldsStep ==
  ASSUME CommitStep, RequestInv, GrantInv, NEW v \in Node,
         NEW T \in Nat, T >= 1, NEW K \in Nat, Safe(T, K), Holds(v, T, K)
  PROVE  Holds(v, T, K)'
<1> USE DEF CommitStep
<1>0. currentTerm[v] \in Nat /\ currentTerm'[v] \in Nat /\ currentTerm'[v] >= currentTerm[v]
  BY StepTypes
<1>1. Bound(v, T, K)'
  BY BoundStep DEF Holds, Recent
<1>2. CASE log'[v] = log[v]
  BY <1>0, <1>1, <1>2 DEF Holds
<1>3. CASE Grew(v)
  <2>1. TermAt(log'[v], K) = T
    BY <1>3, GrewKeeps DEF Holds
  <2> QED BY <1>0, <1>1, <2>1 DEF Holds
<1>4. ASSUME NEW m \in Appends, Follows(v, m) PROVE Holds(v, T, K)'
  <2>1. m.term \in Nat /\ m.term >= currentTerm[v]
    BY <1>4, AppendFields DEF Follows, GoodStep
  <2>2. TermAt(log'[v], K) = T
    BY <1>0, <1>4, <2>1, FollowsKeeps DEF Holds, Safe
  <2> QED BY <1>0, <1>1, <2>2 DEF Holds
<1> QED BY <1>2, <1>3, <1>4 DEF GoodStep, Summary, LogsStep

\* An anchor stays: whoever is elected was voted for by one of its quorum.
LEMMA AnchorStep ==
  ASSUME CommitStep, RequestInv, GrantInv,
         NEW T \in Nat, T >= 1, NEW K \in Nat, Anchor(T, K)
  PROVE  Anchor(T, K)'
<1>1. PICK Q \in SUBSET Node : IsQuorum(Q) /\ \A v \in Q : Holds(v, T, K)
  BY DEF Anchor
<1>2. PICK w \in Node : w \in Q
  BY <1>1, QuorumsMeet
<1>3. ASSUME NEW j \in Node, Grew(j), role[j] = "candidate", currentTerm[j] > T
      PROVE  AtLeast(log[j], T, K)
  <2>1. PICK R \in SUBSET Node :
          /\ IsQuorum(R)
          /\ \A v \in R : Claim(v, currentTerm[j], j) /\ currentTerm'[v] >= currentTerm[j]
    BY <1>3, ElectorsClaimed
  <2>2. PICK v \in Node : v \in Q /\ v \in R
    BY <1>1, <2>1, QuorumsMeet
  <2> QED BY <1>1, <1>3, <2>1, <2>2 DEF Holds, Bound
<1>4. Safe(T, K)'
  BY <1>1, <1>2, <1>3, SafeStep DEF Anchor, Holds
<1>5. \A v \in Q : Holds(v, T, K)'
  BY <1>1, HoldsStep DEF Anchor
<1> QED BY <1>1, <1>4, <1>5 DEF Anchor

\* Logs with an anchored term at its index have one prefix, the committed one.
LEMMA Settle ==
  ASSUME TypeInv, LogInv, ChosenInv, NEW T \in Nat, T >= 1, NEW K \in Nat, Anchor(T, K),
         NEW k \in 1..Len(chosen), k <= K,
         NEW l \in Seq(Entry), Links(l) \subseteq AllLinks, TermAt(l, K) = T
  PROVE  AgreesUpTo(l, k)
<1>1. PICK Q \in SUBSET Node : IsQuorum(Q) /\ \A v \in Q : Holds(v, T, K)
  BY DEF Anchor
<1>2. PICK T2, K2 \in Nat : SettledBy(T2, K2, k)
  BY DEF ChosenInv
<1>3. PICK R \in SUBSET Node : IsQuorum(R) /\ \A v \in R : Holds(v, T2, K2)
  BY <1>2 DEF SettledBy, Anchor
<1>4. PICK u \in Node : u \in Q /\ u \in R
  BY <1>1, <1>3, QuorumsMeet
<1>5. AgreesUpTo(log[u], k) /\ TermAt(log[u], K) = T
  BY <1>1, <1>2, <1>3, <1>4 DEF SettledBy, Holds
<1>6. log[u] \in Seq(Entry) /\ Links(log[u]) \subseteq AllLinks /\ Unique(AllLinks)
  BY LogLinks
<1>7. /\ K \in 1..Len(log[u]) /\ log[u][K].term = T /\ K \in 1..Len(l) /\ l[K].term = T
  BY <1>5, <1>6, TermAtIndex
<1>8. \A j \in 1..K : l[j] = log[u][j]
  BY <1>6, <1>7, LogsAgree
<1>9. Len(l) \in Nat /\ K \in Nat /\ k \in Nat
  BY LenProperties, ChosenType
<1> QED BY <1>5, <1>7, <1>8, <1>9 DEF AgreesUpTo

\* A log that ends with the anchored term, or later, starts with what the
\* anchor has committed, as far as the log goes.
LEMMA Reaches ==
  ASSUME TypeInv, LogInv, ChosenInv, NEW T \in Nat, T >= 1, NEW K \in Nat, Anchor(T, K),
         NEW l \in Seq(Entry), Links(l) \subseteq AllLinks, Len(l) >= 1, LastTerm(l) >= T,
         NEW k \in Nat, k <= Len(l), k <= Len(chosen), k <= K
  PROVE  AgreesUpTo(l, k)
<1>1. PICK Q \in SUBSET Node : IsQuorum(Q) /\ \A v \in Q : Holds(v, T, K)
  BY DEF Anchor
<1>2. PICK w \in Node : w \in Q
  BY <1>1, QuorumsMeet
<1>3. PICK r : r = log[w]
  OBVIOUS
<1>4. /\ r \in Seq(Entry) /\ Links(r) \subseteq AllLinks /\ TermAt(r, K) = T
      /\ Unique(AllLinks) /\ OneRun(AllLinks)
  BY <1>1, <1>2, <1>3, LogLinks DEF Holds
<1>5. K \in 1..Len(r) /\ r[K].term = T /\ Len(l) \in Nat /\ Len(r) \in Nat /\ DOMAIN l = 1..Len(l)
  BY <1>4, TermAtIndex, LenProperties
<1>6. Len(l) \in 1..Len(l) /\ l[Len(l)].term = LastTerm(l) /\ LastTerm(l) \in Nat
  BY LastEntry
<1>7. CASE k = 0
  BY <1>5, <1>7, ChosenType DEF AgreesUpTo
<1>8. CASE k >= 1 /\ TermAt(l, K) = T
  BY <1>8, ChosenType, Settle
<1>9. CASE k >= 1 /\ LastTerm(l) = T /\ Len(l) <= K
  <2>1. Len(l) \in 1..Len(r) /\ \A j \in 1..Len(l) : r[j] = l[j]
    BY <1>4, <1>9, OneTermAgrees
  <2>2. AgreesUpTo(r, k)
    BY <1>4, <1>9, ChosenType, Settle
  <2> QED BY <1>5, <2>1, <2>2 DEF AgreesUpTo
<1>10. CASE LastTerm(l) > T \/ (LastTerm(l) = T /\ K <= Len(l))
  <2> DEFINE a == [index |-> K, entry |-> r[K], after |-> TermAt(r, K - 1)]
  <2>1. a \in AllLinks /\ a.index = K /\ a.entry.term = T
    BY <1>4, <1>5, LinkAt
  <2> HIDE DEF a
  <2>2. SafeIn(AllLinks, T, K)
    BY DEF Anchor, Safe
  <2>3. K \in 1..Len(l) /\ l[K].term = T
    <3>1. CASE LastTerm(l) > T
      <4>1. PICK q \in 1..Len(l) : l[q].term > T
        BY <1>6, <3>1
      <4>2. K \in Nat /\ K >= 1
        BY <1>5
      <4>3. PICK S : /\ OneRun(S) /\ Links(l) \subseteq S /\ SafeIn(S, T, K)
                     /\ a \in S /\ a.index = K /\ a.entry.term = T
        BY <1>4, <2>1, <2>2
      <4> QED BY <4>1, <4>2, <4>3, SafeReaches
    <3>2. CASE LastTerm(l) = T /\ K <= Len(l)
      BY <1>4, <1>5, <1>6, <2>1, <3>2, RunReaches
    <3> QED BY <1>10, <3>1, <3>2
  <2>4. TermAt(l, K) = T
    BY <1>5, <2>3 DEF TermAt
  <2> QED BY <1>7, <1>8, <2>4
<1> QED BY <1>5, <1>6, <1>7, <1>8, <1>9, <1>10

\* A commit up to c leaves what was chosen and adds the leader's entries to it.
LEMMA ChooseResult ==
  ASSUME TypeInv, NEW i \in Node, NEW c \in 1..Len(log[i]), Choose(i, c)
  PROVE  /\ c <= Len(chosen) => chosen' = chosen
         /\ c > Len(chosen) => Len(chosen') = c
         /\ Len(chosen') >= Len(chosen)
         /\ \A k \in 1..Len(chosen) : chosen'[k] = chosen[k]
         /\ \A k \in Len(chosen)+1..Len(chosen') :
              chosen'[k].entry = log[i][k] /\ chosen'[k].at = currentTerm[i]
<1> DEFINE E == [entry : Entry, at : Nat]
<1>1. /\ chosen \in Seq(E) /\ Len(chosen) \in Nat /\ currentTerm[i] \in Nat
      /\ Len(log[i]) \in Nat /\ \A k \in 1..Len(log[i]) : log[i][k] \in Entry
      /\ c \in Nat /\ c <= Len(log[i])
  BY LenProperties, ElementOfSeq DEF TypeInv, StoreType, DurableType
<1>2. CASE c <= Len(chosen)
  <2>1. chosen' = chosen
    BY <1>2 DEF Choose
  <2> QED BY <1>1, <1>2, <2>1
<1>3. CASE c > Len(chosen)
  <2> DEFINE n == c - Len(chosen)
             new == [k \in 1..n |-> [entry |-> log[i][Len(chosen) + k], at |-> currentTerm[i]]]
  <2>1. chosen' = chosen \o new
    BY <1>1, <1>3 DEF Choose
  <2>2. n \in Nat /\ \A k \in 1..n : Len(chosen) + k \in 1..Len(log[i])
    BY <1>1, <1>3
  <2>3. new \in [1..n -> E]
    BY <1>1, <2>2
  <2>4. \A k \in 1..n : new[k].entry = log[i][Len(chosen) + k] /\ new[k].at = currentTerm[i]
    OBVIOUS
  <2>5. n = c - Len(chosen)
    OBVIOUS
  <2> HIDE DEF n, new, E
  <2>6. new \in Seq(E) /\ Len(new) = n
    BY <2>2, <2>3, FunctionIsSeq, LenProperties
  <2>7. /\ Len(chosen \o new) = Len(chosen) + n
        /\ \A k \in 1..Len(chosen) + n :
             (chosen \o new)[k] = IF k <= Len(chosen) THEN chosen[k] ELSE new[k - Len(chosen)]
    BY <1>1, <2>6, ConcatProperties
  <2>8. Len(chosen') = c /\ \A k \in 1..c :
          chosen'[k] = IF k <= Len(chosen) THEN chosen[k] ELSE new[k - Len(chosen)]
    BY <1>1, <2>1, <2>2, <2>5, <2>7
  <2>9. ASSUME NEW k \in Len(chosen)+1..c
        PROVE  chosen'[k].entry = log[i][k] /\ chosen'[k].at = currentTerm[i]
    <3>1. PICK x : x = k - Len(chosen)
      OBVIOUS
    <3>2. x \in 1..n /\ Len(chosen) + x = k /\ k \in 1..c /\ ~(k <= Len(chosen))
      BY <1>1, <1>3, <2>5, <3>1
    <3>3. chosen'[k] = new[x]
      BY <2>8, <3>1, <3>2
    <3> QED BY <2>4, <3>2, <3>3
  <2>10. \A k \in 1..Len(chosen) : chosen'[k] = chosen[k]
    <3>1. \A k \in 1..Len(chosen) : k \in 1..c /\ k <= Len(chosen)
      BY <1>1, <1>3
    <3> QED BY <2>8, <3>1
  <2>11. Len(chosen') = c /\ ~(c <= Len(chosen)) /\ Len(chosen') >= Len(chosen)
    BY <1>1, <1>3, <2>8
  <2> QED BY <2>9, <2>10, <2>11
<1> QED BY <1>1, <1>2, <1>3

\* What is committed stays committed.
LEMMA ChosenGrows ==
  ASSUME CommitStep
  PROVE  /\ Len(chosen') >= Len(chosen) /\ Len(chosen') \in Nat /\ Len(chosen) \in Nat
         /\ \A k \in 1..Len(chosen) : chosen'[k] = chosen[k]
<1>0. TypeInv /\ TypeInv' /\ StoreStep
  BY DEF CommitStep, GoodStep, Summary
<1>1. Len(chosen) \in Nat
  BY <1>0, ChosenType
<1>2. Len(chosen') \in Nat
  BY <1>0, LenProperties DEF TypeInv, StoreType
<1>3. CASE UNCHANGED chosen
  BY <1>1, <1>3
<1>4. ASSUME NEW i \in Node, Commits(i, commitIndex'[i])
      PROVE  /\ Len(chosen') >= Len(chosen)
             /\ \A k \in 1..Len(chosen) : chosen'[k] = chosen[k]
  <2>1. PICK c : c = commitIndex'[i]
    OBVIOUS
  <2>2. c \in 1..Len(log[i]) /\ Choose(i, c)
    <3>1. commitIndex[i] \in Nat /\ Len(log[i]) \in Nat
      BY <1>0, LenProperties DEF TypeInv, StoreType, DurableType
    <3> QED BY <1>4, <2>1, <3>1 DEF Commits
  <2> QED BY <1>0, <2>2, ChooseResult
<1> QED BY <1>0, <1>1, <1>2, <1>3, <1>4 DEF StoreStep

\* An agreed prefix stays agreed.
LEMMA AgreedKept ==
  ASSUME CommitStep, NEW l, NEW k \in Nat, AgreesUpTo(l, k)
  PROVE  AgreesUpTo(l, k)'
<1>1. k <= Len(chosen') /\ \A j \in 1..k : j \in 1..Len(chosen)
  BY ChosenGrows DEF AgreesUpTo
<1> QED BY <1>1, ChosenGrows DEF AgreesUpTo

\* What is settled stays settled.
LEMMA SettledStep ==
  ASSUME CommitStep, RequestInv, GrantInv,
         NEW T \in Nat, NEW K \in Nat, NEW k \in Nat, SettledBy(T, K, k)
  PROVE  SettledBy(T, K, k)'
<1> USE DEF CommitStep
<1>1. T >= 1 /\ k <= K /\ Anchor(T, K)
  BY DEF SettledBy
<1>2. Anchor(T, K)'
  BY <1>1, AnchorStep
<1>3. PICK Q \in SUBSET Node : IsQuorum(Q) /\ \A v \in Q : Holds(v, T, K)
  BY <1>1 DEF Anchor
<1>4. PICK w \in Node : w \in Q
  BY <1>3, QuorumsMeet
<1>5. AgreesUpTo(log[w], k) /\ TermAt(log[w], K) = T
  BY <1>3, <1>4 DEF SettledBy, Holds
<1>6. ASSUME NEW v \in Node, NEW l, l = log'[v], TermAt(l, K) = T
      PROVE  AgreesUpTo(l, k)'
  <2>1. l \in Seq(Entry) /\ log[w] \in Seq(Entry)
    BY <1>6, StepTypes
  <2>2. Links(l) \subseteq StepLinks /\ Links(log[w]) \subseteq StepLinks /\ Unique(StepLinks)
    <3>1. Links(l) \subseteq AllLinks'
      BY <1>6 DEF AllLinks
    <3> QED BY <3>1, StepLinksSound DEF AllLinks
  <2>3. /\ K \in 1..Len(l) /\ l[K].term = T /\ K \in 1..Len(log[w]) /\ log[w][K].term = T
    BY <1>1, <1>5, <1>6, <2>1, TermAtIndex
  <2>4. \A j \in 1..K : l[j] = log[w][j]
    BY <2>1, <2>2, <2>3, LogsAgree
  <2>5. AgreesUpTo(l, k)
    <3>1. Len(l) \in Nat
      BY <2>1, LenProperties
    <3> QED BY <1>1, <1>5, <2>3, <2>4, <3>1 DEF AgreesUpTo
  <2> QED BY <2>5, AgreedKept
<1>7. ASSUME NEW v \in Node, TermAt(log'[v], K) = T PROVE AgreesUpTo(log[v], k)'
  <2>1. PICK l : l = log'[v]
    OBVIOUS
  <2>2. AgreesUpTo(l, k)'
    BY <1>6, <1>7, <2>1
  <2> QED BY <2>1, <2>2 DEF AgreesUpTo
<1> QED BY <1>1, <1>2, <1>7 DEF SettledBy

\* An anchored index stays anchored.
LEMMA AnchoredStep ==
  ASSUME CommitStep, RequestInv, GrantInv, NEW k \in Nat, NEW t \in Nat, Anchored(k, t)
  PROVE  Anchored(k, t)'
BY AnchorStep DEF Anchored

\* After a merge a log starts with what the message describes.
LEMMA FollowedPrefix ==
  ASSUME GoodStep, LogInv, NEW v \in Node, NEW m \in Appends, Follows(v, m)
  PROVE  /\ Len(Described(v, m)) <= Len(log'[v])
         /\ \A j \in 1..Len(Described(v, m)) : log'[v][j] = Described(v, m)[j]
<1>1. PICK l, d : l = log[v] /\ d = Described(v, m)
  OBVIOUS
<1>2. /\ d \in Seq(Entry) /\ Len(d) >= 1
      /\ Links(l) \subseteq AllLinks /\ Links(d) \subseteq AllLinks
      /\ log'[v] = IF Covers(l, d) THEN l ELSE d
  BY <1>1, FollowsResult
<1>3. l \in Seq(Entry) /\ Unique(AllLinks)
  BY <1>1, LogLinks DEF GoodStep
<1>4. Len(d) \in 1..Len(d) /\ Len(l) \in Nat /\ Len(d) \in Nat
  BY <1>2, <1>3, LastEntry, LenProperties
<1>5. ASSUME Covers(l, d) PROVE Len(d) <= Len(l) /\ \A j \in 1..Len(d) : l[j] = d[j]
  <2>1. Len(d) \in 1..Len(l) /\ l[Len(d)].term = d[Len(d)].term
    BY <1>4, <1>5 DEF Covers
  <2> QED BY <1>2, <1>3, <1>4, <2>1, LogsAgree
<1> QED BY <1>1, <1>2, <1>4, <1>5

\* Following a leader takes nothing away that the follower has committed.
LEMMA FollowedKeepsCommit ==
  ASSUME CommitStep, ChosenInv, CommitInv, NEW v \in Node, NEW m \in Appends, Follows(v, m)
  PROVE  AgreesUpTo(log'[v], commitIndex[v])
<1> USE DEF CommitStep
<1>1. PICK l, d : l = log[v] /\ d = Described(v, m)
  OBVIOUS
<1>2. /\ d \in Seq(Entry) /\ Len(d) >= 1 /\ LastTerm(d) = m.term
      /\ Links(d) \subseteq AllLinks /\ log'[v] = IF Covers(l, d) THEN l ELSE d
  BY <1>1, FollowsResult
<1>3. PICK c \in Nat : c = commitIndex[v]
  BY DEF GoodStep, TypeInv, StoreType
<1>4. AgreesUpTo(l, c)
  BY <1>1, <1>3 DEF CommitInv
<1>5. /\ Len(d) \in Nat /\ Len(l) \in Nat /\ Len(chosen) \in Nat
  BY <1>1, <1>2, StepTypes, LenProperties, ChosenType DEF GoodStep
<1>6. CASE Covers(l, d)
  BY <1>2, <1>3, <1>4, <1>6
<1>7. CASE c = 0
  <2>1. Len(log'[v]) \in Nat
    BY StepTypes, LenProperties
  <2> QED BY <1>3, <1>5, <1>7, <2>1 DEF AgreesUpTo
<1>8. CASE c >= 1 /\ ~Covers(l, d)
  <2>1. PICK T, K \in Nat : T >= 1 /\ T <= currentTerm[v] /\ c <= K /\ Anchor(T, K)
    BY <1>3, <1>8 DEF CommitInv, Anchored
  <2>2. LastTerm(d) >= T
    <3>1. m.term \in Nat /\ currentTerm[v] \in Nat /\ m.term >= currentTerm[v]
      BY AppendFields, StepTypes DEF Follows, GoodStep
    <3> QED BY <1>2, <2>1, <3>1
  <2>3. CASE c <= Len(d)
    <3>1. AgreesUpTo(d, c)
      BY <1>2, <1>4, <2>1, <2>2, <2>3, Reaches DEF GoodStep, AgreesUpTo
    <3> QED BY <1>2, <1>3, <1>8, <3>1
  <2>4. CASE c > Len(d)
    <3>1. Len(d) <= Len(chosen) /\ Len(d) <= K /\ Len(d) <= Len(l)
      BY <1>4, <1>5, <2>1, <2>4 DEF AgreesUpTo
    <3>2. AgreesUpTo(d, Len(d))
      BY <1>2, <1>5, <2>1, <2>2, <3>1, Reaches DEF GoodStep
    <3>3. \A j \in 1..Len(d) : j \in 1..c /\ d[j] = l[j]
      BY <1>4, <1>5, <2>4, <3>2 DEF AgreesUpTo
    <3> QED BY <1>8, <3>1, <3>3 DEF Covers
  <2> QED BY <1>5, <2>3, <2>4
<1> QED BY <1>6, <1>7, <1>8

\* No step takes away what its node has committed.
LEMMA LogKeepsCommit ==
  ASSUME CommitStep, ChosenInv, CommitInv, NEW v \in Node
  PROVE  AgreesUpTo(log'[v], commitIndex[v])
<1> USE DEF CommitStep
<1>1. AgreesUpTo(log[v], commitIndex[v])
  BY DEF CommitInv
<1>2. CASE Grew(v)
  <2>1. /\ Len(log'[v]) = Len(log[v]) + 1 /\ Len(log[v]) \in Nat
        /\ \A k \in 1..Len(log[v]) : log'[v][k] = log[v][k]
    BY <1>2, GrewLinks
  <2>2. commitIndex[v] \in Nat
    BY DEF GoodStep, TypeInv, StoreType
  <2> QED BY <1>1, <2>1, <2>2 DEF AgreesUpTo
<1> QED BY <1>1, <1>2, FollowedKeepsCommit DEF GoodStep, Summary, LogsStep

\* A follower commits what the leader's message names, and has it.
LEMMA FollowedCommit ==
  ASSUME CommitStep, ChosenInv, MsgCommit, NEW v \in Node, NEW m \in Appends, Follows(v, m),
         m.commit >= 1
  PROVE  m.commit <= Len(log'[v]) /\ AgreesUpTo(log'[v], m.commit)
<1> USE DEF CommitStep
<1>1. PICK d : d = Described(v, m)
  OBVIOUS
<1>2. /\ d \in Seq(Entry) /\ Len(d) >= 1 /\ LastTerm(d) = m.term
      /\ Links(d) \subseteq AllLinks /\ Len(d) = m.prevIndex + Len(m.entries)
  BY <1>1, FollowsResult
<1>3. Len(d) <= Len(log'[v]) /\ \A j \in 1..Len(d) : log'[v][j] = d[j]
  BY <1>1, FollowedPrefix
<1>4. PICK c \in Nat : c = m.commit
  BY AppendFields DEF GoodStep
<1>5. c <= Len(d) /\ c <= Len(chosen) /\ c >= 1
  BY <1>2, <1>4 DEF MsgCommit
<1>6. PICK T, K \in Nat : T >= 1 /\ T <= m.term /\ c <= K /\ Anchor(T, K)
  BY <1>4 DEF MsgCommit, Anchored
<1>7. AgreesUpTo(d, c)
  BY <1>2, <1>5, <1>6, Reaches DEF GoodStep
<1>8. Len(d) \in Nat /\ Len(log'[v]) \in Nat
  BY <1>2, StepTypes, LenProperties
<1> QED BY <1>3, <1>4, <1>5, <1>7, <1>8 DEF AgreesUpTo

\* Of the nodes that a leader counts, each has acknowledged as much before.
LEMMA CountedAcked ==
  ASSUME CommitStep, AckSide, NEW i \in Node, NEW c \in Nat, c >= 1,
         role[i] = "leader", role'[i] = "leader", log'[i] = log[i],
         NEW v \in Node, matchIndex'[i][v] >= c
  PROVE  \E K \in Nat : K >= c /\ AckedAt(v, i, K)
<1> USE DEF CommitStep
<1>1. matchIndex'[i][v] \in Nat
  BY DEF GoodStep, TypeInv, LeaderType
<1>2. \/ matchIndex'[i][v] = matchIndex[i][v]
      \/ v = i /\ matchIndex'[i][v] = Len(log'[i])
      \/ matchIndex'[i][v] = 0
      \/ \E m \in Acks : /\ m.src = v /\ m.dst = i /\ m.term = currentTerm[i]
                         /\ matchIndex'[i][v] = m.match
  BY DEF GoodStep, Summary, MatchStep
<1>3. matchIndex[i][i] = Len(log[i])
  BY DEF AckSide, SelfMatch
<1>4. AckedAt(v, i, matchIndex'[i][v])
  BY <1>1, <1>2, <1>3 DEF AckedAt
<1> QED BY <1>1, <1>4

\* What a leader commits is anchored where it commits up to.
LEMMA CommitAnchors ==
  ASSUME CommitStep, AckSide, SafeLeader, NEW i \in Node,
         NEW c \in Nat, Commits(i, c), NEW T \in Nat, T = currentTerm[i]
  PROVE  T >= 1 /\ TermAt(log[i], c) = T /\ c \in 1..Len(log[i]) /\ Anchor(T, c)
<1> USE DEF CommitStep
<1> DEFINE Q == {j \in Node : matchIndex'[i][j] >= c}
           R == {v \in Node : \/ currentTerm[v] <= currentTerm[i]
                              \/ \E K \in Nat : K >= c /\ AckedAt(v, i, K)}
<1>0. /\ role[i] = "leader" /\ role'[i] = "leader" /\ log'[i] = log[i]
      /\ log[i][c].term = T /\ IsQuorum(Q) /\ log[i] \in Seq(Entry)
  BY StepTypes DEF Commits
<1>1. c \in 1..Len(log[i]) /\ c >= 1 /\ T >= 1 /\ Len(log[i]) \in Nat
  <2>1. commitIndex[i] \in Nat /\ Len(log[i]) \in Nat
    BY <1>0, LenProperties DEF GoodStep, TypeInv, StoreType
  <2> QED BY <1>0, <2>1 DEF Commits, LogInv, TermsBounded
<1>2. TermAt(log[i], c) = T
  BY <1>0, <1>1, LenProperties DEF TermAt
<1>3. ASSUME NEW v \in Q PROVE v \in Node /\ \E K \in Nat : K >= c /\ AckedAt(v, i, K)
  BY <1>0, <1>1, CountedAcked
<1>4. Q \subseteq R
  BY <1>3
<1>5. Q \in SUBSET Node /\ R \in SUBSET Node
  OBVIOUS
<1>6. IsQuorum(R) => Choosable(i, c)
  BY DEF Choosable
<1> HIDE DEF Q, R
<1>7. Safe(T, c)
  <2>1. IsQuorum(R)
    BY <1>0, <1>4, <1>5, QuorumGrows
  <2> QED BY <1>0, <1>1, <1>6, <2>1 DEF SafeLeader
<1>8. ASSUME NEW v \in Q PROVE Holds(v, T, c)
  <2>1. PICK K \in Nat : K >= c /\ AckedAt(v, i, K)
    BY <1>3
  <2>2. v \in Node /\ TermAt(log[i], K) = T /\ Pinned(v, T, K)
    BY <1>0, <1>1, <1>3, <2>1 DEF AckSide, AckInv
  <2>3. PICK l : l = log[v]
    OBVIOUS
  <2>4. /\ l \in Seq(Entry) /\ Links(l) \subseteq AllLinks /\ Unique(AllLinks) /\ OneRun(AllLinks)
        /\ Links(log[i]) \subseteq AllLinks
    BY <2>2, <2>3, LogLinks DEF GoodStep
  <2>5. K \in 1..Len(log[i]) /\ log[i][K].term = T
    BY <1>0, <1>1, <2>2, TermAtIndex
  <2>6. c \in 1..Len(l) /\ l[c].term = T
    <3>1. CASE TermAt(l, K) = T
      <4>1. K \in 1..Len(l) /\ l[K].term = T
        BY <1>1, <2>4, <3>1, TermAtIndex
      <4>2. \A j \in 1..K : l[j] = log[i][j]
        BY <1>0, <2>4, <2>5, <4>1, LogsAgree
      <4>3. c \in 1..K /\ Len(l) \in Nat
        BY <1>1, <2>1, <2>4, LenProperties
      <4> QED BY <1>0, <4>1, <4>2, <4>3
    <3>2. CASE LastTerm(l) > T
      <4>1. Len(l) >= 1
        BY <1>1, <2>4, <3>2, LenProperties DEF LastTerm, TermAt
      <4>2. Len(l) \in 1..Len(l) /\ l[Len(l)].term > T
        BY <2>4, <3>2, <4>1, LastEntry
      <4> DEFINE a == [index |-> c, entry |-> log[i][c], after |-> TermAt(log[i], c - 1)]
      <4>3. a \in AllLinks /\ a.index = c /\ a.entry.term = T
        BY <1>0, <1>1, <2>4, LinkAt
      <4> HIDE DEF a
      <4>4. SafeIn(AllLinks, T, c)
        BY <1>7 DEF Safe
      <4> QED BY <1>1, <2>4, <4>2, <4>3, <4>4, SafeReaches
    <3> QED BY <2>2, <2>3, <3>1, <3>2 DEF Pinned, Recent
  <2>7. Bound(v, T, c)
    <3> SUFFICES ASSUME NEW x \in Node, role[x] = "candidate", currentTerm[x] > T,
                        Claim(v, currentTerm[x], x)
                 PROVE  AtLeast(log[x], T, c)
      BY DEF Bound
    <3>1. AtLeast(log[x], T, K) /\ Len(log[x]) \in Nat
      BY <2>2, StepTypes, LenProperties DEF Pinned, Bound
    <3> QED BY <2>1, <3>1 DEF AtLeast
  <2>8. TermAt(l, c) = T
    BY <2>4, <2>6, LenProperties DEF TermAt
  <2> QED BY <2>2, <2>3, <2>7, <2>8 DEF Holds, Pinned
<1> QED BY <1>0, <1>1, <1>2, <1>5, <1>7, <1>8 DEF Anchor

\* What a leader commits up to is the committed sequence after the step.
LEMMA CommittedPrefix ==
  ASSUME CommitStep, AckSide, SafeLeader, ChosenInv, NEW i \in Node,
         NEW c \in Nat, Commits(i, c), NEW l, l = log'[i]
  PROVE  AgreesUpTo(l, c)'
<1> USE DEF CommitStep
<1>0. l = log[i] /\ l \in Seq(Entry) /\ Links(l) \subseteq AllLinks /\ TypeInv
  BY LogLinks DEF Commits, GoodStep
<1>1. PICK T \in Nat : T = currentTerm[i]
  BY StepTypes
<1>2. T >= 1 /\ TermAt(l, c) = T /\ c \in 1..Len(l) /\ Anchor(T, c)
  BY <1>0, <1>1, CommitAnchors
<1>3. Choose(i, c)
  BY DEF Commits
<1>4. /\ c <= Len(chosen) => chosen' = chosen
      /\ c > Len(chosen) => Len(chosen') = c
      /\ \A k \in 1..Len(chosen) : chosen'[k] = chosen[k]
      /\ \A k \in Len(chosen)+1..Len(chosen') : chosen'[k].entry = l[k]
      /\ Len(chosen) \in Nat /\ Len(l) \in Nat
  BY <1>0, <1>2, <1>3, ChooseResult, ChosenType, LenProperties
<1>5. ASSUME NEW j \in 1..c, j <= Len(chosen) PROVE l[j] = chosen[j].entry
  <2>1. j \in 1..Len(chosen) /\ j <= c /\ j \in Nat
    BY <1>4, <1>5
  <2>2. AgreesUpTo(l, j)
    BY <1>0, <1>2, <2>1, Settle
  <2> QED BY <2>1, <2>2 DEF AgreesUpTo
<1>6. \A j \in 1..c : l[j] = chosen'[j].entry
  <2> SUFFICES ASSUME NEW j \in 1..c PROVE l[j] = chosen'[j].entry
    OBVIOUS
  <2>1. CASE j <= Len(chosen)
    <3>1. j \in 1..Len(chosen)
      BY <1>4, <2>1
    <3> QED BY <1>4, <1>5, <2>1, <3>1
  <2>2. CASE j > Len(chosen)
    <3>1. Len(chosen') = c /\ j \in Len(chosen)+1..c
      BY <1>4, <2>2
    <3> QED BY <1>4, <3>1
  <2> QED BY <1>4, <2>1, <2>2
<1> QED BY <1>2, <1>4, <1>6 DEF AgreesUpTo

\* CommitInv is kept.
LEMMA CommitInvStep ==
  ASSUME CommitStep, CommitsInv
  PROVE  CommitInv'
<1> USE DEF CommitStep, CommitsInv
<1> SUFFICES ASSUME NEW v \in Node, NEW l, l = log'[v], NEW c \in Nat, c = commitIndex'[v],
                    NEW t \in Nat, t = currentTerm'[v]
             PROVE  AgreesUpTo(l, c)' /\ (c >= 1 => Anchored(c, t)')
  <2>1. \A v \in Node : commitIndex'[v] \in Nat /\ currentTerm'[v] \in Nat
    BY StepTypes DEF GoodStep, TypeInv, StoreType
  <2> QED BY <2>1 DEF CommitInv, AgreesUpTo, Anchored, Anchor, Safe, Holds, Bound
<1>0. RequestInv /\ GrantInv
  BY DEF AckSide
<1>1. l \in Seq(Entry) /\ Len(l) \in Nat /\ Len(chosen') \in Nat
  BY StepTypes, LenProperties, ChosenGrows
<1>2. currentTerm[v] \in Nat /\ currentTerm[v] <= t /\ commitIndex[v] \in Nat
  BY StepTypes DEF GoodStep, TypeInv, StoreType
<1>3. CASE c = commitIndex[v]
  <2>1. AgreesUpTo(l, c)
    BY <1>3, LogKeepsCommit
  <2>2. c >= 1 => Anchored(c, t)
    BY <1>2, <1>3 DEF CommitInv, Anchored
  <2> QED BY <1>0, <2>1, <2>2, AgreedKept, AnchoredStep
<1>4. CASE c = 0
  BY <1>1, <1>4 DEF AgreesUpTo
<1>5. CASE Commits(v, c)
  <2>1. AgreesUpTo(l, c)'
    BY <1>5, CommittedPrefix
  <2>2. currentTerm[v] = t
    BY <1>5 DEF Commits
  <2>3. t >= 1 /\ Anchor(t, c)
    BY <1>5, <2>2, CommitAnchors
  <2>4. Anchored(c, t)
    BY <2>3 DEF Anchored
  <2> QED BY <1>0, <2>1, <2>4, AnchoredStep
<1>6. ASSUME NEW m \in Appends, Follows(v, m), c = FollowerCommit(commitIndex[v], l, m)
      PROVE  AgreesUpTo(l, c)' /\ (c >= 1 => Anchored(c, t)')
  <2>1. m.commit \in Nat /\ m.term = t
    BY <1>6, AppendFields DEF Follows, GoodStep
  <2>2. CASE m.commit > commitIndex[v]
    <3>1. m.commit >= 1
      BY <1>2, <2>1, <2>2
    <3>2. m.commit <= Len(l) /\ AgreesUpTo(l, m.commit)
      BY <1>6, <3>1, FollowedCommit
    <3>3. c = m.commit
      BY <1>1, <1>6, <2>1, <2>2, <3>2 DEF FollowerCommit, Smaller
    <3>4. Anchored(c, t)
      BY <2>1, <3>1, <3>3 DEF MsgCommit
    <3> QED BY <1>0, <3>2, <3>3, <3>4, AgreedKept, AnchoredStep
  <2>3. CASE ~(m.commit > commitIndex[v])
    BY <1>3, <1>6, <2>3 DEF FollowerCommit
  <2> QED BY <2>2, <2>3
<1>7. \/ c = commitIndex[v] \/ c = 0 \/ Commits(v, c)
      \/ \E m \in Appends : Follows(v, m) /\ c = FollowerCommit(commitIndex[v], l, m)
  <2>1. PICK i \in Node :
          /\ commitIndex' = [commitIndex EXCEPT ![i] = commitIndex'[i]]
          /\ \/ UNCHANGED commitIndex
             \/ commitIndex'[i] = 0
             \/ Commits(i, commitIndex'[i])
             \/ \E m \in Appends :
                  /\ Follows(i, m)
                  /\ commitIndex'[i] = FollowerCommit(commitIndex[i], log'[i], m)
    BY DEF GoodStep, Summary, StoreStep
  <2>2. CASE i = v
    BY <2>1, <2>2
  <2>3. CASE i # v
    <3>1. commitIndex \in [Node -> Nat]
      BY DEF GoodStep, TypeInv, StoreType
    <3> QED BY <2>1, <2>3, <3>1
  <2> QED BY <2>2, <2>3
<1> QED BY <1>3, <1>4, <1>5, <1>6, <1>7

\* ChosenInv is kept: what is new was anchored by the commit that chose it.
LEMMA ChosenInvStep ==
  ASSUME CommitStep, CommitsInv
  PROVE  ChosenInv'
<1> USE DEF CommitStep, CommitsInv
<1> SUFFICES ASSUME NEW k \in 1..Len(chosen')
             PROVE  \E T, K \in Nat : chosen'[k].at = T /\ SettledBy(T, K, k)'
  BY DEF ChosenInv
<1>0. RequestInv /\ GrantInv /\ TypeInv /\ k \in Nat
  BY ChosenGrows DEF AckSide, GoodStep
<1>1. CASE k \in 1..Len(chosen)
  <2>1. PICK T, K \in Nat : chosen[k].at = T /\ SettledBy(T, K, k)
    BY <1>1 DEF ChosenInv
  <2>2. SettledBy(T, K, k)'
    BY <1>0, <2>1, SettledStep
  <2>3. chosen'[k] = chosen[k]
    BY <1>1, ChosenGrows
  <2> QED BY <2>1, <2>2, <2>3
<1>2. CASE k \notin 1..Len(chosen)
  <2>0. Len(chosen) \in Nat /\ Len(chosen') \in Nat
    BY ChosenGrows
  <2>1. ~UNCHANGED chosen
    BY <1>2
  <2>2. PICK i \in Node : Commits(i, commitIndex'[i])
    BY <2>1 DEF GoodStep, Summary, StoreStep
  <2>3. PICK c \in Nat : c = commitIndex'[i] /\ Commits(i, c)
    BY <2>2 DEF GoodStep, TypeInv, StoreType
  <2>4. PICK T \in Nat : T = currentTerm[i]
    BY StepTypes
  <2>5. /\ T >= 1 /\ TermAt(log[i], c) = T /\ c \in 1..Len(log[i]) /\ Anchor(T, c)
        /\ log[i][c].term = T
    BY <2>3, <2>4, CommitAnchors DEF Commits
  <2>6. /\ c <= Len(chosen) => chosen' = chosen
        /\ c > Len(chosen) => Len(chosen') = c
        /\ \A j \in Len(chosen)+1..Len(chosen') : chosen'[j].at = T
    BY <1>0, <2>3, <2>4, <2>5, ChooseResult DEF Commits
  <2>7. k \in Len(chosen)+1..Len(chosen') /\ k <= c
    BY <1>2, <2>0, <2>1, <2>3, <2>6
  <2>8. Anchor(T, c)'
    BY <1>0, <2>3, <2>5, AnchorStep
  <2>9. PICK r \in Seq(Entry) : r = log[i] /\ r = log'[i]
    BY <2>3, StepTypes DEF Commits
  <2>10. AgreesUpTo(r, c)'
    BY <2>3, <2>9, CommittedPrefix
  <2>11. ASSUME NEW v \in Node, TermAt(log'[v], c) = T PROVE AgreesUpTo(log[v], k)'
    <3>1. PICK l \in Seq(Entry) : l = log'[v]
      BY StepTypes
    <3>2. Links(l) \subseteq StepLinks /\ Links(r) \subseteq StepLinks /\ Unique(StepLinks)
      <4>1. Links(l) \subseteq AllLinks' /\ Links(r) \subseteq AllLinks
        BY <2>9, <3>1 DEF AllLinks
      <4> QED BY <4>1, StepLinksSound
    <3>3. c \in 1..Len(l) /\ l[c].term = T /\ c \in 1..Len(r) /\ r[c].term = T
      BY <2>3, <2>5, <2>9, <2>11, <3>1, TermAtIndex
    <3>4. \A j \in 1..c : l[j] = r[j]
      BY <3>2, <3>3, LogsAgree
    <3>5. AgreesUpTo(l, k)'
      <4>1. Len(l) \in Nat
        BY <3>1, LenProperties
      <4> QED BY <2>0, <2>3, <2>7, <2>10, <3>3, <3>4, <4>1 DEF AgreesUpTo
    <3> QED BY <3>1, <3>5 DEF AgreesUpTo
  <2>12. SettledBy(T, c, k)'
    BY <2>5, <2>7, <2>8, <2>11 DEF SettledBy
  <2> QED BY <2>3, <2>6, <2>7, <2>12
<1> QED BY <1>1, <1>2

\* MsgCommit is kept: a leader sends all that follows the previous index.
LEMMA MsgCommitStep ==
  ASSUME CommitStep, CommitsInv, CommitInv'
  PROVE  MsgCommit'
<1> USE DEF CommitStep, CommitsInv
<1> SUFFICES ASSUME NEW m \in Appends', NEW c \in Nat, c = m.commit, NEW t \in Nat, t = m.term
             PROVE  /\ c <= m.prevIndex + Len(m.entries) /\ c <= Len(chosen')
                    /\ c >= 1 => Anchored(c, t)'
  <2>1. \A m \in Appends' : m.commit \in Nat /\ m.term \in Nat
    <3>1. TypeInv'
      BY DEF GoodStep
    <3>2. queue' \in Seq(Message)
      BY <3>1 DEF TypeInv, QueueType
    <3>3. \A m \in Appends' : m \in Message /\ m.type = "Append"
      BY <3>2, ElementOfSeq, LenProperties DEF Appends, InFlight
    <3> QED BY <3>3 DEF Message
  <2> QED BY <2>1 DEF MsgCommit, Anchored, Anchor, Safe, Holds, Bound
<1>0. RequestInv /\ GrantInv
  BY DEF AckSide
<1>1. CASE m \in Appends
  <2>1. c <= Len(chosen) /\ (c >= 1 => Anchored(c, t)) /\ c <= m.prevIndex + Len(m.entries)
    BY <1>1 DEF MsgCommit
  <2> QED BY <1>0, <2>1, AnchoredStep, ChosenGrows
<1>2. ASSUME NEW i \in Node, i = m.src, t = currentTerm'[i], c = commitIndex'[i],
             NEW next \in Nat, next >= 1, m.prevIndex = next - 1,
             m.entries = SubSeq(log'[i], next, Len(log'[i]))
      PROVE  /\ c <= m.prevIndex + Len(m.entries) /\ c <= Len(chosen')
             /\ c >= 1 => Anchored(c, t)'
  <2>1. PICK l \in Seq(Entry) : l = log'[i]
    BY StepTypes
  <2>2. AgreesUpTo(l, c)' /\ (c >= 1 => Anchored(c, t)')
    BY <1>2, <2>1 DEF CommitInv, AgreesUpTo, Anchored, Anchor, Safe, Holds, Bound
  <2>3. /\ Len(l) \in Nat
        /\ Len(SubSeq(l, next, Len(l))) = IF next <= Len(l) THEN Len(l) - next + 1 ELSE 0
    BY <1>2, LenProperties, EntriesToSend
  <2> QED BY <1>2, <2>1, <2>2, <2>3 DEF AgreesUpTo
<1> QED BY <1>1, <1>2, AppendsStep

\* CommitsInv is inductive.
LEMMA CommitsInvStep ==
  ASSUME CommitStep, CommitsInv
  PROVE  CommitsInv'
<1>1. AckSide' /\ SafeLeader'
  BY AckSideStep, SafeLeaderStep DEF CommitsInv
<1>2. CommitInv' /\ ChosenInv'
  BY CommitInvStep, ChosenInvStep
<1>3. MsgCommit'
  BY <1>2, MsgCommitStep
<1> QED BY <1>1, <1>2, <1>3 DEF CommitsInv

\* At the start nothing is committed, sent or led.
LEMMA CommitsInvInit == Init => CommitsInv
<1> SUFFICES ASSUME Init PROVE CommitsInv
  OBVIOUS
<1>1. InFlight(queue) = {}
  BY DEF Init, InFlight
<1>2. Acks = {} /\ Appends = {}
  BY <1>1 DEF Acks, Appends
<1>3. \A i \in Node : role[i] = "follower" /\ log[i] = <<>> /\ commitIndex[i] = 0
  BY DEF Init
<1>4. chosen = <<>> /\ Len(chosen) = 0 /\ 1..0 = {}
  BY DEF Init
<1>5. AckSide /\ SafeLeader
  BY <1>1, <1>2, <1>3
  DEF AckSide, AckInv, AcksSeen, SelfMatch, RequestInv, GrantInv, SafeLeader
<1>6. ChosenInv /\ CommitInv /\ MsgCommit
  BY <1>2, <1>3, <1>4 DEF ChosenInv, CommitInv, MsgCommit, AgreesUpTo
<1> QED BY <1>5, <1>6 DEF CommitsInv

\* The whole inductive invariant of the group.
GroupInv == TypeInv /\ VoteInv /\ LogInv /\ CommitsInv

\* It holds in every state of the group.
LEMMA GroupInvariant == Spec => []GroupInv
<1>1. Init => CommitsInv
  BY CommitsInvInit
<1>2. TypeInv /\ VoteInv /\ LogInv /\ CommitsInv /\ [Next]_vars => CommitsInv'
  BY CommitSteps, CommitsInvStep
<1> QED BY <1>1, <1>2, LogsInvariant, PTL DEF Spec, GroupInv

----------------------------------------------------------------------------
(* What a client and a reader of the logs may rely on *)

\* GroupInv gives the completeness of leaders.
LEMMA LeadersAreComplete ==
  ASSUME GroupInv
  PROVE  LeaderCompleteness
<1> USE DEF GroupInv
<1> SUFFICES ASSUME NEW i \in Node, role[i] = "leader", NEW k \in 1..Len(chosen),
                    chosen[k].at <= currentTerm[i]
             PROVE  k <= Len(log[i]) /\ log[i][k] = chosen[k].entry
  BY ChosenType DEF LeaderCompleteness
<1>1. PICK T, K \in Nat : chosen[k].at = T /\ SettledBy(T, K, k)
  BY DEF CommitsInv, ChosenInv
<1>2. PICK l \in Seq(Entry) : l = log[i]
  BY DEF TypeInv, DurableType
<1>3. /\ Links(l) \subseteq AllLinks /\ OneRun(AllLinks) /\ Len(l) >= 1
      /\ LastTerm(l) = currentTerm[i] /\ Len(l) \in Nat /\ DOMAIN l = 1..Len(l)
      /\ currentTerm[i] \in Nat /\ k \in Nat
  BY <1>2, LogLinks, LenProperties, ChosenType DEF LogInv, Owned
<1>4. PICK w \in Node : Holds(w, T, K)
  <2>1. PICK Q \in SUBSET Node : IsQuorum(Q) /\ \A v \in Q : Holds(v, T, K)
    BY <1>1 DEF SettledBy, Anchor
  <2> QED BY <2>1, QuorumsMeet
<1>5. PICK r \in Seq(Entry) : r = log[w]
  BY DEF TypeInv, DurableType
<1>6. K \in 1..Len(r) /\ r[K].term = T /\ Links(r) \subseteq AllLinks
  BY <1>1, <1>4, <1>5, TermAtIndex, LogLinks DEF Holds, SettledBy
<1> DEFINE a == [index |-> K, entry |-> r[K], after |-> TermAt(r, K - 1)]
<1>7. a \in AllLinks /\ a.index = K /\ a.entry.term = T
  BY <1>6, LinkAt
<1> HIDE DEF a
<1>8. K \in 1..Len(l) /\ l[K].term = T
  <2>1. CASE LastTerm(l) > T
    <3>1. Len(l) \in 1..Len(l) /\ l[Len(l)].term > T
      BY <1>3, <2>1, LastEntry
    <3>2. SafeIn(AllLinks, T, K) /\ K >= 1
      BY <1>1, <1>6 DEF SettledBy, Anchor, Safe
    <3>3. PICK q \in 1..Len(l) : l[q].term > T
      BY <3>1
    <3>4. PICK S : /\ OneRun(S) /\ Links(l) \subseteq S /\ SafeIn(S, T, K)
                   /\ a \in S /\ a.index = K /\ a.entry.term = T
      BY <1>3, <1>7, <3>2
    <3>5. K \in Nat /\ K >= 1
      BY <3>2
    <3> QED BY <3>3, <3>4, <3>5, SafeReaches
  <2>2. CASE LastTerm(l) = T
    <3>1. a \in Links(l)
      BY <1>2, <1>3, <1>7, <2>2 DEF LogInv, Owned
    <3> QED BY <1>3, <1>7, <3>1 DEF Links
  <2> QED BY <1>1, <1>3, <2>1, <2>2
<1>9. AgreesUpTo(l, k)
  <2>1. TermAt(l, K) = T
    BY <1>3, <1>8 DEF TermAt
  <2> QED BY <1>1, <1>2, <2>1 DEF SettledBy
<1> QED BY <1>2, <1>3, <1>9 DEF AgreesUpTo

\* A leader has everything that was committed in its term or before it, for
\* any number of nodes: the up-to-date test of the vote, votes that survive a
\* crash and the majority of _advance_commit together.
THEOREM LeaderCompletenessHolds == Spec => []LeaderCompleteness
BY GroupInvariant, LeadersAreComplete, PTL

\* GroupInv puts the committed entries on a quorum.
LEMMA CommittedIsOnQuorum ==
  ASSUME GroupInv
  PROVE  CommittedOnQuorum
<1> USE DEF GroupInv
<1> SUFFICES ASSUME NEW k \in 1..Len(chosen)
             PROVE  IsQuorum({j \in Node : k <= Len(log[j]) /\ log[j][k] = chosen[k].entry})
  BY ChosenType DEF CommittedOnQuorum
<1>1. PICK T, K \in Nat : SettledBy(T, K, k)
  BY DEF CommitsInv, ChosenInv
<1>2. PICK Q \in SUBSET Node : IsQuorum(Q) /\ \A v \in Q : Holds(v, T, K)
  BY <1>1 DEF SettledBy, Anchor
<1>3. \A v \in Q : AgreesUpTo(log[v], k)
  BY <1>1, <1>2 DEF SettledBy, Holds
<1> DEFINE R == {j \in Node : k <= Len(log[j]) /\ log[j][k] = chosen[k].entry}
<1>4. Q \subseteq R /\ R \in SUBSET Node
  BY <1>3 DEF AgreesUpTo
<1> HIDE DEF R
<1>5. IsQuorum(R)
  BY <1>2, <1>4, QuorumGrows
<1> QED BY <1>5 DEF R

\* A committed entry is on a majority's logs for ever, whatever crashes and
\* elections follow.
THEOREM CommittedOnQuorumHolds == Spec => []CommittedOnQuorum
BY GroupInvariant, CommittedIsOnQuorum, PTL

\* GroupInv makes match indices true.
LEMMA MatchesAreTrue ==
  ASSUME GroupInv
  PROVE  MatchIsTrue
<1> USE DEF GroupInv
<1> SUFFICES ASSUME NEW i \in Node, NEW j \in Node, role[i] = "leader",
                    currentTerm[j] = currentTerm[i], NEW K, K = matchIndex[i][j]
             PROVE  /\ K <= Len(log[j])
                    /\ \A k \in 1..K : k <= Len(log[i]) /\ log[j][k] = log[i][k]
  BY DEF MatchIsTrue
<1>1. K \in Nat /\ currentTerm[i] \in Nat
  BY DEF TypeInv, LeaderType, DurableType
<1>2. PICK l, r \in Seq(Entry) : l = log[i] /\ r = log[j]
  BY DEF TypeInv, DurableType
<1>3. Len(l) \in Nat /\ Len(r) \in Nat
  BY LenProperties
<1>4. CASE K = 0
  BY <1>2, <1>3, <1>4
<1>5. CASE K >= 1
  <2>1. PICK T \in Nat : T = currentTerm[i] /\ T >= 1
    BY <1>1 DEF LogInv, TermsBounded
  <2>2. AckedAt(j, i, K)
    BY DEF AckedAt
  <2>3. TermAt(l, K) = T /\ TermAt(r, K) = T
    BY <1>1, <1>2, <1>5, <2>1, <2>2 DEF CommitsInv, AckSide, AckInv, Pinned
  <2>4. K \in 1..Len(l) /\ l[K].term = T /\ K \in 1..Len(r) /\ r[K].term = T
    BY <1>1, <2>1, <2>3, TermAtIndex
  <2>5. Links(l) \subseteq AllLinks /\ Links(r) \subseteq AllLinks /\ Unique(AllLinks)
    BY <1>2, LogLinks
  <2>6. \A k \in 1..K : r[k] = l[k]
    BY <2>4, <2>5, LogsAgree
  <2> QED BY <1>2, <1>3, <2>4, <2>6
<1> QED BY <1>1, <1>4, <1>5

\* What a leader believes of a follower of its own term is on that follower's
\* log, entry by entry.
THEOREM MatchIsTrueHolds == Spec => []MatchIsTrue
BY GroupInvariant, MatchesAreTrue, PTL

\* The step predicate of AppliedIsKept.
AppliedKept ==
  \A i \in Node : \A k \in 1..commitIndex[i] :
    k <= Len(log'[i]) /\ log'[i][k] = log[i][k]

\* A log that still starts with what is committed has kept it.
LEMMA AppliedKeptStep ==
  ASSUME GroupInv, [Next]_vars
  PROVE  AppliedKept
<1> SUFFICES ASSUME NEW i \in Node, NEW k \in 1..commitIndex[i]
             PROVE  k <= Len(log'[i]) /\ log'[i][k] = log[i][k]
  BY DEF AppliedKept
<1>1. CommitStep
  BY CommitSteps DEF GroupInv
<1>2. AgreesUpTo(log'[i], commitIndex[i]) /\ AgreesUpTo(log[i], commitIndex[i])
  BY <1>1, LogKeepsCommit DEF GroupInv, CommitsInv, CommitInv
<1>3. commitIndex[i] \in Nat /\ Len(log'[i]) \in Nat
  BY <1>1, StepTypes, LenProperties DEF CommitStep, GoodStep, TypeInv, StoreType
<1> QED BY <1>2, <1>3 DEF AgreesUpTo

\* The conflict cut of _receive_append_entries never reaches into what its own
\* node has committed and applied.
THEOREM AppliedIsKeptHolds == Spec => AppliedIsKept
<1>1. GroupInv /\ [Next]_vars => [AppliedKept]_vars
  BY AppliedKeptStep
<1> QED BY <1>1, GroupInvariant, PTL DEF Spec, AppliedIsKept, AppliedKept

----------------------------------------------------------------------------
(* Accepted writes *)

\* While its leader still leads in the write's term, the write is in its log.
ClientInv ==
  client.op = "write" =>
    \A L \in Node : \A t \in Nat : client.leader = L /\ client.entry.term = t =>
      /\ client.index >= 1 /\ currentTerm[L] >= t
      /\ currentTerm[L] = t =>
           /\ role[L] # "candidate"
           /\ role[L] = "leader" =>
                client.index <= Len(log[L]) /\ log[L][client.index] = client.entry

\* The call in progress, by its type.
LEMMA WriteFields ==
  ASSUME TypeInv, client.op = "write"
  PROVE  client.leader \in Node /\ client.index \in Nat /\ client.entry \in Entry
         /\ client.entry.term \in Nat
BY DEF TypeInv, OtherType, Call, Idle, Entry

\* ClientInv is kept.
LEMMA ClientInvStep ==
  ASSUME CommitStep, ClientStep, ClientInv
  PROVE  ClientInv'
<1> USE DEF CommitStep
<1> SUFFICES ASSUME client'.op = "write", NEW L \in Node, NEW t \in Nat,
                    client'.leader = L, client'.entry.term = t
             PROVE  /\ client'.index >= 1 /\ currentTerm'[L] >= t
                    /\ currentTerm'[L] = t =>
                         /\ role'[L] # "candidate"
                         /\ role'[L] = "leader" =>
                              /\ client'.index <= Len(log'[L])
                              /\ log'[L][client'.index] = client'.entry
  BY DEF ClientInv
<1>0. /\ currentTerm[L] \in Nat /\ currentTerm'[L] \in Nat /\ currentTerm'[L] >= currentTerm[L]
      /\ Len(log[L]) \in Nat /\ Len(log'[L]) \in Nat
  BY StepTypes, LenProperties
<1>1. CASE client' = client
  <2>1. PICK x \in Nat : x = client.index
    BY <1>1, WriteFields DEF GoodStep
  <2>2. /\ x >= 1 /\ currentTerm[L] >= t
        /\ currentTerm[L] = t =>
             /\ role[L] # "candidate"
             /\ role[L] = "leader" => x <= Len(log[L]) /\ log[L][x] = client.entry
    BY <1>1, <2>1 DEF ClientInv
  <2>3. ASSUME currentTerm'[L] = t PROVE role'[L] # "candidate"
    BY <1>0, <2>2, <2>3 DEF GoodStep, Summary, RolesStep
  <2>4. ASSUME currentTerm'[L] = t, role'[L] = "leader"
        PROVE  x <= Len(log'[L]) /\ log'[L][x] = client.entry
    <3>1. currentTerm[L] = t /\ role[L] = "leader" /\ (log'[L] = log[L] \/ Grew(L))
      BY <2>2, <2>4, LeaderBefore
    <3>2. x \in 1..Len(log[L]) /\ log[L][x] = client.entry
      BY <1>0, <2>2, <3>1
    <3>3. CASE Grew(L)
      <4>1. Len(log'[L]) = Len(log[L]) + 1 /\ \A k \in 1..Len(log[L]) : log'[L][k] = log[L][k]
        BY <3>3, GrewLinks
      <4> QED BY <1>0, <3>2, <4>1
    <3> QED BY <3>1, <3>2, <3>3
  <2> QED BY <1>0, <1>1, <2>1, <2>2, <2>3, <2>4
<1>2. ASSUME role'[L] = "leader", client'.index = Len(log'[L]), Len(log'[L]) >= 1,
             client'.entry = log'[L][Len(log'[L])], client'.entry.term = currentTerm'[L]
      PROVE  /\ client'.index >= 1 /\ currentTerm'[L] >= t
             /\ currentTerm'[L] = t =>
                  /\ role'[L] # "candidate"
                  /\ role'[L] = "leader" =>
                       /\ client'.index <= Len(log'[L])
                       /\ log'[L][client'.index] = client'.entry
  BY <1>0, <1>2
<1> QED BY <1>1, <1>2 DEF ClientStep

\* The inductive invariant with the client's call.
LEMMA ClientInvariant == Spec => [](GroupInv /\ ClientInv)
<1>1. Init => ClientInv
  BY DEF Init, Idle, ClientInv
<1>2. GroupInv /\ ClientInv /\ [Next]_vars => ClientInv'
  BY CommitSteps, ClientStepHolds, ClientInvStep DEF GroupInv
<1> QED BY <1>1, <1>2, GroupInvariant, PTL DEF Spec

\* What a leader has committed of its own log is committed.
LEMMA WritesAreCommitted ==
  ASSUME GroupInv, ClientInv
  PROVE  AcceptedIsCommitted
<1> USE DEF GroupInv
<1> SUFFICES ASSUME client.op = "write", WriteCommitted
             PROVE  client.index <= Len(chosen) /\ chosen[client.index].entry = client.entry
  BY DEF AcceptedIsCommitted
<1>1. PICK L \in Node, x \in Nat, t \in Nat :
        L = client.leader /\ x = client.index /\ t = client.entry.term
  BY WriteFields
<1>2. role[L] = "leader" /\ currentTerm[L] = t /\ commitIndex[L] >= x
  BY <1>1 DEF WriteCommitted
<1>3. x >= 1 /\ x <= Len(log[L]) /\ log[L][x] = client.entry
  BY <1>1, <1>2 DEF ClientInv
<1>4. commitIndex[L] \in Nat /\ Len(chosen) \in Nat
  BY ChosenType DEF TypeInv, StoreType
<1>5. AgreesUpTo(log[L], commitIndex[L])
  BY DEF CommitsInv, CommitInv
<1>6. x \in 1..commitIndex[L]
  BY <1>2, <1>3, <1>4
<1>7. x <= Len(chosen) /\ log[L][x] = chosen[x].entry
  BY <1>2, <1>4, <1>5, <1>6 DEF AgreesUpTo
<1> QED BY <1>1, <1>3, <1>7

\* What client_write reports as accepted is its own entry, committed: the index
\* that _wait_for_commit looks at has not been given to another leader's entry.
THEOREM AcceptedIsCommittedHolds == Spec => []AcceptedIsCommitted
BY ClientInvariant, WritesAreCommitted, PTL

----------------------------------------------------------------------------
(* The replicated log *)

\* The commands of a committed sequence, and the store after the first n of them.
Commands(s) ==
  [k \in DOMAIN s |-> [key |-> s[k].entry.key, value |-> s[k].entry.value]]

Writes(s, n, k) == {j \in 1..n : s[j].entry.key = k}

ViewOf(s, n) ==
  [k \in Key |-> IF Writes(s, n, k) = {} THEN None
                 ELSE s[CHOOSE j \in Writes(s, n, k) :
                          \A w \in Writes(s, n, k) : w <= j].entry.value]

\* The last of a nonempty set of writes.
LEMMA LastWrite ==
  ASSUME NEW W \in SUBSET Nat, W # {}, NEW n \in Nat, \A w \in W : w <= n
  PROVE  /\ (CHOOSE j \in W : \A w \in W : w <= j) \in W
         /\ \A w \in W : w <= (CHOOSE j \in W : \A w2 \in W : w2 <= j)
<1>1. \E j \in W : \A w \in W : w <= j
  BY GreatestNat
<1> QED BY <1>1

\* Of a set and its later part, the last is the same.
LEMMA LaterPart ==
  ASSUME NEW B \in SUBSET Nat, NEW W \in SUBSET B, W # {}, NEW n \in Nat,
         \A b \in B : b <= n, \A b \in B \ W : \A w \in W : b <= w
  PROVE  (CHOOSE j \in W : \A w \in W : w <= j) = (CHOOSE j \in B : \A w \in B : w <= j)
<1>1. PICK x : x = CHOOSE j \in W : \A w \in W : w <= j
  OBVIOUS
<1>2. PICK y : y = CHOOSE j \in B : \A w \in B : w <= j
  OBVIOUS
<1>3. x \in W /\ \A w \in W : w <= x
  BY <1>1, LastWrite
<1>4. y \in B /\ \A w \in B : w <= y
  BY <1>2, LastWrite
<1>5. x <= y /\ x \in Nat /\ y \in Nat
  BY <1>3, <1>4
<1>6. y <= x
  BY <1>3, <1>4, <1>5
<1>7. x = y
  BY <1>5, <1>6
<1> QED BY <1>1, <1>2, <1>7

\* A store is decided by the entries that it has applied.
LEMMA SameView ==
  ASSUME NEW s, NEW r, NEW n \in Nat, \A j \in 1..n : s[j] = r[j]
  PROVE  ViewOf(s, n) = ViewOf(r, n)
<1> SUFFICES ASSUME NEW k \in Key
             PROVE  (IF Writes(s, n, k) = {} THEN None
                     ELSE s[CHOOSE j \in Writes(s, n, k) :
                              \A w \in Writes(s, n, k) : w <= j].entry.value)
                  = (IF Writes(r, n, k) = {} THEN None
                     ELSE r[CHOOSE j \in Writes(r, n, k) :
                              \A w \in Writes(r, n, k) : w <= j].entry.value)
  BY DEF ViewOf
<1>1. PICK W : W = Writes(s, n, k)
  OBVIOUS
<1>2. W = Writes(r, n, k) /\ W \in SUBSET Nat /\ W \subseteq 1..n /\ \A w \in W : w <= n
  BY <1>1 DEF Writes
<1>3. CASE W # {}
  <2>1. (CHOOSE j \in W : \A w \in W : w <= j) \in W
    BY <1>2, <1>3, LastWrite
  <2>2. s[CHOOSE j \in W : \A w \in W : w <= j] = r[CHOOSE j \in W : \A w \in W : w <= j]
    BY <1>2, <2>1
  <2> QED BY <1>1, <1>2, <1>3, <2>2
<1> QED BY <1>1, <1>2, <1>3

\* _apply_committed: replaying the committed entries from+1..to on the store
\* after the first `from` of them gives the store after the first `to`.
LEMMA ReplayIsView ==
  ASSUME NEW s, NEW l, NEW from \in Nat, NEW to \in Nat, from <= to,
         \A j \in 1..to : l[j] = s[j].entry
  PROVE  Replay(ViewOf(s, from), l, from, to) = ViewOf(s, to)
<1> DEFINE new(k) == {j \in from+1..to : l[j].key = k}
<1>1. Replay(ViewOf(s, from), l, from, to)
      = [k \in Key |-> IF new(k) = {} THEN ViewOf(s, from)[k]
                       ELSE l[CHOOSE j \in new(k) : \A w \in new(k) : w <= j].value]
  BY DEF Replay
<1> SUFFICES ASSUME NEW k \in Key
             PROVE  (IF new(k) = {} THEN ViewOf(s, from)[k]
                     ELSE l[CHOOSE j \in new(k) : \A w \in new(k) : w <= j].value)
                  = (IF Writes(s, to, k) = {} THEN None
                     ELSE s[CHOOSE j \in Writes(s, to, k) :
                              \A w \in Writes(s, to, k) : w <= j].entry.value)
  <2> HIDE DEF new
  <2> QED BY <1>1 DEF ViewOf
<1>2. PICK W, A, B : W = new(k) /\ A = Writes(s, from, k) /\ B = Writes(s, to, k)
  OBVIOUS
<1>3. /\ W \subseteq from+1..to /\ A \subseteq 1..from
      /\ B = A \cup W /\ B \in SUBSET Nat /\ W \in SUBSET B /\ \A b \in B : b <= to
  BY <1>2 DEF Writes
<1>4. ViewOf(s, from)[k] = IF A = {} THEN None
                           ELSE s[CHOOSE j \in A : \A w \in A : w <= j].entry.value
  BY <1>2 DEF ViewOf
<1>5. CASE W = {}
  BY <1>2, <1>3, <1>4, <1>5
<1>6. CASE W # {}
  <2>1. (CHOOSE j \in W : \A w \in W : w <= j) = (CHOOSE j \in B : \A w \in B : w <= j)
    <3>1. \A b \in B \ W : \A w \in W : b <= w
      BY <1>3
    <3> QED BY <1>3, <1>6, <3>1, LaterPart
  <2>2. (CHOOSE j \in W : \A w \in W : w <= j) \in W
    <3>1. W \in SUBSET Nat /\ \A w \in W : w <= to
      BY <1>3
    <3> QED BY <1>6, <3>1, LastWrite
  <2>3. PICK x : x = CHOOSE j \in W : \A w \in W : w <= j
    OBVIOUS
  <2>4. x \in 1..to
    <3>1. x \in W
      BY <2>2, <2>3
    <3>2. \A j \in W : j \in 1..to
      BY <1>3
    <3> QED BY <3>1, <3>2
  <2>5. l[x].value = s[x].entry.value
    BY <2>4
  <2> HIDE DEF new
  <2>6. l[CHOOSE j \in new(k) : \A w \in new(k) : w <= j].value = l[x].value
    BY <1>2, <2>3
  <2>7. s[CHOOSE j \in Writes(s, to, k) : \A w \in Writes(s, to, k) : w <= j].entry.value
        = s[x].entry.value
    BY <1>2, <2>1, <2>3
  <2>8. new(k) # {} /\ Writes(s, to, k) # {}
    BY <1>2, <1>3, <1>6
  <2> QED BY <2>5, <2>6, <2>7, <2>8
<1> QED BY <1>5, <1>6

\* Every node's store is that of the prefix it has committed.
StoreInv == \A n \in Node : data[n] = ViewOf(chosen, commitIndex[n])

\* Before anything is applied a store is empty.
LEMMA EmptyView == ASSUME NEW s PROVE ViewOf(s, 0) = EmptyStore
<1>1. \A k : Writes(s, 0, k) = {}
  BY DEF Writes
<1> QED BY <1>1 DEF ViewOf, EmptyStore

\* Where a store moves to: the prefix of its new commit index.
LEMMA StoreMoves ==
  ASSUME CommitStep, CommitsInv, CommitInv', StoreInv, NEW i \in Node, NEW c, c = commitIndex'[i],
         data'[i] = Replay(data[i], log'[i], commitIndex[i], c),
         Commits(i, c) \/ \E m \in Appends :
                             Follows(i, m) /\ c = FollowerCommit(commitIndex[i], log'[i], m)
  PROVE  c \in commitIndex[i]..Len(chosen') /\ data'[i] = ViewOf(chosen', c)
<1> USE DEF CommitStep, CommitsInv
<1>1. PICK l, from : l = log'[i] /\ from = commitIndex[i]
  OBVIOUS
<1>2. from \in Nat /\ c \in Nat /\ Len(l) \in Nat
  BY <1>1, StepTypes, LenProperties DEF GoodStep, TypeInv, StoreType
<1>3. AgreesUpTo(l, c)'
  BY <1>1 DEF CommitInv, AgreesUpTo
<1>4. from <= c
  <2>1. CASE Commits(i, c)
    BY <1>1, <1>2, <2>1, StepTypes, LenProperties DEF Commits
  <2>2. ASSUME NEW m \in Appends, Follows(i, m), c = FollowerCommit(from, l, m)
        PROVE  from <= c
    <3>1. m.commit \in Nat
      BY AppendFields DEF GoodStep
    <3>2. m.commit >= 1 => m.commit <= Len(l)
      BY <1>1, <2>2, FollowedCommit
    <3> QED BY <1>2, <2>2, <3>1, <3>2 DEF FollowerCommit, Smaller
  <2> QED BY <1>1, <2>1, <2>2
<1>5. ViewOf(chosen, from) = ViewOf(chosen', from)
  <2>1. AgreesUpTo(log[i], from)
    BY <1>1 DEF CommitInv
  <2>2. \A j \in 1..from : chosen[j] = chosen'[j]
    BY <1>2, <2>1, ChosenGrows DEF AgreesUpTo
  <2> QED BY <1>2, <2>2, SameView
<1>6. PICK s : s = chosen'
  OBVIOUS
<1>7. c <= Len(s) /\ \A j \in 1..c : l[j] = s[j].entry
  BY <1>3, <1>6 DEF AgreesUpTo
<1>8. Replay(ViewOf(s, from), l, from, c) = ViewOf(s, c)
  <2>1. \A j \in 1..c : l[j] = s[j].entry
    BY <1>7
  <2>2. /\ from \in Nat /\ c \in Nat /\ from <= c
    BY <1>2, <1>4
  <2> QED BY ONLY <2>1, <2>2, ReplayIsView
<1>9. data'[i] = Replay(ViewOf(s, from), l, from, c)
  BY <1>1, <1>5, <1>6 DEF StoreInv
<1> QED BY <1>1, <1>2, <1>4, <1>6, <1>7, <1>8, <1>9, ChosenGrows

\* A step leaves every store alone, or brings one node's to a prefix.
Moves(i) ==
  /\ commitIndex' = [commitIndex EXCEPT ![i] = commitIndex'[i]]
  /\ data' = [data EXCEPT ![i] = data'[i]]
  /\ \/ UNCHANGED <<commitIndex, data, chosen>>
     \/ commitIndex'[i] = 0 /\ data'[i] = EmptyStore /\ UNCHANGED chosen
     \/ /\ commitIndex'[i] \in commitIndex[i]..Len(chosen')
        /\ data'[i] = ViewOf(chosen', commitIndex'[i])

\* Every step moves the store of at most one node.
LEMMA OneMoves ==
  ASSUME CommitStep, CommitsInv, CommitInv', StoreInv
  PROVE  \E i \in Node : Moves(i)
BY StoreMoves DEF CommitStep, GoodStep, Summary, StoreStep, Moves

\* StoreInv is kept.
LEMMA StoreInvStep ==
  ASSUME CommitStep, CommitsInv, CommitInv', StoreInv
  PROVE  StoreInv'
<1> USE DEF CommitStep
<1> SUFFICES ASSUME NEW n \in Node PROVE data'[n] = ViewOf(chosen', commitIndex'[n])
  BY DEF StoreInv, ViewOf, Writes
<1>1. PICK i \in Node : Moves(i)
  BY OneMoves
<1>2. commitIndex \in [Node -> Nat] /\ data \in [Node -> Store]
  BY DEF GoodStep, TypeInv, StoreType
<1>3. CASE n = i
  BY <1>1, <1>3, EmptyView DEF Moves, StoreInv
<1>4. CASE n # i
  <2>1. data'[n] = data[n] /\ commitIndex'[n] = commitIndex[n] /\ commitIndex[n] \in Nat
    BY <1>1, <1>2, <1>4 DEF Moves
  <2>2. AgreesUpTo(log[n], commitIndex[n])
    BY DEF CommitsInv, CommitInv
  <2>3. \A j \in 1..commitIndex[n] : chosen[j] = chosen'[j]
    BY <2>1, <2>2, ChosenGrows DEF AgreesUpTo
  <2>4. ViewOf(chosen, commitIndex[n]) = ViewOf(chosen', commitIndex[n])
    BY <2>1, <2>3, SameView
  <2> QED BY <2>1, <2>4 DEF StoreInv
<1> QED BY <1>3, <1>4

\* The committed sequence, as the abstract log has it.
LEMMA CommandsType ==
  ASSUME NEW s \in Seq([entry : Entry, at : Nat])
  PROVE  /\ Commands(s) \in Seq(Abstract!Command) /\ Len(Commands(s)) = Len(s)
         /\ DOMAIN Commands(s) = 1..Len(s) /\ Len(s) \in Nat
         /\ \A k \in 1..Len(s) :
              /\ Commands(s)[k] = [key |-> s[k].entry.key, value |-> s[k].entry.value]
              /\ Commands(s)[k] \in Abstract!Command
<1>1. /\ Len(s) \in Nat /\ DOMAIN s = 1..Len(s)
      /\ \A k \in 1..Len(s) : s[k] \in [entry : Entry, at : Nat]
  BY LenProperties, ElementOfSeq
<1>2. \A k \in 1..Len(s) : s[k].entry \in Entry
  BY <1>1
<1>3. \A k \in 1..Len(s) :
        [key |-> s[k].entry.key, value |-> s[k].entry.value] \in Abstract!Command
  BY <1>2 DEF Entry, Abstract!Command
<1>4. Commands(s) \in [1..Len(s) -> Abstract!Command]
  BY <1>1, <1>3 DEF Commands
<1>5. Commands(s) \in Seq(Abstract!Command)
  BY <1>1, <1>4, FunctionIsSeq
<1>6. Len(Commands(s)) = Len(s) /\ DOMAIN Commands(s) = 1..Len(s)
  BY <1>1, <1>4, <1>5, LenProperties
<1> QED BY <1>1, <1>3, <1>5, <1>6 DEF Commands

\* The abstract log's view of the committed sequence.
LEMMA AbstractView ==
  ASSUME NEW s \in Seq([entry : Entry, at : Nat]), NEW n \in 0..Len(s)
  PROVE  Abstract!View(Commands(s), n) = ViewOf(s, n)
<1> DEFINE c == Commands(s)
           writes(k) == {j \in 1..n : c[j].key = k}
<1>1. /\ Len(s) \in Nat /\ n \in Nat
      /\ \A j \in 1..n : c[j].key = s[j].entry.key /\ c[j].value = s[j].entry.value
  <2> HIDE DEF c
  <2>1. /\ Len(s) \in Nat
        /\ \A j \in 1..Len(s) : c[j] = [key |-> s[j].entry.key, value |-> s[j].entry.value]
    BY CommandsType DEF c
  <2>2. n \in Nat /\ \A j \in 1..n : j \in 1..Len(s)
    BY <2>1
  <2>3. ASSUME NEW j \in 1..n
        PROVE  c[j].key = s[j].entry.key /\ c[j].value = s[j].entry.value
    <3>1. c[j] = [key |-> s[j].entry.key, value |-> s[j].entry.value]
      BY <2>1, <2>2
    <3> QED BY <3>1
  <2> QED BY <2>1, <2>2, <2>3
<1>2. Abstract!View(c, n)
      = [k \in Key |-> IF writes(k) = {} THEN None
                       ELSE c[CHOOSE j \in writes(k) : \A w \in writes(k) : w <= j].value]
  BY DEF Abstract!View
<1>3. ASSUME NEW k \in Key
      PROVE  (IF writes(k) = {} THEN None
              ELSE c[CHOOSE j \in writes(k) : \A w \in writes(k) : w <= j].value)
           = (IF Writes(s, n, k) = {} THEN None
              ELSE s[CHOOSE j \in Writes(s, n, k) :
                       \A w \in Writes(s, n, k) : w <= j].entry.value)
  <2>1. PICK W : W = Writes(s, n, k)
    OBVIOUS
  <2>2. writes(k) = W /\ W \in SUBSET Nat /\ W \subseteq 1..n /\ \A w \in W : w <= n
    BY <1>1, <2>1 DEF Writes
  <2> HIDE DEF writes, c
  <2>3. CASE W # {}
    <3>1. (CHOOSE j \in W : \A w \in W : w <= j) \in W
      BY <1>1, <2>2, <2>3, LastWrite
    <3>2. PICK x : x = CHOOSE j \in W : \A w \in W : w <= j
      OBVIOUS
    <3>3. x \in 1..n
      BY <2>2, <3>1, <3>2
    <3>4. c[x].value = s[x].entry.value
      BY <1>1, <3>3
    <3>5. c[CHOOSE j \in writes(k) : \A w \in writes(k) : w <= j].value = c[x].value
      BY <2>2, <3>2
    <3>6. s[CHOOSE j \in Writes(s, n, k) : \A w \in Writes(s, n, k) : w <= j].entry.value
          = s[x].entry.value
      BY <2>1, <3>2
    <3> QED BY <2>1, <2>2, <2>3, <3>4, <3>5, <3>6
  <2> QED BY <2>1, <2>2, <2>3
<1> HIDE DEF writes, c
<1>4. Abstract!View(c, n) = ViewOf(s, n)
  BY <1>2, <1>3 DEF ViewOf
<1> QED BY <1>4 DEF c

\* The abstract log starts a store empty.
LEMMA AbstractEmpty == Abstract!View(<<>>, 0) = EmptyStore
<1>1. \A k : {j \in 1..0 : <<>>[j].key = k} = {}
  OBVIOUS
<1> QED BY <1>1 DEF Abstract!View, EmptyStore

\* The committed sequence that the abstract log sees.
LEMMA AbstractCommitted ==
  [k \in DOMAIN chosen |-> [key |-> chosen[k].entry.key, value |-> chosen[k].entry.value]]
  = Commands(chosen)
BY DEF Commands

\* Before any step the abstract log is empty too.
LEMMA AbstractInit == Init => Abstract!Init
<1> SUFFICES ASSUME Init PROVE Abstract!Init
  OBVIOUS
<1>1. Commands(chosen) = <<>>
  <2>1. chosen \in Seq([entry : Entry, at : Nat]) /\ Len(chosen) = 0
    BY DEF Init
  <2>2. Commands(chosen) \in Seq(Abstract!Command) /\ Len(Commands(chosen)) = 0
    BY <2>1, CommandsType
  <2> QED BY <2>2, EmptySeq
<1>2. commitIndex = [n \in Node |-> 0] /\ data = [n \in Node |-> Abstract!View(<<>>, 0)]
  BY AbstractEmpty DEF Init
<1> QED BY <1>1, <1>2 DEF Abstract!Init, Commands

\* Every step of the group is one of the abstract log or leaves it alone.
LEMMA AbstractStep ==
  ASSUME CommitStep, CommitsInv, CommitInv', StoreInv
  PROVE  [Abstract!Next]_(Abstract!vars)
<1> USE DEF CommitStep
<1> DEFINE c == [k \in DOMAIN chosen |-> [key |-> chosen[k].entry.key,
                                           value |-> chosen[k].entry.value]]
           d == [k \in DOMAIN chosen' |-> [key |-> chosen'[k].entry.key,
                                            value |-> chosen'[k].entry.value]]
<1>0. c = Commands(chosen) /\ d = Commands(chosen')
  BY DEF Commands
<1>1. /\ chosen \in Seq([entry : Entry, at : Nat]) /\ chosen' \in Seq([entry : Entry, at : Nat])
      /\ commitIndex \in [Node -> Nat] /\ data \in [Node -> Store]
      /\ commitIndex' \in [Node -> Nat]
  BY DEF GoodStep, TypeInv, StoreType
<1>2. /\ c \in Seq(Abstract!Command) /\ Len(c) = Len(chosen) /\ Len(chosen) \in Nat
      /\ d \in Seq(Abstract!Command) /\ Len(d) = Len(chosen') /\ Len(chosen') \in Nat
      /\ DOMAIN d = 1..Len(chosen')
      /\ \A k \in 1..Len(chosen') : d[k] \in Abstract!Command
  BY <1>0, <1>1, CommandsType
<1>3. Len(d) >= Len(c) /\ \A k \in 1..Len(c) : d[k] = c[k]
  <2>1. \A k \in 1..Len(chosen) : chosen'[k] = chosen[k] /\ k \in 1..Len(chosen')
    BY <1>2, ChosenGrows
  <2>2. \A k \in 1..Len(chosen) :
          /\ c[k] = [key |-> chosen[k].entry.key, value |-> chosen[k].entry.value]
          /\ d[k] = [key |-> chosen'[k].entry.key, value |-> chosen'[k].entry.value]
    BY <1>0, <1>1, <2>1, CommandsType
  <2> HIDE DEF c, d
  <2> QED BY <1>2, <2>1, <2>2, ChosenGrows
<1>4. SubSeq(d, 1, Len(c)) = c
  <2> HIDE DEF c, d
  <2>1. /\ SubSeq(d, 1, Len(c)) \in Seq(Abstract!Command)
        /\ Len(SubSeq(d, 1, Len(c))) = Len(c)
        /\ \A k \in 1..Len(c) : SubSeq(d, 1, Len(c))[k] = d[k]
    <3>1. \A k \in 1..Len(c) : d[k] \in Abstract!Command
      BY <1>2, <1>3
    <3> QED BY <1>2, <1>3, <3>1, SubSeqProperties
  <2> QED BY <1>2, <1>3, <2>1, SeqEqual
<1>5. Abstract!Grow
  BY <1>2, <1>3, <1>4 DEF Abstract!Grow
<1>6. PICK i \in Node : Moves(i)
  BY OneMoves
<1>7. CASE UNCHANGED <<commitIndex, data, chosen>>
  BY <1>7 DEF Abstract!vars
<1>8. CASE commitIndex'[i] = 0 /\ data'[i] = EmptyStore /\ UNCHANGED chosen
  <2>1. Abstract!Restart(i)
    BY <1>6, <1>8, AbstractEmpty DEF Moves, Abstract!Restart
  <2> QED BY <2>1 DEF Abstract!Next
<1>9. CASE /\ commitIndex'[i] \in commitIndex[i]..Len(chosen')
           /\ data'[i] = ViewOf(chosen', commitIndex'[i])
  <2>1. PICK k \in Nat : k = commitIndex'[i]
    BY <1>1
  <2>2. Abstract!View(d, k) = ViewOf(chosen', k)
    <3>1. k \in 0..Len(chosen')
      BY <1>1, <1>2, <1>9, <2>1
    <3> QED BY <1>0, <1>1, <3>1, AbstractView
  <2>3. /\ k \in commitIndex[i]..Len(d)
        /\ commitIndex' = [commitIndex EXCEPT ![i] = k]
        /\ data' = [data EXCEPT ![i] = Abstract!View(d, k)]
    BY <1>2, <1>6, <1>9, <2>1, <2>2 DEF Moves
  <2>4. Abstract!Apply(i)
    BY <1>5, <2>3 DEF Abstract!Apply
  <2> QED BY <2>4 DEF Abstract!Next
<1> QED BY <1>6, <1>7, <1>8, <1>9 DEF Moves

\* The inductive invariant with the stores.
LEMMA StoreInvariant == Spec => [](GroupInv /\ StoreInv)
<1>1. Init => StoreInv
  BY EmptyView DEF Init, StoreInv
<1>2. GroupInv /\ GroupInv' /\ StoreInv /\ [Next]_vars => StoreInv'
  BY CommitSteps, StoreInvStep DEF GroupInv, CommitsInv
<1> QED BY <1>1, <1>2, GroupInvariant, PTL DEF Spec

\* The group is one replicated log: there is one sequence of committed commands
\* which only grows, and every node's store is always the effect of a prefix of
\* it, applied in order and never twice, through every commit, conflict and crash.
THEOREM ImplementsLogHolds == Spec => ImplementsLog
<1>1. Init => Abstract!Init
  BY AbstractInit
<1>2. GroupInv /\ GroupInv' /\ StoreInv /\ [Next]_vars => [Abstract!Next]_(Abstract!vars)
  BY CommitSteps, AbstractStep DEF GroupInv, CommitsInv
<1> QED BY <1>1, <1>2, StoreInvariant, PTL DEF Spec, ImplementsLog, Abstract!Spec

----------------------------------------------------------------------------
(* The order of messages.  The group's messages travel in one queue, so what *)
(* a node sent before it stood for election is answered before its votes     *)
(* come in: a leader never meets an answer to what it sent in another term.  *)

Own(m, L) == m.type = "Append" /\ m.src = L
Echo(m, L, t) == m.type = "AppendResponse" /\ m.dst = L /\ m.term = t
Ask(m, L, t) == m.type = "RequestVote" /\ m.src = L /\ m.term = t
Ballot(m, L, t) == m.type = "VoteResponse" /\ m.dst = L /\ m.term = t /\ m.granted

\* A leader sends what its log holds from the receiver's next index on, for
\* no read, for the read that it begins, or for the one that a refusal names.
LeaderSends(m) ==
  /\ m.type = "Append" /\ role'[m.src] = "leader" /\ m.term = currentTerm'[m.src]
  /\ m.prevIndex = nextIndex'[m.src][m.dst] - 1
  /\ m.entries = SubSeq(log'[m.src], nextIndex'[m.src][m.dst], Len(log'[m.src]))
  /\ \/ m.ctx = 0
     \/ m.ctx = nextContext /\ nextContext' = nextContext + 1
     \/ /\ queue # <<>> /\ Echo(queue[1], m.src, currentTerm[m.src])
        /\ ~queue[1].success /\ queue[1].ctx = m.ctx

\* The answer m to the message h.
Answers(h, m) ==
  \/ /\ h.type = "RequestVote" /\ m.type = "VoteResponse"
     /\ m.granted => Ask(h, m.dst, m.term)
     /\ m.term = currentTerm'[m.src]
  \/ /\ Own(h, m.dst) /\ m.type = "AppendResponse" /\ m.ctx = h.ctx /\ m.src = h.dst
     /\ m.term = currentTerm'[m.src] /\ m.term >= h.term
     /\ m.success => m.term = h.term /\ m.match = h.prevIndex + Len(h.entries)
     /\ ~m.success /\ m.term = h.term => m.conflict <= h.prevIndex

\* A message sent in a step that takes d messages from the queue.
SentIn(d, m) ==
  \/ LeaderSends(m)
  \/ m.type = "RequestVote"
  \/ d = 1 /\ Answers(queue[1], m)

\* The step takes d messages from the front of the queue, and sends at its end.
TakesAndSends(d) ==
  /\ d <= Len(queue) /\ Len(queue') >= Len(queue) - d
  /\ \A k \in 1..Len(queue) - d : queue'[k] = queue[k + d]
  /\ \A k \in 1..Len(queue') : k > Len(queue) - d => SentIn(d, queue'[k])

QueueStep == \E d \in {0, 1} : TakesAndSends(d)

\* Leader L begins a read.
BeginsRead(L) ==
  /\ client' = [op |-> "read", leader |-> L, ctx |-> nextContext, floor |-> Len(chosen)]
  /\ nextContext' = nextContext + 1
  /\ readAcks'[L] = readAcks[L] \cup {<<nextContext, L>>}

\* What a step may do to the cursors of a leader.
SameCursors(L) ==
  /\ role[L] = "leader" /\ log'[L] = log[L] /\ commitIndex'[L] = commitIndex[L]
  /\ nextIndex'[L] = nextIndex[L] /\ matchIndex'[L] = matchIndex[L]
  /\ readAcks'[L] \subseteq readAcks[L] \/ BeginsRead(L)

PutsEntry(L) ==
  /\ role[L] = "leader" /\ Grew(L) /\ commitIndex'[L] = commitIndex[L]
  /\ nextIndex'[L] = nextIndex[L] /\ readAcks'[L] = readAcks[L]
  /\ matchIndex'[L] = [matchIndex[L] EXCEPT ![L] = Len(log'[L])]

TakesOver(L) ==
  /\ role[L] = "candidate" /\ queue # <<>> /\ Ballot(queue[1], L, currentTerm[L])
  /\ Grew(L) /\ readAcks'[L] = readAcks[L]
  /\ nextIndex'[L] = [j \in Node |-> Len(log[L]) + 1]
  /\ matchIndex'[L] = [j \in Node |-> IF j = L THEN Len(log[L]) + 1 ELSE 0]

IsRefused(L) ==
  /\ role[L] = "leader" /\ queue # <<>> /\ Echo(queue[1], L, currentTerm[L])
  /\ ~queue[1].success /\ log'[L] = log[L] /\ commitIndex'[L] = commitIndex[L]
  /\ nextIndex'[L] = [nextIndex[L] EXCEPT ![queue[1].src] = Larger(1, queue[1].conflict)]
  /\ matchIndex'[L] = matchIndex[L] /\ readAcks'[L] = readAcks[L]

IsAcked(L) ==
  /\ role[L] = "leader" /\ queue # <<>> /\ Echo(queue[1], L, currentTerm[L])
  /\ queue[1].success /\ log'[L] = log[L]
  /\ matchIndex'[L] = [matchIndex[L] EXCEPT ![queue[1].src] = Larger(@, queue[1].match)]
  /\ nextIndex'[L] = [nextIndex[L] EXCEPT ![queue[1].src] = matchIndex'[L][queue[1].src] + 1]
  /\ readAcks'[L] = WithAck(L, queue[1])
  /\ commitIndex'[L] >= commitIndex[L]
  /\ \A k \in commitIndex'[L]+1..Len(log[L]) :
       ~(IsQuorum({j \in Node : matchIndex'[L][j] >= k}) /\ log[L][k].term = currentTerm[L])

CursorStep ==
  \A L \in Node : role'[L] = "leader" =>
    SameCursors(L) \/ PutsEntry(L) \/ TakesOver(L) \/ IsRefused(L) \/ IsAcked(L)

\* Acknowledgements are of leaders; a read is the one it was, or one that begins.
ReadStep ==
  /\ \A L \in Node : role'[L] # "leader" =>
       \/ readAcks'[L] = {}
       \/ role[L] # "leader" /\ readAcks'[L] \subseteq readAcks[L]
  /\ nextContext' >= nextContext
  /\ \/ client' = client
     \/ client'.op # "read"
     \/ \E L \in Node : role[L] = "leader" /\ role'[L] = "leader" /\ SameCursors(L) /\ BeginsRead(L)

TrafficStep == QueueStep /\ CursorStep /\ ReadStep

\* Messages are added behind those that are in the queue.
LEMMA EnqueuedOrder ==
  ASSUME NEW S, NEW q \in Seq(S), NEW out \in SUBSET S, IsFiniteSet(out), NEW c,
         NEW r \in Enqueued(q, out, c)
  PROVE  /\ Len(q) \in Nat /\ Len(r) \in Nat /\ Len(r) >= Len(q)
         /\ \A k \in 1..Len(q) : r[k] = q[k]
         /\ \A k \in 1..Len(r) : k > Len(q) => r[k] \in out
<1> DEFINE sent == Sendable(out, c)
<1>1. Cardinality(sent) \in Nat /\ sent \subseteq out
  BY FS_Subset, FS_CardinalityType DEF Sendable
<1>2. PICK s \in InOrder(sent) : r = q \o s
  BY DEF Enqueued
<1>3. s \in Seq(out) /\ s \in Seq(S)
  <2>1. PICK n \in Nat : s \in [1..n -> sent]
    BY <1>1 DEF InOrder
  <2>2. s \in [1..n -> out] /\ s \in [1..n -> S]
    BY <2>1, <1>1
  <2> QED BY <2>1, <2>2
<1>4. r \in Seq(S) /\ Len(r) = Len(q) + Len(s) /\ Len(q) \in Nat /\ Len(s) \in Nat
  BY <1>2, <1>3, ConcatProperties, LenProperties
<1>5. \A k \in 1..Len(q) : r[k] = q[k]
  BY <1>2, <1>3, <1>4, ConcatProperties
<1>6. ASSUME NEW k \in 1..Len(r), k > Len(q) PROVE r[k] \in out
  <2>1. r[k] = s[k - Len(q)] /\ k - Len(q) \in 1..Len(s)
    BY <1>2, <1>3, <1>4, <1>6, ConcatProperties
  <2> QED BY <2>1, <1>3, ElementOfSeq
<1> QED BY <1>4, <1>5, <1>6

\* The rest of the queue, one place further to the front.
LEMMA TailShifts ==
  ASSUME NEW S, NEW q \in Seq(S), q # <<>>
  PROVE  /\ Tail(q) \in Seq(S) /\ Len(q) \in Nat /\ Len(q) >= 1 /\ Len(Tail(q)) = Len(q) - 1
         /\ q[1] = Head(q) /\ \A k \in 1..Len(q) - 1 : Tail(q)[k] = q[k + 1]
<1>1. /\ Tail(q) \in Seq(S) /\ Len(Tail(q)) = Len(q) - 1
      /\ \A i \in 1..Len(Tail(q)) : Tail(q)[i] = q[i + 1]
  BY HeadTailProperties
<1>2. Len(q) \in Nat \ {0}
  BY EmptySeq, LenProperties
<1> QED BY <1>1, <1>2

\* Messages are sent.
LEMMA SendOrder ==
  ASSUME TypeInv, NEW out \in SUBSET SoundMessage, IsFiniteSet(out), Send(out),
         \A m \in out : SentIn(0, m)
  PROVE  QueueStep
<1>1. queue \in Seq(SoundMessage)
  BY DEF TypeInv, QueueType
<1>2. /\ Len(queue) \in Nat /\ Len(queue') \in Nat /\ Len(queue') >= Len(queue)
      /\ \A k \in 1..Len(queue) : queue'[k] = queue[k]
      /\ \A k \in 1..Len(queue') : k > Len(queue) => queue'[k] \in out
  BY <1>1, EnqueuedOrder DEF Send
<1>3. TakesAndSends(0)
  BY <1>2 DEF TakesAndSends
<1> QED BY <1>3 DEF QueueStep

\* The head is handled, and messages are sent.
LEMMA ReplyOrder ==
  ASSUME TypeInv, queue # <<>>, NEW out \in SUBSET SoundMessage, IsFiniteSet(out), Reply(out),
         \A m \in out : SentIn(1, m)
  PROVE  QueueStep
<1>1. queue \in Seq(SoundMessage)
  BY DEF TypeInv, QueueType
<1>2. PICK q \in Seq(SoundMessage) : q = Tail(queue)
  BY <1>1, TailShifts
<1>3. /\ Len(queue) \in Nat /\ Len(queue) >= 1 /\ Len(q) = Len(queue) - 1
      /\ \A k \in 1..Len(queue) - 1 : q[k] = queue[k + 1]
  BY <1>1, <1>2, TailShifts
<1>4. queue' \in Enqueued(q, out, cut)
  BY <1>2 DEF Reply
<1>5. /\ Len(queue') \in Nat /\ Len(queue') >= Len(q)
      /\ \A k \in 1..Len(q) : queue'[k] = q[k]
      /\ \A k \in 1..Len(queue') : k > Len(q) => queue'[k] \in out
  BY <1>4, EnqueuedOrder
<1>6. TakesAndSends(1)
  BY <1>3, <1>5 DEF TakesAndSends
<1> QED BY <1>6 DEF QueueStep

\* One message is sent in answer.
LEMMA ReplyOneOrder ==
  ASSUME TypeInv, queue # <<>>, NEW m \in SoundMessage, Reply({m}), SentIn(1, m)
  PROVE  QueueStep
<1>1. {m} \in SUBSET SoundMessage /\ IsFiniteSet({m})
  BY FS_Singleton
<1> QED BY <1>1, ReplyOrder

\* Nothing is sent.
LEMMA QuietOrder ==
  ASSUME TypeInv, UNCHANGED queue \/ (queue # <<>> /\ NoReply)
  PROVE  QueueStep
<1>1. queue \in Seq(SoundMessage) /\ Len(queue) \in Nat
  BY LenProperties DEF TypeInv, QueueType
<1>2. CASE UNCHANGED queue
  <2>1. TakesAndSends(0)
    BY <1>1, <1>2 DEF TakesAndSends
  <2> QED BY <2>1 DEF QueueStep
<1>3. CASE queue # <<>> /\ NoReply
  <2>1. /\ Len(queue) >= 1 /\ Len(queue') = Len(queue) - 1
        /\ \A k \in 1..Len(queue) - 1 : queue'[k] = queue[k + 1]
    BY <1>1, <1>3, TailShifts DEF NoReply
  <2>2. TakesAndSends(1)
    BY <1>1, <2>1 DEF TakesAndSends
  <2> QED BY <2>2 DEF QueueStep
<1> QED BY <1>2, <1>3

\* What a leader sends to all, when its cursors are set.
LEMMA BroadcastOrder ==
  ASSUME NEW i \in Node, role'[i] = "leader", NEW c, NEW ctx,
         \/ ctx = 0
         \/ ctx = nextContext /\ nextContext' = nextContext + 1,
         NEW m \in AppendsToPeers(i, currentTerm'[i], log'[i], nextIndex'[i], c, ctx)
  PROVE  LeaderSends(m)
<1>1. PICK j \in Node \ {i} :
        m = AppendMsg(i, j, currentTerm'[i], log'[i], nextIndex'[i][j], c, ctx)
  BY DEF AppendsToPeers
<1>2. /\ m.type = "Append" /\ m.src = i /\ m.dst = j /\ m.term = currentTerm'[i] /\ m.ctx = ctx
      /\ m.prevIndex = nextIndex'[i][j] - 1
      /\ m.entries = SubSeq(log'[i], nextIndex'[i][j], Len(log'[i]))
  BY <1>1 DEF AppendMsg
<1> QED BY <1>2 DEF LeaderSends

\* Nodes whose cursors a step leaves alone.
LEMMA SameNode ==
  ASSUME NEW L \in Node,
         /\ role'[L] = role[L] /\ log'[L] = log[L] /\ commitIndex'[L] = commitIndex[L]
         /\ nextIndex'[L] = nextIndex[L] /\ matchIndex'[L] = matchIndex[L]
         /\ readAcks'[L] \subseteq readAcks[L]
  PROVE  role'[L] = "leader" => SameCursors(L)
BY DEF SameCursors

\* What changes no node's cursors and not the client.
LEMMA SameTraffic ==
  ASSUME TypeInv, QueueStep, nextContext' >= nextContext,
         client' = client \/ client'.op # "read",
         \A L \in Node :
           \/ role'[L] # "leader" /\ readAcks'[L] = {}
           \/ role'[L] # "leader" /\ role[L] # "leader" /\ readAcks'[L] \subseteq readAcks[L]
           \/ /\ role'[L] = role[L] /\ log'[L] = log[L] /\ commitIndex'[L] = commitIndex[L]
              /\ nextIndex'[L] = nextIndex[L] /\ matchIndex'[L] = matchIndex[L]
              /\ readAcks'[L] \subseteq readAcks[L]
  PROVE  TrafficStep
<1>1. CursorStep
  BY SameNode DEF CursorStep
<1>2. ReadStep
  BY DEF ReadStep
<1> QED BY <1>1, <1>2 DEF TrafficStep

\* A candidate's requests.
LEMMA TimeoutTraffic ==
  ASSUME TypeInv, NEW i \in Node, Timeout(i)
  PROVE  TrafficStep
<1> DEFINE out == {RequestVoteMsg(i, j, currentTerm[i] + 1, log[i]) : j \in Node \ {i}}
<1>1. currentTerm[i] + 1 \in Nat /\ log[i] \in Seq(Entry) /\ nextContext \in Nat
  BY DEF TypeInv, DurableType, OtherType
<1>2. out \in SUBSET SoundMessage /\ IsFiniteSet(out)
  BY <1>1, RequestVotesType
<1>3. \A m \in out : SentIn(0, m)
  BY DEF SentIn, RequestVoteMsg
<1>4. Send(out)
  BY DEF Timeout
<1> HIDE DEF out
<1>5. QueueStep
  BY <1>2, <1>3, <1>4, SendOrder
<1>6. /\ role' = [role EXCEPT ![i] = "candidate"] /\ role[i] # "leader"
      /\ UNCHANGED <<log, commitIndex, nextIndex, matchIndex, readAcks, client, nextContext>>
      /\ role \in [Node -> {"follower", "candidate", "leader"}]
  BY DEF Timeout, stateVars, clientVars, TypeInv, LeaderType
<1>7. \A L \in Node : \/ L = i /\ role'[L] # "leader" /\ role[L] # "leader"
                      \/ role'[L] = role[L]
  BY <1>6
<1> QED BY <1>1, <1>5, <1>6, <1>7, SameTraffic

\* A leader's heartbeat.
LEMMA HeartbeatTraffic ==
  ASSUME TypeInv, NEW i \in Node, Heartbeat(i)
  PROVE  TrafficStep
<1> DEFINE out == AppendsToPeers(i, currentTerm[i], log[i], nextIndex[i], commitIndex[i], 0)
<1>1. /\ role[i] = "leader" /\ nextContext \in Nat
      /\ UNCHANGED <<role, currentTerm, log, commitIndex, nextIndex, matchIndex, readAcks,
                     client, nextContext>>
  BY DEF Heartbeat, durableVars, leaderVars, stateVars, clientVars, TypeInv, OtherType
<1>2. out \in SUBSET SoundMessage /\ IsFiniteSet(out)
  BY <1>1, AppendsToPeersType DEF TypeInv, DurableType, LeaderType, StoreType
<1>3. out = AppendsToPeers(i, currentTerm'[i], log'[i], nextIndex'[i], commitIndex[i], 0)
  BY <1>1
<1>4. \A m \in out : SentIn(0, m)
  BY <1>1, <1>3, BroadcastOrder DEF SentIn
<1>5. Send(out)
  BY DEF Heartbeat
<1> HIDE DEF out
<1>6. QueueStep
  BY <1>2, <1>4, <1>5, SendOrder
<1> QED BY <1>1, <1>6, SameTraffic

\* A write of the client.
LEMMA ClientWriteTraffic ==
  ASSUME TypeInv, NEW i \in Node, NEW k \in Key, NEW v \in Value, ClientWrite(i, k, v)
  PROVE  TrafficStep
<1> DEFINE e == [term |-> currentTerm[i], key |-> k, value |-> v]
           l == Append(log[i], e)
           out == AppendsToPeers(i, currentTerm[i], l, nextIndex[i], commitIndex[i], 0)
<1>1. /\ role[i] = "leader" /\ nextContext \in Nat
      /\ log' = [log EXCEPT ![i] = l]
      /\ matchIndex' = [matchIndex EXCEPT ![i][i] = Len(l)]
      /\ client' = [op |-> "write", leader |-> i, index |-> Len(l), entry |-> e]
      /\ Send(out)
      /\ UNCHANGED <<role, currentTerm, commitIndex, nextIndex, readAcks, nextContext>>
  BY DEF ClientWrite, IsCurrentLeader, stateVars, TypeInv, OtherType
<1>2. /\ currentTerm[i] \in Nat /\ log[i] \in Seq(Entry) /\ log \in [Node -> Seq(Entry)]
      /\ matchIndex \in [Node -> [Node -> Nat]] /\ commitIndex[i] \in Nat
      /\ nextIndex[i] \in [Node -> Nat] /\ \A j \in Node : nextIndex[i][j] >= 1
  BY <1>1 DEF TypeInv, DurableType, LeaderType, StoreType
<1>3. e \in Entry /\ e.term = currentTerm[i]
  BY <1>2 DEF Entry
<1> HIDE DEF e
<1>4. l \in Seq(Entry)
  BY <1>2, <1>3
<1>5. log'[i] = l /\ log'[i] = Append(log[i], e) /\ \A j \in Node \ {i} : log'[j] = log[j]
  BY <1>1, <1>2
<1>6. /\ matchIndex'[i] = [matchIndex[i] EXCEPT ![i] = Len(log'[i])]
      /\ \A j \in Node \ {i} : matchIndex'[j] = matchIndex[j]
  BY <1>1, <1>2, <1>5
<1> HIDE DEF l
<1>7. out \in SUBSET SoundMessage /\ IsFiniteSet(out)
  BY <1>2, <1>4, AppendsToPeersType
<1>8. out = AppendsToPeers(i, currentTerm'[i], log'[i], nextIndex'[i], commitIndex[i], 0)
  BY <1>1, <1>5
<1>9. \A m \in out : SentIn(0, m)
  BY <1>1, <1>8, BroadcastOrder DEF SentIn
<1> HIDE DEF out
<1>10. QueueStep
  BY <1>1, <1>7, <1>9, SendOrder
<1>11. Grew(i)
  BY <1>1, <1>3, <1>5 DEF Grew
<1>12. PutsEntry(i)
  BY <1>1, <1>6, <1>11 DEF PutsEntry
<1>13. \A j \in Node \ {i} : role'[j] = "leader" => SameCursors(j)
  BY <1>1, <1>5, <1>6, SameNode
<1>14. CursorStep
  BY <1>12, <1>13 DEF CursorStep
<1>15. ReadStep
  BY <1>1 DEF ReadStep
<1> QED BY <1>10, <1>14, <1>15 DEF TrafficStep

\* A read begins.
LEMMA ReadStartTraffic ==
  ASSUME TypeInv, NEW i \in Node, ReadStart(i)
  PROVE  TrafficStep
<1> DEFINE out == AppendsToPeers(i, currentTerm[i], log[i], nextIndex[i], commitIndex[i], nextContext)
<1>1. /\ role[i] = "leader" /\ nextContext \in Nat
      /\ nextContext' = nextContext + 1
      /\ readAcks' = [readAcks EXCEPT ![i] = @ \cup {<<nextContext, i>>}]
      /\ client' = [op |-> "read", leader |-> i, ctx |-> nextContext, floor |-> Len(chosen)]
      /\ UNCHANGED <<role, currentTerm, log, commitIndex, nextIndex, matchIndex>>
      /\ Send(out)
  BY DEF ReadStart, IsCurrentLeader, durableVars, stateVars, TypeInv, OtherType
<1>2. out \in SUBSET SoundMessage /\ IsFiniteSet(out)
  BY <1>1, AppendsToPeersType DEF TypeInv, DurableType, LeaderType, StoreType
<1>3. out = AppendsToPeers(i, currentTerm'[i], log'[i], nextIndex'[i], commitIndex[i], nextContext)
  BY <1>1
<1>4. \A m \in out : SentIn(0, m)
  BY <1>1, <1>3, BroadcastOrder DEF SentIn
<1> HIDE DEF out
<1>5. QueueStep
  BY <1>1, <1>2, <1>4, SendOrder
<1>6. /\ readAcks'[i] = readAcks[i] \cup {<<nextContext, i>>}
      /\ \A j \in Node \ {i} : readAcks'[j] = readAcks[j]
  BY <1>1 DEF TypeInv, LeaderType
<1>7. BeginsRead(i) /\ SameCursors(i)
  BY <1>1, <1>6 DEF BeginsRead, SameCursors
<1>8. \A j \in Node \ {i} : role'[j] = "leader" => SameCursors(j)
  BY <1>1, <1>6, SameNode
<1>9. CursorStep
  BY <1>7, <1>8 DEF CursorStep
<1>10. ReadStep
  <2>1. \A L \in Node : role'[L] # "leader" => role[L] # "leader" /\ readAcks'[L] \subseteq readAcks[L]
    BY <1>1, <1>6
  <2> QED BY <1>1, <1>7, <2>1 DEF ReadStep
<1> QED BY <1>5, <1>9, <1>10 DEF TrafficStep

\* A node that loses its role.
LEMMA LoseRoleTraffic ==
  ASSUME TypeInv, NEW i \in Node, LoseRole(i), QueueStep, UNCHANGED clientVars,
         \A j \in Node \ {i} : log'[j] = log[j] /\ commitIndex'[j] = commitIndex[j]
  PROVE  TrafficStep
<1>1. /\ role'[i] = "follower" /\ readAcks'[i] = {}
      /\ \A j \in Node \ {i} : /\ role'[j] = role[j] /\ nextIndex'[j] = nextIndex[j]
                               /\ matchIndex'[j] = matchIndex[j] /\ readAcks'[j] = readAcks[j]
      /\ UNCHANGED <<client, nextContext>> /\ nextContext \in Nat
  BY DEF LoseRole, TypeInv, LeaderType, OtherType, clientVars
<1>2. \A L \in Node :
        \/ role'[L] # "leader" /\ readAcks'[L] = {}
        \/ /\ role'[L] = role[L] /\ log'[L] = log[L] /\ commitIndex'[L] = commitIndex[L]
           /\ nextIndex'[L] = nextIndex[L] /\ matchIndex'[L] = matchIndex[L]
           /\ readAcks'[L] \subseteq readAcks[L]
  BY <1>1
<1> QED BY <1>1, <1>2, SameTraffic

\* What leaves the nodes alone.
LEMMA IdleTraffic ==
  ASSUME TypeInv, UNCHANGED <<role, log, commitIndex, nextIndex, matchIndex, nextContext>>,
         client' = client \/ client'.op # "read", QueueStep,
         \A L \in Node : readAcks'[L] \subseteq readAcks[L]
  PROVE  TrafficStep
<1>1. nextContext' >= nextContext
  BY DEF TypeInv, OtherType
<1> QED BY <1>1, SameTraffic

\* _receive_request_vote.
LEMMA RequestVoteTraffic ==
  ASSUME TypeInv, queue # <<>>, NEW i \in Node, NEW m \in SoundMessage, m = queue[1],
         m.dst = i, m.type = "RequestVote", HandleRequestVote(i, m), UNCHANGED clientVars
  PROVE  TrafficStep
<1> DEFINE term == Larger(m.term, currentTerm[i])
           voted == IF m.term > currentTerm[i] THEN None ELSE votedFor[i]
           granted == Grants(i, m, voted)
           r == VoteResponseMsg(i, m.src, term, granted)
<1>0. m.src \in Node /\ m.term \in Nat /\ currentTerm[i] \in Nat /\ nextContext \in Nat
  BY DEF SoundMessage, Message, TypeInv, DurableType, OtherType
<1>1. /\ (m.term > currentTerm[i] /\ LoseRole(i)) \/ (m.term <= currentTerm[i] /\ UNCHANGED leaderVars)
      /\ Reply({r}) /\ UNCHANGED <<log, commitIndex>>
  BY <1>0 DEF HandleRequestVote, stateVars
<1>2. term \in Nat /\ granted \in BOOLEAN /\ (granted => term = m.term)
  BY <1>0 DEF Larger, Grants, UpToDate
<1>3. r \in SoundMessage
  <2> HIDE DEF term, granted
  <2> QED BY <1>0, <1>2, VoteResponseMsgType
<1>4. /\ r.type = "VoteResponse" /\ r.src = i /\ r.dst = m.src /\ r.term = term
      /\ r.granted = granted /\ currentTerm'[i] = term
  <2>1. currentTerm \in [Node -> Nat] /\ currentTerm' = [currentTerm EXCEPT ![i] = term]
    BY DEF HandleRequestVote, TypeInv, DurableType
  <2> QED BY <2>1 DEF VoteResponseMsg
<1> HIDE DEF term, voted, granted, r
<1>5. SentIn(1, r)
  BY <1>2, <1>4 DEF SentIn, Answers, Ask
<1>6. QueueStep
  BY <1>1, <1>3, <1>5, ReplyOneOrder
<1>7. CASE LoseRole(i)
  BY <1>1, <1>6, <1>7, LoseRoleTraffic
<1>8. CASE UNCHANGED leaderVars
  BY <1>1, <1>6, <1>8, IdleTraffic DEF leaderVars, clientVars
<1> QED BY <1>1, <1>7, <1>8

\* A candidate with a quorum of votes becomes the leader.
LEMMA BecomeLeaderTraffic ==
  ASSUME TypeInv, queue # <<>>, NEW i \in Node, BecomeLeader(i), role[i] = "candidate",
         Ballot(queue[1], i, currentTerm[i]),
         UNCHANGED <<currentTerm, readAcks, commitIndex, client, nextContext>>
  PROVE  TrafficStep
<1> DEFINE e == NoOp(currentTerm[i])
           l == Append(log[i], e)
           next == FreshNext(i)
           out == AppendsToPeers(i, currentTerm[i], l, next, commitIndex[i], 0)
<1>0. /\ currentTerm[i] \in Nat /\ log \in [Node -> Seq(Entry)] /\ commitIndex[i] \in Nat
      /\ role \in [Node -> {"follower", "candidate", "leader"}] /\ nextContext \in Nat
      /\ matchIndex \in [Node -> [Node -> Nat]] /\ nextIndex \in [Node -> [Node -> Nat]]
  BY DEF TypeInv, DurableType, LeaderType, StoreType, OtherType
<1>1. /\ log' = [log EXCEPT ![i] = l] /\ role' = [role EXCEPT ![i] = "leader"]
      /\ nextIndex' = [nextIndex EXCEPT ![i] = next]
      /\ matchIndex' = [matchIndex EXCEPT ![i] =
                          [j \in Node |-> IF j = i THEN Len(log[i]) + 1 ELSE 0]]
      /\ Reply(out)
  BY DEF BecomeLeader
<1>2. e \in Entry /\ e.term = currentTerm[i] /\ Len(log[i]) \in Nat
  BY <1>0, LenProperties DEF Entry, NoOp
<1> HIDE DEF e
<1>3. /\ l \in Seq(Entry) /\ next \in [Node -> Nat] /\ \A j \in Node : next[j] >= 1
      /\ next = [j \in Node |-> Len(log[i]) + 1]
  BY <1>0, <1>2 DEF FreshNext
<1>4. Grew(i)
  BY <1>0, <1>1, <1>2 DEF Grew
<1>5. log'[i] = l /\ nextIndex'[i] = next /\ role'[i] = "leader"
  BY <1>0, <1>1
<1>6. /\ matchIndex'[i] = [j \in Node |-> IF j = i THEN Len(log[i]) + 1 ELSE 0]
      /\ \A j \in Node \ {i} : /\ role'[j] = role[j] /\ log'[j] = log[j]
                               /\ nextIndex'[j] = nextIndex[j] /\ matchIndex'[j] = matchIndex[j]
  BY <1>0, <1>1
<1> HIDE DEF l, next
<1>7. out \in SUBSET SoundMessage /\ IsFiniteSet(out)
  BY <1>0, <1>3, AppendsToPeersType
<1>8. out = AppendsToPeers(i, currentTerm'[i], log'[i], nextIndex'[i], commitIndex[i], 0)
  BY <1>5
<1>9. \A m \in out : SentIn(1, m)
  BY <1>5, <1>8, BroadcastOrder DEF SentIn
<1> HIDE DEF out
<1>10. QueueStep
  BY <1>1, <1>7, <1>9, ReplyOrder
<1>11. TakesOver(i)
  BY <1>3, <1>4, <1>5, <1>6 DEF TakesOver
<1>12. \A j \in Node \ {i} : role'[j] = "leader" => SameCursors(j)
  BY <1>6, SameNode
<1>13. CursorStep
  BY <1>11, <1>12 DEF CursorStep
<1>14. ReadStep
  BY <1>0, <1>5, <1>6 DEF ReadStep
<1> QED BY <1>10, <1>13, <1>14 DEF TrafficStep

\* _receive_vote_response.
LEMMA VoteResponseTraffic ==
  ASSUME TypeInv, queue # <<>>, NEW i \in Node, NEW m \in SoundMessage, m = queue[1],
         m.dst = i, m.type = "VoteResponse", HandleVoteResponse(i, m), UNCHANGED clientVars
  PROVE  TrafficStep
<1>1. UNCHANGED commitIndex /\ UNCHANGED <<client, nextContext>>
  BY DEF HandleVoteResponse, stateVars, clientVars
<1>2. CASE AdoptTerm(i, m) /\ NoReply
  BY <1>1, <1>2, QuietOrder, LoseRoleTraffic DEF AdoptTerm
<1>3. CASE UNCHANGED <<durableVars, leaderVars>> /\ NoReply
  BY <1>1, <1>3, QuietOrder, IdleTraffic DEF durableVars, leaderVars
<1>4. CASE /\ BecomeLeader(i) /\ role[i] = "candidate" /\ m.term = currentTerm[i] /\ m.granted
           /\ UNCHANGED <<currentTerm, readAcks>>
  <2>1. Ballot(queue[1], i, currentTerm[i])
    BY <1>4 DEF Ballot
  <2> QED BY <1>1, <1>4, <2>1, BecomeLeaderTraffic
<1>5. CASE UNCHANGED <<currentTerm, role, nextIndex, matchIndex, log, readAcks>> /\ NoReply
  BY <1>1, <1>5, QuietOrder, IdleTraffic
<1> QED BY <1>2, <1>3, <1>4, <1>5 DEF HandleVoteResponse

\* Where a leader should resume is no further than what it has sent.
LEMMA ConflictIsSent ==
  ASSUME NEW l \in Seq(Entry), NEW m \in SoundMessage, m.type = "Append", ~HasPrevious(l, m)
  PROVE  ConflictIndex(l, m) <= m.prevIndex
<1>1. Len(l) \in Nat /\ DOMAIN l = 1..Len(l) /\ m.prevIndex \in Nat
  BY LenProperties DEF SoundMessage, Message
<1>2. CASE m.prevIndex > Len(l)
  BY <1>1, <1>2 DEF ConflictIndex
<1>3. CASE m.prevIndex <= Len(l)
  <2>1. m.prevIndex # 0
    BY <1>1, <1>3 DEF HasPrevious, TermAt, SoundMessage
  <2>2. FirstOfTerm(l, m.prevIndex) \in 1..m.prevIndex
    BY <1>1, <1>3, <2>1, FirstOfTermType
  <2> QED BY <1>1, <1>3, <2>2 DEF ConflictIndex
<1> QED BY <1>1, <1>2, <1>3

\* The answer of _receive_append_entries.
LEMMA AppendAnswered ==
  ASSUME TypeInv, NEW i \in Node, NEW m \in SoundMessage, m = queue[1],
         m.dst = i, m.type = "Append", HandleAppend(i, m), queue # <<>>
  PROVE  QueueStep
<1>0. /\ m.src \in Node /\ m.term \in Nat /\ m.ctx \in Nat /\ m.commit \in Nat
      /\ m.prevIndex \in Nat /\ m.entries \in Seq(Entry) /\ Len(m.entries) \in Nat
      /\ currentTerm \in [Node -> Nat] /\ log[i] \in Seq(Entry) /\ Len(log[i]) \in Nat
  BY LenProperties DEF SoundMessage, Message, TypeInv, DurableType
<1>1. ASSUME NEW t \in Nat, t = currentTerm'[i], t >= m.term, NEW s \in BOOLEAN,
             NEW x \in Nat, NEW c \in Nat, Reply({AppendResponseMsg(i, m.src, t, s, x, c, m.ctx)}),
             s => t = m.term /\ x = m.prevIndex + Len(m.entries),
             ~s /\ t = m.term => c <= m.prevIndex
      PROVE  QueueStep
  <2> DEFINE r == AppendResponseMsg(i, m.src, t, s, x, c, m.ctx)
  <2>1. r \in SoundMessage
    BY <1>0, AppendResponseMsgType
  <2>2. /\ r.type = "AppendResponse" /\ r.src = i /\ r.dst = m.src /\ r.term = t
        /\ r.success = s /\ r.match = x /\ r.conflict = c /\ r.ctx = m.ctx
    BY DEF AppendResponseMsg
  <2>3. Reply({r})
    BY <1>1
  <2> HIDE DEF r
  <2>4. SentIn(1, r)
    BY <1>1, <2>2 DEF SentIn, Answers, Own
  <2> QED BY <2>1, <2>3, <2>4, ReplyOneOrder
<1>2. CASE m.term < currentTerm[i]
  <2>1. /\ Reply({AppendResponseMsg(i, m.src, currentTerm[i], FALSE, 0, Len(log[i]) + 1, m.ctx)})
        /\ currentTerm'[i] = currentTerm[i]
    BY <1>0, <1>2 DEF HandleAppend, durableVars
  <2> DEFINE t == currentTerm[i]
             c == Len(log[i]) + 1
  <2>2. /\ t \in Nat /\ t >= m.term /\ t # m.term /\ c \in Nat /\ FALSE \in BOOLEAN /\ 0 \in Nat
        /\ t = currentTerm'[i] /\ Reply({AppendResponseMsg(i, m.src, t, FALSE, 0, c, m.ctx)})
    BY <1>0, <1>2, <2>1
  <2> HIDE DEF t, c
  <2> QED BY <1>1, <2>2
<1>3. CASE m.term >= currentTerm[i] /\ ~HasPrevious(log[i], m)
  <2> DEFINE c == ConflictIndex(log[i], m)
  <2>1. /\ Reply({AppendResponseMsg(i, m.src, m.term, FALSE, 0, c, m.ctx)})
        /\ currentTerm'[i] = m.term
    BY <1>0, <1>3 DEF HandleAppend
  <2>2. c \in Nat /\ c <= m.prevIndex /\ FALSE \in BOOLEAN /\ 0 \in Nat
    BY <1>0, <1>3, ConflictIndexType, ConflictIsSent
  <2> DEFINE t == m.term
  <2>3. /\ t \in Nat /\ t = currentTerm'[i] /\ t >= m.term
        /\ Reply({AppendResponseMsg(i, m.src, t, FALSE, 0, c, m.ctx)})
    BY <1>0, <2>1
  <2> HIDE DEF c, t
  <2> QED BY <1>1, <2>2, <2>3
<1>4. CASE m.term >= currentTerm[i] /\ HasPrevious(log[i], m)
  <2> DEFINE l == Merge(log[i], m.prevIndex, m.entries)
             x == m.prevIndex + Len(m.entries)
             c == Len(l) + 1
  <2>1. /\ Reply({AppendResponseMsg(i, m.src, m.term, TRUE, x, c, m.ctx)})
        /\ currentTerm'[i] = m.term
    BY <1>0, <1>4 DEF HandleAppend
  <2>2. l \in Seq(Entry)
    <3>1. PICK r, es \in Seq(Entry), n \in Nat : r = log[i] /\ es = m.entries /\ n = m.prevIndex
      BY <1>0
    <3>2. n <= Len(r)
      BY <1>4, <3>1 DEF HasPrevious
    <3>3. Merge(r, n, es) \in Seq(Entry)
      BY <3>1, <3>2, MergeType
    <3> QED BY <3>1, <3>3
  <2>3. c \in Nat /\ x \in Nat /\ TRUE \in BOOLEAN
    <3> HIDE DEF l
    <3> QED BY <1>0, <2>2, LenProperties
  <2> DEFINE t == m.term
  <2>4. /\ t \in Nat /\ t = currentTerm'[i] /\ t >= m.term /\ t = m.term
        /\ x = m.prevIndex + Len(m.entries)
        /\ Reply({AppendResponseMsg(i, m.src, t, TRUE, x, c, m.ctx)})
    BY <1>0, <2>1
  <2> HIDE DEF c, x, t, l
  <2> QED BY <1>1, <2>3, <2>4
<1> QED BY <1>0, <1>2, <1>3, <1>4

\* _receive_append_entries.
LEMMA AppendTraffic ==
  ASSUME TypeInv, queue # <<>>, NEW i \in Node, NEW m \in SoundMessage, m = queue[1],
         m.dst = i, m.type = "Append", HandleAppend(i, m), UNCHANGED clientVars
  PROVE  TrafficStep
<1>1. QueueStep
  BY AppendAnswered
<1>2. /\ log \in [Node -> Seq(Entry)] /\ commitIndex \in [Node -> Nat] /\ nextContext \in Nat
      /\ UNCHANGED <<client, nextContext>>
  BY DEF TypeInv, DurableType, StoreType, OtherType, clientVars
<1>3. CASE UNCHANGED <<durableVars, leaderVars, stateVars>>
  BY <1>1, <1>2, <1>3, IdleTraffic DEF durableVars, leaderVars, stateVars
<1>4. CASE /\ LoseRole(i) \/ (role[i] = "follower" /\ UNCHANGED leaderVars)
           /\ \A j \in Node \ {i} : log'[j] = log[j] /\ commitIndex'[j] = commitIndex[j]
  <2>1. CASE LoseRole(i)
    BY <1>1, <1>4, <2>1, LoseRoleTraffic
  <2>2. CASE role[i] = "follower" /\ UNCHANGED leaderVars
    BY <1>1, <1>2, <1>4, <2>2, SameTraffic DEF leaderVars
  <2> QED BY <1>4, <2>1, <2>2
<1>5. CASE /\ m.term >= currentTerm[i]
           /\ LoseRole(i) \/ (role[i] = "follower" /\ UNCHANGED leaderVars)
           /\ UNCHANGED <<log, stateVars>>
  BY <1>4, <1>5 DEF stateVars
<1>6. CASE /\ LoseRole(i) \/ (role[i] = "follower" /\ UNCHANGED leaderVars)
           /\ \E l, c : /\ log' = [log EXCEPT ![i] = l]
                        /\ commitIndex' = [commitIndex EXCEPT ![i] = c]
  BY <1>2, <1>4, <1>6
<1> QED BY <1>3, <1>5, <1>6 DEF HandleAppend

\* What leader i makes of the acknowledgement m.
Counts(i, m, match, next) ==
  /\ m = queue[1] /\ m.type = "AppendResponse" /\ m.dst = i /\ m.term = currentTerm[i]
  /\ role[i] = "leader" /\ m.success
  /\ match = [matchIndex[i] EXCEPT ![m.src] = Larger(@, m.match)]
  /\ next = [nextIndex[i] EXCEPT ![m.src] = match[m.src] + 1]
  /\ matchIndex' = [matchIndex EXCEPT ![i] = match]
  /\ nextIndex' = [nextIndex EXCEPT ![i] = next]
  /\ readAcks' = [readAcks EXCEPT ![i] = WithAck(i, m)]
  /\ AdvanceCommit(i, match, next)
  /\ UNCHANGED <<currentTerm, log, role, client, nextContext>>

\* A successful response: a longer match, and maybe a commit.
LEMMA AckedTraffic ==
  ASSUME TypeInv, queue # <<>>, NEW i \in Node, NEW m \in SoundMessage,
         NEW match, NEW next, Counts(i, m, match, next)
  PROVE  TrafficStep
<1>0. /\ m.src \in Node /\ m.match \in Nat /\ currentTerm[i] \in Nat /\ log[i] \in Seq(Entry)
      /\ commitIndex[i] \in Nat /\ Len(log[i]) \in Nat /\ commitIndex \in [Node -> Nat]
      /\ nextContext \in Nat
  <2>1. m.type = "AppendResponse"
    BY DEF Counts
  <2> QED BY <2>1, LenProperties DEF SoundMessage, Message, TypeInv, DurableType, StoreType, OtherType
<1>11. /\ matchIndex \in [Node -> [Node -> Nat]] /\ nextIndex \in [Node -> [Node -> Nat]]
       /\ role[i] = "leader" => \A j \in Node : nextIndex[i][j] >= 1
       /\ readAcks \in [Node -> SUBSET (Nat \X Node)]
  BY DEF TypeInv, LeaderType
<1>12. /\ role[i] = "leader" /\ match = [matchIndex[i] EXCEPT ![m.src] = Larger(@, m.match)]
       /\ next = [nextIndex[i] EXCEPT ![m.src] = match[m.src] + 1]
  BY DEF Counts
<1>1. match \in [Node -> Nat]
  BY <1>0, <1>11, <1>12 DEF Larger
<1>2. next \in [Node -> Nat] /\ \A j \in Node : next[j] >= 1
  <2>1. match[m.src] \in Nat /\ match[m.src] + 1 \in Nat /\ match[m.src] + 1 >= 1
    BY <1>0, <1>1
  <2>2. nextIndex[i] \in [Node -> Nat]
    BY <1>11
  <2> QED BY <1>0, <1>11, <1>12, <2>1, <2>2
<1>13. UNCHANGED <<currentTerm, log, role, client, nextContext>>
  BY DEF Counts
<1>3. /\ matchIndex'[i] = match /\ nextIndex'[i] = next /\ readAcks'[i] = WithAck(i, m)
      /\ \A j \in Node \ {i} : /\ matchIndex'[j] = matchIndex[j] /\ nextIndex'[j] = nextIndex[j]
                               /\ readAcks'[j] = readAcks[j]
  BY <1>11 DEF Counts
<1>4. ASSUME QueueStep, \A j \in Node \ {i} : commitIndex'[j] = commitIndex[j],
             commitIndex'[i] >= commitIndex[i],
             \A k \in commitIndex'[i]+1..Len(log[i]) :
               ~(IsQuorum({j \in Node : match[j] >= k}) /\ log[i][k].term = currentTerm[i])
      PROVE  TrafficStep
  <2>1. /\ Echo(queue[1], i, currentTerm[i]) /\ queue[1].success /\ queue[1] = m
        /\ match = [matchIndex[i] EXCEPT ![m.src] = Larger(@, m.match)]
        /\ next = [nextIndex[i] EXCEPT ![m.src] = match[m.src] + 1]
    BY DEF Echo, Counts
  <2>2. IsAcked(i)
    BY <1>3, <1>4, <1>12, <1>13, <2>1 DEF IsAcked
  <2>3. \A j \in Node \ {i} : role'[j] = "leader" => SameCursors(j)
    BY <1>3, <1>4, <1>13, SameNode
  <2>4. CursorStep
    BY <2>2, <2>3 DEF CursorStep
  <2>5. ReadStep
    BY <1>0, <1>3, <1>12, <1>13 DEF ReadStep
  <2> QED BY <1>4, <2>4, <2>5 DEF TrafficStep
<1>5. CASE Committable(i, match) = {} /\ NoReply /\ UNCHANGED <<stateVars, chosen>>
  <2>1. UNCHANGED commitIndex /\ commitIndex'[i] >= commitIndex[i]
    BY <1>0, <1>5 DEF stateVars
  <2>2. ASSUME NEW k \in commitIndex[i]+1..Len(log[i]), IsQuorum({j \in Node : match[j] >= k}),
               log[i][k].term = currentTerm[i]
        PROVE  FALSE
    <3>1. k \in Committable(i, match)
      BY <2>2 DEF Committable
    <3> QED BY <1>5, <3>1
  <2>3. QueueStep
    BY <1>5, QuietOrder
  <2> QED BY <1>4, <2>1, <2>2, <2>3
<1>6. ASSUME NEW c \in Committable(i, match), \A k \in Committable(i, match) : k <= c,
             commitIndex' = [commitIndex EXCEPT ![i] = c],
             Reply(AppendsToPeers(i, currentTerm[i], log[i], next, c, 0))
      PROVE  TrafficStep
  <2>1. c \in Nat /\ c >= commitIndex[i] + 1 /\ c <= Len(log[i])
    BY <1>0 DEF Committable
  <2>2. commitIndex'[i] = c /\ \A j \in Node \ {i} : commitIndex'[j] = commitIndex[j]
    BY <1>0, <1>6
  <2> DEFINE out == AppendsToPeers(i, currentTerm[i], log[i], next, c, 0)
  <2>3. out \in SUBSET SoundMessage /\ IsFiniteSet(out)
    BY <1>0, <1>2, <2>1, AppendsToPeersType
  <2>4. out = AppendsToPeers(i, currentTerm'[i], log'[i], nextIndex'[i], c, 0)
    BY <1>3, <1>13
  <2>5. \A x \in out : SentIn(1, x)
    BY <1>12, <1>13, <2>4, BroadcastOrder DEF SentIn
  <2>6. Reply(out)
    BY <1>6
  <2> HIDE DEF out
  <2>7. QueueStep
    BY <2>3, <2>5, <2>6, ReplyOrder
  <2>8. ASSUME NEW k \in c+1..Len(log[i]), IsQuorum({j \in Node : match[j] >= k}),
               log[i][k].term = currentTerm[i]
        PROVE  FALSE
    <3>1. k \in commitIndex[i]+1..Len(log[i]) /\ ~(k <= c)
      BY <1>0, <2>1, <2>8
    <3>2. k \in Committable(i, match)
      BY <2>8, <3>1 DEF Committable
    <3> QED BY <1>6, <3>1, <3>2
  <2>9. commitIndex'[i] >= commitIndex[i]
    BY <1>0, <2>1, <2>2
  <2> QED BY <1>4, <2>2, <2>7, <2>8, <2>9
<1> QED BY <1>5, <1>6 DEF AdvanceCommit, Counts

\* _receive_append_response.
LEMMA AppendResponseTraffic ==
  ASSUME TypeInv, queue # <<>>, NEW i \in Node, NEW m \in SoundMessage, m = queue[1],
         m.dst = i, m.type = "AppendResponse", HandleAppendResponse(i, m), UNCHANGED clientVars
  PROVE  TrafficStep
<1> DEFINE match == [matchIndex[i] EXCEPT ![m.src] = Larger(@, m.match)]
           next  == [nextIndex[i] EXCEPT ![m.src] = match[m.src] + 1]
           retry == [nextIndex[i] EXCEPT ![m.src] = Larger(1, m.conflict)]
<1>0. /\ m.src \in Node /\ m.conflict \in Nat /\ m.ctx \in Nat
      /\ currentTerm[i] \in Nat /\ log[i] \in Seq(Entry) /\ commitIndex[i] \in Nat
      /\ nextIndex \in [Node -> [Node -> Nat]] /\ nextContext \in Nat
      /\ UNCHANGED <<client, nextContext>>
  BY DEF SoundMessage, Message, TypeInv, LeaderType, DurableType, StoreType, OtherType,
     clientVars
<1>1. CASE AdoptTerm(i, m) /\ NoReply /\ UNCHANGED <<stateVars, chosen>>
  BY <1>1, QuietOrder, LoseRoleTraffic DEF AdoptTerm, stateVars
<1>2. CASE NoReply /\ UNCHANGED <<durableVars, leaderVars, stateVars, chosen>>
  BY <1>0, <1>2, QuietOrder, IdleTraffic DEF durableVars, leaderVars, stateVars
<1>3. CASE /\ m.term = currentTerm[i] /\ role[i] = "leader" /\ ~m.success
           /\ nextIndex' = [nextIndex EXCEPT ![i] = retry]
           /\ Reply({AppendMsg(i, m.src, currentTerm[i], log[i], retry[m.src],
                               commitIndex[i], m.ctx)})
           /\ UNCHANGED <<durableVars, role, votes, matchIndex, readAcks, stateVars, chosen>>
  <2> DEFINE r == AppendMsg(i, m.src, currentTerm[i], log[i], retry[m.src], commitIndex[i], m.ctx)
  <2>1. retry[m.src] \in Nat /\ retry[m.src] >= 1
    BY <1>0 DEF Larger
  <2>2. UNCHANGED <<currentTerm, log, role, matchIndex, commitIndex, readAcks>>
    BY <1>3 DEF durableVars, stateVars
  <2>3. nextIndex'[i] = retry /\ \A j \in Node \ {i} : nextIndex'[j] = nextIndex[j]
    BY <1>0, <1>3
  <2> HIDE DEF retry
  <2>4. r \in SoundMessage
    BY <1>0, <2>1, AppendMsgType
  <2>5. /\ r.type = "Append" /\ r.src = i /\ r.dst = m.src /\ r.term = currentTerm[i]
        /\ r.prevIndex = retry[m.src] - 1 /\ r.ctx = m.ctx
        /\ r.entries = SubSeq(log[i], retry[m.src], Len(log[i]))
    BY DEF AppendMsg
  <2>6. Reply({r})
    BY <1>3
  <2> HIDE DEF r
  <2>7. Echo(queue[1], i, currentTerm[i])
    BY <1>3 DEF Echo
  <2>8. SentIn(1, r)
    BY <1>3, <2>2, <2>3, <2>5, <2>7 DEF SentIn, LeaderSends
  <2>9. QueueStep
    BY <2>4, <2>6, <2>8, ReplyOneOrder
  <2>10. IsRefused(i)
    BY <1>3, <2>2, <2>3, <2>7 DEF IsRefused, retry
  <2>11. \A j \in Node \ {i} : role'[j] = "leader" => SameCursors(j)
    BY <2>2, <2>3, SameNode
  <2>12. CursorStep
    BY <2>10, <2>11 DEF CursorStep
  <2>13. ReadStep
    BY <1>0, <2>2 DEF ReadStep
  <2> QED BY <2>9, <2>12, <2>13 DEF TrafficStep
<1>4. CASE /\ role[i] = "leader" /\ m.term = currentTerm[i] /\ m.success
           /\ matchIndex' = [matchIndex EXCEPT ![i] = match]
           /\ nextIndex' = [nextIndex EXCEPT ![i] = next]
           /\ readAcks' = [readAcks EXCEPT ![i] = WithAck(i, m)]
           /\ AdvanceCommit(i, match, next)
           /\ UNCHANGED <<durableVars, role, votes>>
  <2>1. UNCHANGED <<currentTerm, log, role, client, nextContext>>
    BY <1>0, <1>4 DEF durableVars
  <2>2. Counts(i, m, match, next)
    BY <1>4, <2>1 DEF Counts
  <2> QED BY <2>2, AckedTraffic
<1> HIDE DEF match, next, retry
<1> QED BY <1>1, <1>2, <1>3, <1>4 DEF HandleAppendResponse, match, next, retry

\* Whichever handler the head of the queue goes to.
LEMMA DeliverTraffic ==
  ASSUME TypeInv, Deliver
  PROVE  TrafficStep
<1> DEFINE m == Head(queue)
<1>1. queue # <<>> /\ m \in SoundMessage /\ m = queue[1]
  BY TailProperties, TailShifts DEF Deliver, TypeInv, QueueType
<1>2. m.dst \in Node /\ UNCHANGED clientVars
  BY <1>1 DEF SoundMessage, Message, Deliver
<1> HIDE DEF m
<1>4. \/ m.type = "RequestVote" /\ HandleRequestVote(m.dst, m)
      \/ m.type = "VoteResponse" /\ HandleVoteResponse(m.dst, m)
      \/ m.type = "Append" /\ HandleAppend(m.dst, m)
      \/ m.type = "AppendResponse" /\ HandleAppendResponse(m.dst, m)
  BY DEF Deliver, m
<1> QED BY <1>1, <1>2, <1>4, RequestVoteTraffic, VoteResponseTraffic, AppendTraffic,
           AppendResponseTraffic

\* Calls that end, and faults.
LEMMA OtherTraffic ==
  ASSUME TypeInv,
         \/ Discard \/ WriteAccepted \/ WriteUnknown \/ ReadAnswered \/ ReadFailed
         \/ \E i \in Node : Crash(i) \/ Restart(i) \/ Isolate(i) \/ Heal(i)
         \/ UNCHANGED vars
  PROVE  TrafficStep
<1>1. CASE \E i \in Node : Crash(i)
  <2>1. PICK i \in Node : Crash(i)
    BY <1>1
  <2>2. /\ LoseRole(i) /\ UNCHANGED <<queue, clientVars, log>>
        /\ commitIndex' = [commitIndex EXCEPT ![i] = 0] /\ commitIndex \in [Node -> Nat]
    BY <2>1 DEF Crash, durableVars, TypeInv, StoreType
  <2> QED BY <2>2, QuietOrder, LoseRoleTraffic
<1>2. CASE \/ Discard \/ WriteAccepted \/ WriteUnknown
           \/ \E i \in Node : Restart(i) \/ Isolate(i) \/ Heal(i)
           \/ UNCHANGED vars
  <2>1. QueueStep
    BY <1>2, QuietOrder DEF Discard, WriteAccepted, WriteUnknown, Restart, Isolate, Heal, vars
  <2>2. /\ UNCHANGED <<role, log, commitIndex, nextIndex, matchIndex, nextContext, readAcks>>
        /\ client' = client \/ client'.op # "read"
    BY <1>2 DEF Discard, WriteAccepted, WriteUnknown, Restart, Isolate, Heal, vars,
       durableVars, leaderVars, stateVars, clientVars, Idle
  <2> QED BY <2>1, <2>2, IdleTraffic
<1>3. CASE ReadAnswered \/ ReadFailed
  <2>1. /\ client.op = "read" /\ UNCHANGED <<queue, role, log, commitIndex, nextIndex, matchIndex, nextContext>>
        /\ readAcks' = [readAcks EXCEPT ![client.leader] = {a \in @ : a[1] # client.ctx}]
        /\ client' = Idle
    BY <1>3 DEF ReadAnswered, ReadFailed, ReadEnd, durableVars, stateVars
  <2>2. \A L \in Node : readAcks'[L] \subseteq readAcks[L]
    BY <2>1 DEF TypeInv, LeaderType
  <2>3. client'.op # "read"
    BY <2>1 DEF Idle
  <2> QED BY <2>1, <2>2, <2>3, QuietOrder, IdleTraffic
<1> QED BY <1>1, <1>2, <1>3

\* Every step is summed up by TrafficStep.
LEMMA NextTraffic ==
  ASSUME TypeInv, [Next]_vars
  PROVE  TrafficStep
BY TimeoutTraffic, HeartbeatTraffic, ClientWriteTraffic, ReadStartTraffic, DeliverTraffic,
   OtherTraffic DEF Next

----------------------------------------------------------------------------
(* What a candidate and a leader find in the queue *)

\* What a candidate sent in an earlier term is ahead of its requests, and all
\* answers to it are ahead of the votes.
CandidateOrder ==
  \A L \in Node : \A t \in Nat : role[L] = "candidate" /\ t = currentTerm[L] =>
    \A a, b \in 1..Len(queue) :
      /\ a < b /\ Ask(queue[a], L, t) => ~Own(queue[b], L)
      /\ Ballot(queue[a], L, t) => ~Own(queue[b], L)
      /\ a < b /\ Ballot(queue[a], L, t) => ~Echo(queue[b], L, t)

\* What a leader has in flight is of its term, starts within its log, and is
\* refused with a hint within its log.
LeaderOrder ==
  \A L \in Node : \A t \in Nat : role[L] = "leader" /\ t = currentTerm[L] =>
    /\ \A a \in 1..Len(queue) :
         /\ Own(queue[a], L) => queue[a].term = t /\ queue[a].prevIndex <= Len(log[L])
         /\ Echo(queue[a], L, t) /\ ~queue[a].success => queue[a].conflict <= Len(log[L])
    /\ \A j \in Node : nextIndex[L][j] <= Len(log[L]) + 1

\* Where a message of the queue comes from in a step.
LEMMA OldOrNew ==
  ASSUME TypeInv, TypeInv', NEW d \in {0, 1}, TakesAndSends(d), NEW k \in 1..Len(queue')
  PROVE  /\ Len(queue) \in Nat /\ Len(queue') \in Nat /\ d <= Len(queue) /\ k \in Nat
         /\ queue'[k] \in SoundMessage
         /\ \/ k + d \in 1..Len(queue) /\ queue'[k] = queue[k + d]
            \/ k > Len(queue) - d /\ SentIn(d, queue'[k])
<1>1. queue \in Seq(SoundMessage) /\ queue' \in Seq(SoundMessage)
  BY DEF TypeInv, QueueType
<1>2. Len(queue) \in Nat /\ Len(queue') \in Nat /\ queue'[k] \in SoundMessage
  BY <1>1, LenProperties, ElementOfSeq
<1> QED BY <1>2 DEF TakesAndSends

\* A message of the queue is in flight.
LEMMA QueuedInFlight ==
  ASSUME TypeInv, NEW k \in 1..Len(queue)
  PROVE  queue[k] \in InFlight(queue) /\ queue[k] \in SoundMessage
<1>1. queue \in Seq(SoundMessage)
  BY DEF TypeInv, QueueType
<1> QED BY <1>1, LenProperties, ElementOfSeq DEF InFlight

\* Only a leader sends its appends.
LEMMA OwnIsOld ==
  ASSUME NEW d, NEW m, NEW L, SentIn(d, m), Own(m, L)
  PROVE  role'[L] = "leader" /\ LeaderSends(m)
BY DEF SentIn, Own, LeaderSends, Answers

\* A vote that is sent answers a request, an answer to an append answers one.
LEMMA AnswersHead ==
  ASSUME NEW d, NEW m, NEW L, NEW t, SentIn(d, m)
  PROVE  /\ Ballot(m, L, t) => d = 1 /\ Ask(queue[1], L, t)
         /\ Echo(m, L, t) => d = 1 /\ Own(queue[1], L) /\ Answers(queue[1], m)
BY DEF SentIn, Ballot, Echo, Ask, Own, LeaderSends, Answers

\* CandidateOrder is kept.
LEMMA CandidateOrderStep ==
  ASSUME GroupInv, CommitStep, TrafficStep, CandidateOrder
  PROVE  CandidateOrder'
<1>1. PICK d \in {0, 1} : TakesAndSends(d)
  BY DEF TrafficStep, QueueStep
<1>2. TypeInv /\ TypeInv' /\ RolesStep /\ RequestInv /\ GrantInv
  BY DEF CommitStep, GoodStep, Summary, GroupInv, CommitsInv, AckSide
<1> SUFFICES ASSUME NEW L \in Node, NEW t \in Nat, role'[L] = "candidate", t = currentTerm'[L],
                    NEW a \in 1..Len(queue'), NEW b \in 1..Len(queue')
             PROVE  /\ a < b /\ Ask(queue'[a], L, t) => ~Own(queue'[b], L)
                    /\ Ballot(queue'[a], L, t) => ~Own(queue'[b], L)
                    /\ a < b /\ Ballot(queue'[a], L, t) => ~Echo(queue'[b], L, t)
  BY DEF CandidateOrder
<1> DEFINE Old(k) == k + d \in 1..Len(queue) /\ queue'[k] = queue[k + d]
           New(k) == k > Len(queue) - d /\ SentIn(d, queue'[k])
<1>3. Len(queue) \in Nat /\ d \in Nat /\ d <= Len(queue) /\ a \in Nat /\ b \in Nat
  BY <1>1, <1>2, OldOrNew
<1>4. (Old(a) \/ New(a)) /\ (Old(b) \/ New(b))
  BY <1>1, <1>2, OldOrNew
<1>5. a < b /\ Old(b) => Old(a)
  <2>1. a < b /\ Old(b) => a + d <= Len(queue)
    BY <1>3
  <2>2. a + d <= Len(queue) => ~(a > Len(queue) - d)
    BY <1>3
  <2> QED BY <1>4, <2>1, <2>2
<1>6. New(b) => ~Own(queue'[b], L)
  BY OwnIsOld
<1>7. /\ New(a) /\ Ballot(queue'[a], L, t) => d = 1 /\ Ask(queue[1], L, t)
      /\ New(b) /\ Echo(queue'[b], L, t) => d = 1 /\ Own(queue[1], L)
  BY AnswersHead
<1>8. d = 1 => 1 \in 1..Len(queue)
  BY <1>3
<1>9. CASE role[L] = "candidate" /\ currentTerm[L] = t
  <2>1. \A x, y \in 1..Len(queue) :
          /\ x < y /\ Ask(queue[x], L, t) => ~Own(queue[y], L)
          /\ Ballot(queue[x], L, t) => ~Own(queue[y], L)
          /\ x < y /\ Ballot(queue[x], L, t) => ~Echo(queue[y], L, t)
    BY <1>9 DEF CandidateOrder
  <2>2. a < b => a + d < b + d
    BY <1>3
  <2>3. Old(b) /\ d = 1 => 1 < b + d
    BY <1>3
  <2>4. a < b /\ Ask(queue'[a], L, t) => ~Own(queue'[b], L)
    BY <1>4, <1>5, <1>6, <2>1, <2>2
  <2>5. Ballot(queue'[a], L, t) => ~Own(queue'[b], L)
    BY <1>4, <1>6, <1>7, <1>8, <2>1, <2>3
  <2>6. ~(Ask(queue[1], L, t) /\ Own(queue[1], L))
    BY DEF Ask, Own
  <2>7. ASSUME a < b, Ballot(queue'[a], L, t), Echo(queue'[b], L, t) PROVE FALSE
    <3>1. CASE Old(b)
      BY <1>5, <2>1, <2>2, <2>7, <3>1
    <3>2. CASE New(b)
      <4>1. d = 1 /\ Own(queue[1], L)
        BY <1>7, <2>7, <3>2
      <4>2. CASE Old(a)
        BY <1>8, <2>1, <2>7, <4>1, <4>2
      <4>3. CASE New(a)
        BY <1>7, <2>6, <2>7, <4>1, <4>3
      <4> QED BY <1>4, <4>2, <4>3
    <3> QED BY <1>4, <3>1, <3>2
  <2> HIDE DEF Old, New
  <2> QED BY <2>4, <2>5, <2>7
<1>10. CASE t = currentTerm[L] + 1
  <2>1. currentTerm[L] \in Nat
    BY <1>2 DEF TypeInv, DurableType
  <2>2. \A k \in 1..Len(queue) : ~Ask(queue[k], L, t) /\ ~Ballot(queue[k], L, t)
    <3>1. ASSUME NEW k \in 1..Len(queue) PROVE ~Ask(queue[k], L, t) /\ ~Ballot(queue[k], L, t)
      BY <1>2, <1>10, <2>1, QueuedInFlight DEF Ask, Ballot, RequestInv, GrantInv
    <3> QED BY <3>1
  <2>3. ~Ballot(queue'[a], L, t)
    BY <1>4, <1>7, <1>8, <2>2
  <2>4. a < b /\ Ask(queue'[a], L, t) => ~Own(queue'[b], L)
    BY <1>4, <1>5, <1>6, <2>2
  <2> HIDE DEF Old, New
  <2> QED BY <2>3, <2>4
<1> QED BY <1>2, <1>9, <1>10 DEF RolesStep

\* What a leader has counted is within its log.
LEMMA CountedInLog ==
  ASSUME GroupInv, NEW L \in Node, role[L] = "leader"
  PROVE  /\ \A v \in Node : matchIndex[L][v] <= Len(log[L])
         /\ \A a \in 1..Len(queue) :
              Echo(queue[a], L, currentTerm[L]) /\ queue[a].success => queue[a].match <= Len(log[L])
<1> USE DEF GroupInv
<1>1. PICK t \in Nat : t = currentTerm[L] /\ t >= 1
  BY DEF TypeInv, DurableType, LogInv, TermsBounded
<1>2. PICK l \in Seq(Entry) : l = log[L]
  BY DEF TypeInv, DurableType
<1>3. ASSUME NEW v \in Node, NEW K \in Nat, AckedAt(v, L, K) PROVE K <= Len(l)
  <2>1. CASE K = 0
    BY <1>2, <2>1, LenProperties
  <2>2. CASE K >= 1
    <3>1. TermAt(l, K) = t
      BY <1>1, <1>2, <1>3, <2>2 DEF CommitsInv, AckSide, AckInv
    <3>2. K \in 1..Len(l)
      BY <1>1, <3>1, TermAtIndex
    <3> QED BY <3>2, LenProperties
  <2> QED BY <2>1, <2>2
<1>4. ASSUME NEW v \in Node PROVE matchIndex[L][v] <= Len(log[L])
  <2>1. matchIndex[L][v] \in Nat
    BY DEF TypeInv, LeaderType
  <2>2. AckedAt(v, L, matchIndex[L][v])
    BY DEF AckedAt
  <2> QED BY <1>2, <1>3, <2>1, <2>2
<1>5. ASSUME NEW a \in 1..Len(queue), Echo(queue[a], L, currentTerm[L]), queue[a].success
      PROVE  queue[a].match <= Len(log[L])
  <2>1. PICK m \in SoundMessage : m = queue[a] /\ m \in InFlight(queue)
    BY QueuedInFlight
  <2>2. /\ m.type = "AppendResponse" /\ m.dst = L /\ m.term = currentTerm[L] /\ m.success
        /\ m.src \in Node /\ m.match \in Nat
    BY <1>5, <2>1 DEF Echo, SoundMessage, Message
  <2>3. AckedAt(m.src, L, m.match)
    BY <2>1, <2>2 DEF AckedAt, Acks
  <2> QED BY <1>2, <1>3, <2>1, <2>2, <2>3
<1> QED BY <1>4, <1>5

\* A leader's log only grows.
LEMMA LeaderLogGrows ==
  ASSUME GoodStep, NEW L \in Node, role'[L] = "leader"
  PROVE  /\ currentTerm'[L] = currentTerm[L] /\ currentTerm[L] \in Nat
         /\ Len(log[L]) \in Nat /\ Len(log'[L]) \in Nat /\ Len(log[L]) <= Len(log'[L])
         /\ \A k \in 1..Len(log[L]) : log'[L][k] = log[L][k]
<1>1. currentTerm[L] \in Nat /\ log[L] \in Seq(Entry) /\ log'[L] \in Seq(Entry)
  BY StepTypes
<1>2. Len(log[L]) \in Nat /\ Len(log'[L]) \in Nat
  BY <1>1, LenProperties
<1>3. CASE log'[L] = log[L]
  BY <1>1, <1>2, <1>3, LeaderBefore
<1>4. CASE Grew(L)
  <2>1. PICK e \in Entry : log'[L] = Append(log[L], e)
    BY <1>4 DEF Grew
  <2>2. /\ Len(log'[L]) = Len(log[L]) + 1
        /\ \A k \in 1..Len(log[L]) : log'[L][k] = log[L][k]
    BY <1>1, <2>1, AppendProperties
  <2> QED BY <1>1, <1>2, <2>2, LeaderBefore
<1> QED BY <1>3, <1>4, LeaderBefore

\* A leader's next indices stay within its log.
LEMMA NextIndexStep ==
  ASSUME GroupInv, CommitStep, TrafficStep, LeaderOrder, NEW L \in Node, role'[L] = "leader",
         NEW j \in Node
  PROVE  nextIndex'[L][j] <= Len(log'[L]) + 1
<1>1. /\ GoodStep /\ CursorStep /\ TypeInv /\ TypeInv'
  BY DEF CommitStep, TrafficStep, GroupInv, GoodStep
<1>2. /\ currentTerm[L] \in Nat /\ Len(log[L]) \in Nat /\ Len(log'[L]) \in Nat
      /\ Len(log[L]) <= Len(log'[L])
  BY <1>1, LeaderLogGrows
<1>3. /\ nextIndex[L] \in [Node -> Nat] /\ nextIndex'[L] \in [Node -> Nat]
      /\ matchIndex[L] \in [Node -> Nat] /\ matchIndex'[L] \in [Node -> Nat]
  BY <1>1 DEF TypeInv, LeaderType
<1>4. CASE SameCursors(L) \/ PutsEntry(L)
  <2>1. role[L] = "leader" /\ nextIndex'[L] = nextIndex[L]
    BY <1>4 DEF SameCursors, PutsEntry
  <2>2. nextIndex[L][j] <= Len(log[L]) + 1
    BY <1>2, <2>1 DEF LeaderOrder
  <2> QED BY <1>2, <1>3, <2>1, <2>2
<1>5. CASE TakesOver(L)
  BY <1>2, <1>5 DEF TakesOver
<1>6. ASSUME queue # <<>>, role[L] = "leader", Echo(queue[1], L, currentTerm[L])
      PROVE  /\ queue[1].src \in Node /\ queue[1].conflict \in Nat /\ queue[1].match \in Nat
             /\ nextIndex[L][j] <= Len(log[L]) + 1
             /\ ~queue[1].success => queue[1].conflict <= Len(log[L])
             /\ queue[1].success => /\ queue[1].match <= Len(log[L])
                                    /\ \A v \in Node : matchIndex[L][v] <= Len(log[L])
  <2>1. queue \in Seq(SoundMessage) /\ Len(queue) \in Nat /\ Len(queue) >= 1
    BY <1>1, <1>6, TailShifts DEF TypeInv, QueueType
  <2>2. 1 \in 1..Len(queue)
    BY <2>1
  <2>3. queue[1] \in SoundMessage /\ queue[1].type = "AppendResponse"
    BY <1>1, <1>6, <2>2, QueuedInFlight DEF Echo
  <2>4. queue[1].src \in Node /\ queue[1].conflict \in Nat /\ queue[1].match \in Nat
    BY <2>3 DEF SoundMessage, Message
  <2>5. /\ nextIndex[L][j] <= Len(log[L]) + 1
        /\ ~queue[1].success => queue[1].conflict <= Len(log[L])
    BY <1>2, <1>6, <2>2 DEF LeaderOrder
  <2> QED BY <1>6, <2>2, <2>4, <2>5, CountedInLog
<1>7. CASE IsRefused(L)
  <2>1. /\ queue # <<>> /\ role[L] = "leader" /\ Echo(queue[1], L, currentTerm[L])
        /\ ~queue[1].success
        /\ nextIndex'[L] = [nextIndex[L] EXCEPT ![queue[1].src] = Larger(1, queue[1].conflict)]
    BY <1>7 DEF IsRefused
  <2>2. PICK c \in Nat : c = queue[1].conflict /\ c <= Len(log[L])
    BY <1>6, <2>1
  <2>3. nextIndex'[L][j] = nextIndex[L][j] \/ nextIndex'[L][j] = Larger(1, c)
    BY <1>3, <2>1, <2>2
  <2>4. Larger(1, c) <= Len(log[L]) + 1 /\ nextIndex[L][j] <= Len(log[L]) + 1
    BY <1>2, <1>6, <2>1, <2>2 DEF Larger
  <2>5. nextIndex'[L][j] \in Nat
    BY <1>3
  <2> QED BY <1>2, <2>3, <2>4, <2>5
<1>8. CASE IsAcked(L)
  <2>1. /\ queue # <<>> /\ role[L] = "leader" /\ Echo(queue[1], L, currentTerm[L])
        /\ queue[1].success
        /\ matchIndex'[L] = [matchIndex[L] EXCEPT ![queue[1].src] = Larger(@, queue[1].match)]
        /\ nextIndex'[L] = [nextIndex[L] EXCEPT ![queue[1].src] = matchIndex'[L][queue[1].src] + 1]
    BY <1>8 DEF IsAcked
  <2>2. PICK x \in Nat, v \in Node : x = queue[1].match /\ x <= Len(log[L]) /\ v = queue[1].src
    BY <1>6, <2>1
  <2>3. matchIndex[L][v] \in Nat /\ matchIndex[L][v] <= Len(log[L])
    BY <1>3, <1>6, <2>1
  <2>4. matchIndex'[L][v] = Larger(matchIndex[L][v], x)
    BY <1>3, <2>1, <2>2
  <2>5. nextIndex'[L][j] = nextIndex[L][j] \/ nextIndex'[L][j] = matchIndex'[L][v] + 1
    BY <1>3, <2>1, <2>2
  <2>6. nextIndex[L][j] <= Len(log[L]) + 1 /\ nextIndex'[L][j] \in Nat
    BY <1>3, <1>6, <2>1
  <2>7. matchIndex'[L][v] \in Nat /\ matchIndex'[L][v] <= Len(log[L])
    BY <2>2, <2>3, <2>4 DEF Larger
  <2> QED BY <1>2, <2>5, <2>6, <2>7
<1> QED BY <1>1, <1>4, <1>5, <1>7, <1>8 DEF CursorStep

\* LeaderOrder is kept: a new leader meets nothing of its earlier terms.
LEMMA LeaderOrderStep ==
  ASSUME GroupInv, CommitStep, TrafficStep, CandidateOrder, LeaderOrder
  PROVE  LeaderOrder'
<1>1. PICK d \in {0, 1} : TakesAndSends(d)
  BY DEF TrafficStep, QueueStep
<1>2. GoodStep /\ CursorStep /\ TypeInv /\ TypeInv' /\ RolesStep
  BY DEF CommitStep, TrafficStep, GroupInv, GoodStep, Summary
<1> SUFFICES ASSUME NEW L \in Node, NEW t \in Nat, role'[L] = "leader", t = currentTerm'[L],
                    NEW a \in 1..Len(queue')
             PROVE  /\ Own(queue'[a], L) =>
                         queue'[a].term = t /\ queue'[a].prevIndex <= Len(log'[L])
                    /\ Echo(queue'[a], L, t) /\ ~queue'[a].success =>
                         queue'[a].conflict <= Len(log'[L])
  <2>1. \A L, j \in Node : role'[L] = "leader" => nextIndex'[L][j] <= Len(log'[L]) + 1
    BY NextIndexStep
  <2> QED BY <2>1 DEF LeaderOrder
<1>3. /\ t = currentTerm[L] /\ Len(log[L]) \in Nat /\ Len(log'[L]) \in Nat
      /\ Len(log[L]) <= Len(log'[L]) /\ role[L] \in {"leader", "candidate"}
  BY <1>2, LeaderLogGrows, LeaderBefore
<1>4. /\ Len(queue) \in Nat /\ d \in Nat /\ d <= Len(queue) /\ a \in Nat /\ queue'[a] \in SoundMessage
      /\ \/ a + d \in 1..Len(queue) /\ queue'[a] = queue[a + d]
         \/ a > Len(queue) - d /\ SentIn(d, queue'[a])
  BY <1>1, <1>2, OldOrNew
<1>5. role[L] = "candidate" => Ballot(queue[1], L, t)
  BY <1>2, <1>3 DEF CursorStep, SameCursors, PutsEntry, TakesOver, IsRefused, IsAcked
<1>6. CASE a + d \in 1..Len(queue) /\ queue'[a] = queue[a + d]
  <2>1. PICK m \in SoundMessage : m = queue[a + d] /\ m = queue'[a]
    BY <1>4, <1>6
  <2>2. /\ Own(m, L) => m.prevIndex \in Nat
        /\ Echo(m, L, t) => m.conflict \in Nat
    BY DEF Own, Echo, SoundMessage, Message
  <2>3. CASE role[L] = "leader"
    <3>1. /\ Own(m, L) => m.term = t /\ m.prevIndex <= Len(log[L])
          /\ Echo(m, L, t) /\ ~m.success => m.conflict <= Len(log[L])
      BY <1>3, <1>6, <2>1, <2>3 DEF LeaderOrder
    <3> QED BY <1>3, <2>1, <2>2, <3>1
  <2>4. CASE role[L] = "candidate"
    <3>1. 1 \in 1..Len(queue) /\ (a + d = 1 \/ 1 < a + d)
      BY <1>4, <1>6
    <3>2. ~Own(m, L)
      BY <1>3, <1>5, <1>6, <2>1, <2>4, <3>1 DEF CandidateOrder
    <3>3. ~Echo(m, L, t)
      <4>1. CASE a + d = 1
        BY <1>5, <2>1, <2>4, <4>1 DEF Ballot, Echo
      <4>2. CASE 1 < a + d
        BY <1>3, <1>5, <1>6, <2>1, <2>4, <3>1, <4>2 DEF CandidateOrder
      <4> QED BY <3>1, <4>1, <4>2
    <3> QED BY <2>1, <3>2, <3>3
  <2> QED BY <1>3, <2>3, <2>4
<1>7. CASE a > Len(queue) - d /\ SentIn(d, queue'[a])
  <2>1. PICK m \in SoundMessage : m = queue'[a] /\ SentIn(d, m)
    BY <1>4, <1>7
  <2>2. ASSUME Own(m, L) PROVE m.term = t /\ m.prevIndex <= Len(log'[L])
    <3>1. LeaderSends(m) /\ m.src = L
      BY <2>1, <2>2, OwnIsOld DEF Own
    <3>2. m.dst \in Node
      BY DEF SoundMessage, Message
    <3>3. m.term = t /\ m.prevIndex = nextIndex'[L][m.dst] - 1
      BY <3>1 DEF LeaderSends
    <3>4. nextIndex'[L][m.dst] <= Len(log'[L]) + 1 /\ nextIndex'[L][m.dst] \in Nat
      BY <1>2, <3>2, NextIndexStep DEF TypeInv, LeaderType
    <3> QED BY <1>3, <3>3, <3>4
  <2>3. ASSUME Echo(m, L, t), ~m.success PROVE m.conflict <= Len(log'[L])
    <3>1. d = 1 /\ Own(queue[1], L) /\ Answers(queue[1], m)
      BY <2>1, <2>3, AnswersHead
    <3>2. 1 \in 1..Len(queue)
      BY <1>4, <3>1
    <3>3. role[L] = "leader"
      BY <1>3, <1>5, <3>1 DEF Ballot, Own
    <3>4. queue[1].term = t /\ queue[1].prevIndex <= Len(log[L])
      BY <1>3, <3>1, <3>2, <3>3 DEF LeaderOrder
    <3>5. m.conflict <= queue[1].prevIndex
      BY <2>3, <3>1, <3>4 DEF Answers, Own, Echo
    <3>6. queue[1].prevIndex \in Nat /\ m.conflict \in Nat
      BY <1>2, <2>3, <3>1, <3>2, QueuedInFlight DEF Own, Echo, SoundMessage, Message
    <3> QED BY <1>3, <3>4, <3>5, <3>6
  <2> QED BY <2>1, <2>2, <2>3
<1> QED BY <1>4, <1>6, <1>7

\* The invariant of the group with the order of its messages.
OrderInv == CandidateOrder /\ LeaderOrder

\* It is an invariant beside that of the group.
LEMMA OrderInvariant == Spec => [](GroupInv /\ OrderInv)
<1>1. Init => OrderInv
  BY DEF Init, OrderInv, CandidateOrder, LeaderOrder
<1>2. GroupInv /\ OrderInv /\ [Next]_vars => OrderInv'
  BY CommitSteps, NextTraffic, CandidateOrderStep, LeaderOrderStep DEF OrderInv, GroupInv
<1> QED BY <1>1, <1>2, GroupInvariant, PTL DEF Spec

\* It gives what a leader's next indices are within.
LEMMA NextIndicesInLog ==
  ASSUME GroupInv, OrderInv
  PROVE  NextIndexInLog
<1> SUFFICES ASSUME NEW i \in Node, NEW j \in Node, role[i] = "leader"
             PROVE  nextIndex[i][j] \in 1..Len(log[i]) + 1
  BY DEF NextIndexInLog
<1>1. /\ nextIndex[i][j] \in Nat /\ nextIndex[i][j] >= 1 /\ currentTerm[i] \in Nat
      /\ log[i] \in Seq(Entry)
  BY DEF GroupInv, TypeInv, LeaderType, DurableType
<1>2. nextIndex[i][j] <= Len(log[i]) + 1
  BY <1>1 DEF OrderInv, LeaderOrder
<1> QED BY <1>1, <1>2, LenProperties

\* A leader never reads the term of a previous entry beyond its log.
THEOREM NextIndexInLogHolds == Spec => []NextIndexInLog
BY OrderInvariant, NextIndicesInLog, PTL

----------------------------------------------------------------------------
(* Reads.  An acknowledgement of a read's context comes from a node that was *)
(* in the leader's term after the read had begun.  So a quorum of them shows *)
(* that nothing was committed in a later term before the read; and it shows  *)
(* that the leader has counted its log, as it was then, on that quorum.      *)

\* Read contexts are of reads that have begun, and kept by leaders.
ContextInv ==
  /\ nextContext >= 1
  /\ \A L \in Node : role[L] # "leader" => readAcks[L] = {}
  /\ \A L \in Node : \A a \in readAcks[L] : a[1] < nextContext
  /\ \A k \in 1..Len(queue) :
       queue[k].type \in {"Append", "AppendResponse"} => queue[k].ctx < nextContext
  /\ client.op = "read" => client.ctx >= 1 /\ client.ctx < nextContext

\* What a leader can commit by its match indices, it has committed.
EagerInv ==
  \A L \in Node : role[L] = "leader" =>
    \A k \in commitIndex[L]+1..Len(log[L]) :
      ~(IsQuorum({j \in Node : matchIndex[L][j] >= k}) /\ log[L][k].term = currentTerm[L])

\* Nothing is known or under way for context c at L, in term t.
Void(L, t, c) ==
  /\ \A j \in Node : <<c, j>> \notin readAcks[L]
  /\ \A k \in 1..Len(queue) : Own(queue[k], L) \/ Echo(queue[k], L, t) => queue[k].ctx # c

\* A quorum that has left term t will never acknowledge context c.
Outdated(L, t, c) ==
  \E V \in SUBSET Node :
    /\ IsQuorum(V)
    /\ \A v \in V :
         /\ currentTerm[v] > t /\ <<c, v>> \notin readAcks[L]
         /\ \A k \in 1..Len(queue) :
              Echo(queue[k], L, t) /\ queue[k].ctx = c => queue[k].src # v

\* Whoever acknowledges context c at L has L's log up to K, an entry of L's
\* term at or after f.
Shows(L, t, c, f, K) ==
  /\ K >= 1 /\ K >= f /\ K <= Len(log[L]) /\ log[L][K].term = t
  /\ \A j \in Node : j # L /\ <<c, j>> \in readAcks[L] => matchIndex[L][j] >= K
  /\ \A k \in 1..Len(queue) :
       /\ Own(queue[k], L) /\ queue[k].ctx = c =>
            queue[k].prevIndex + Len(queue[k].entries) >= K
       /\ Echo(queue[k], L, t) /\ queue[k].success /\ queue[k].ctx = c => queue[k].match >= K

ReadInv ==
  client.op = "read" =>
    \A L \in Node : \A t, c, f \in Nat :
      /\ L = client.leader /\ c = client.ctx /\ f = client.floor
      /\ role[L] = "leader" /\ t = currentTerm[L]
      => Void(L, t, c) \/ Outdated(L, t, c) \/ \E K \in Nat : Shows(L, t, c, f, K)

\* The head of a queue that a step takes from is in the queue.
LEMMA HeadIsQueued ==
  ASSUME TypeInv, queue # <<>>
  PROVE  1 \in 1..Len(queue) /\ queue[1] \in SoundMessage /\ Len(queue) \in Nat
<1>1. queue \in Seq(SoundMessage)
  BY DEF TypeInv, QueueType
<1>2. Len(queue) \in Nat /\ Len(queue) >= 1
  BY <1>1, TailShifts
<1> QED BY <1>1, <1>2, ElementOfSeq

\* ContextInv is kept.
LEMMA ContextInvStep ==
  ASSUME GroupInv, CommitStep, TrafficStep, ContextInv
  PROVE  ContextInv'
<1>1. /\ TypeInv /\ TypeInv' /\ CursorStep /\ ReadStep /\ RolesStep
      /\ nextContext \in Nat /\ nextContext' \in Nat /\ nextContext' >= nextContext
      /\ nextContext >= 1
  BY DEF CommitStep, GoodStep, Summary, TrafficStep, ReadStep, TypeInv, OtherType, ContextInv
<1>2. ASSUME NEW L \in Node, role'[L] # "leader" PROVE readAcks'[L] = {}
  BY <1>1, <1>2 DEF ReadStep, ContextInv
<1>3. ASSUME NEW L \in Node, NEW a \in readAcks'[L] PROVE a[1] < nextContext'
  <2>1. readAcks[L] \in SUBSET (Nat \X Node) /\ readAcks'[L] \in SUBSET (Nat \X Node)
    BY <1>1 DEF TypeInv, LeaderType
  <2>2. a[1] \in Nat
    BY <1>3, <2>1
  <2>3. CASE a \in readAcks[L]
    BY <1>1, <2>2, <2>3 DEF ContextInv
  <2>4. CASE a \notin readAcks[L]
    <3>1. role'[L] = "leader"
      BY <1>2, <1>3
    <3>2. \/ BeginsRead(L)
          \/ queue # <<>> /\ queue[1].type = "AppendResponse" /\ readAcks'[L] = WithAck(L, queue[1])
      BY <1>1, <1>3, <2>4, <3>1
      DEF CursorStep, SameCursors, PutsEntry, TakesOver, IsRefused, IsAcked, Echo
    <3>3. CASE BeginsRead(L)
      <4>1. a = <<nextContext, L>> /\ nextContext' = nextContext + 1
        BY <1>3, <2>4, <3>3 DEF BeginsRead
      <4> QED BY <1>1, <4>1
    <3>4. CASE queue # <<>> /\ queue[1].type = "AppendResponse" /\ readAcks'[L] = WithAck(L, queue[1])
      <4>1. a[1] = queue[1].ctx
        BY <1>3, <2>4, <3>4 DEF WithAck
      <4>2. queue[1].ctx < nextContext
        BY <1>1, <3>4, HeadIsQueued DEF ContextInv
      <4> QED BY <1>1, <2>2, <4>1, <4>2
    <3> QED BY <3>2, <3>3, <3>4
  <2> QED BY <2>3, <2>4
<1>4. ASSUME NEW k \in 1..Len(queue'), queue'[k].type \in {"Append", "AppendResponse"}
      PROVE  queue'[k].ctx < nextContext'
  <2>1. PICK d \in {0, 1} : TakesAndSends(d)
    BY DEF TrafficStep, QueueStep
  <2>2. /\ queue'[k] \in SoundMessage /\ d <= Len(queue) /\ Len(queue) \in Nat
        /\ \/ k + d \in 1..Len(queue) /\ queue'[k] = queue[k + d]
           \/ SentIn(d, queue'[k])
    BY <1>1, <2>1, OldOrNew
  <2>3. PICK m \in SoundMessage : m = queue'[k]
    BY <2>2
  <2>4. m.ctx \in Nat
    BY <1>4, <2>3 DEF SoundMessage, Message
  <2>5. ASSUME NEW x \in 1..Len(queue), queue[x].type \in {"Append", "AppendResponse"},
               queue[x].ctx = m.ctx
        PROVE  m.ctx < nextContext'
    BY <1>1, <2>4, <2>5 DEF ContextInv
  <2>6. CASE k + d \in 1..Len(queue) /\ queue'[k] = queue[k + d]
    BY <1>4, <2>3, <2>5, <2>6
  <2>7. ASSUME LeaderSends(m) PROVE m.ctx < nextContext'
    <3>1. CASE m.ctx = 0
      BY <1>1, <3>1
    <3>2. CASE m.ctx = nextContext /\ nextContext' = nextContext + 1
      BY <1>1, <3>2
    <3>3. CASE queue # <<>> /\ Echo(queue[1], m.src, currentTerm[m.src]) /\ queue[1].ctx = m.ctx
      BY <1>1, <2>5, <3>3, HeadIsQueued DEF Echo
    <3> QED BY <2>7, <3>1, <3>2, <3>3 DEF LeaderSends
  <2>8. ASSUME d = 1, Answers(queue[1], m) PROVE m.ctx < nextContext'
    <3>1. 1 \in 1..Len(queue)
      BY <2>2, <2>8
    <3>2. queue[1].type = "Append" /\ m.ctx = queue[1].ctx
      BY <1>4, <2>3, <2>8 DEF Answers, Own
    <3> QED BY <2>5, <3>1, <3>2
  <2> QED BY <1>4, <2>2, <2>3, <2>6, <2>7, <2>8 DEF SentIn
<1>5. client'.op = "read" => client'.ctx >= 1 /\ client'.ctx < nextContext'
  <2>1. CASE client' = client
    <3>1. client.op = "read" => client.ctx \in Nat
      <4>1. client \in Call
        BY <1>1 DEF TypeInv, OtherType
      <4> QED BY <4>1 DEF Call, Idle
    <3> QED BY <1>1, <2>1, <3>1 DEF ContextInv
  <2>2. CASE \E L \in Node : BeginsRead(L)
    BY <1>1, <2>2 DEF BeginsRead
  <2> QED BY <1>1, <2>1, <2>2 DEF ReadStep
<1>6. nextContext' >= 1
  BY <1>1
<1> QED BY <1>2, <1>3, <1>4, <1>5, <1>6 DEF ContextInv

\* One node is no quorum.
LEMMA OneIsNoQuorum ==
  ASSUME NEW L \in Node, NEW S \in SUBSET Node, S \subseteq {L}
  PROVE  ~IsQuorum(S)
<1>1. Cardinality(S) <= 1 /\ Cardinality(S) \in Nat
  <2>1. IsFiniteSet({L}) /\ Cardinality({L}) = 1
    BY FS_Singleton
  <2> QED BY <2>1, FS_Subset, FS_CardinalityType
<1> QED BY <1>1, RaftAssumption DEF IsQuorum

\* EagerInv is kept: a match index that grows is looked at.
LEMMA EagerInvStep ==
  ASSUME GroupInv, CommitStep, TrafficStep, EagerInv
  PROVE  EagerInv'
<1> SUFFICES ASSUME NEW L \in Node, role'[L] = "leader", NEW k \in commitIndex'[L]+1..Len(log'[L]),
                    IsQuorum({j \in Node : matchIndex'[L][j] >= k}), log'[L][k].term = currentTerm'[L]
             PROVE  FALSE
  BY DEF EagerInv
<1> DEFINE M == {j \in Node : matchIndex'[L][j] >= k}
<1>1. GoodStep /\ CursorStep /\ TypeInv /\ TypeInv' /\ SelfMatch /\ SelfMatch'
  BY SelfMatchStep
  DEF CommitStep, TrafficStep, GroupInv, GoodStep, CommitsInv, AckSide
<1>2. /\ currentTerm'[L] = currentTerm[L] /\ Len(log[L]) \in Nat /\ Len(log'[L]) \in Nat
      /\ \A x \in 1..Len(log[L]) : log'[L][x] = log[L][x]
      /\ commitIndex[L] \in Nat /\ commitIndex'[L] \in Nat
      /\ matchIndex[L] \in [Node -> Nat] /\ matchIndex'[L] \in [Node -> Nat]
  BY <1>1, LeaderLogGrows DEF TypeInv, StoreType, LeaderType
<1>3. k \in Nat /\ k >= 1 /\ k >= commitIndex'[L] + 1 /\ k <= Len(log'[L])
  BY <1>2
<1>4. CASE SameCursors(L) \/ IsRefused(L)
  BY <1>2, <1>4 DEF SameCursors, IsRefused, EagerInv
<1>5. CASE PutsEntry(L)
  <2>1. /\ role[L] = "leader" /\ commitIndex'[L] = commitIndex[L]
        /\ \A j \in Node \ {L} : matchIndex'[L][j] = matchIndex[L][j]
        /\ \A j \in Node : matchIndex[L][j] <= Len(log[L])
    BY <1>2, <1>5, CountedInLog DEF PutsEntry
  <2>2. CASE k <= Len(log[L])
    <3>1. matchIndex[L][L] >= k
      BY <1>1, <1>2, <1>3, <2>1, <2>2 DEF SelfMatch
    <3>2. {j \in Node : matchIndex[L][j] >= k} = {j \in Node : matchIndex'[L][j] >= k}
      <4>1. matchIndex'[L][L] >= k
        BY <1>1, <1>2, <1>3 DEF SelfMatch
      <4> QED BY <2>1, <3>1, <4>1
    <3>3. k \in commitIndex[L]+1..Len(log[L]) /\ log[L][k].term = currentTerm[L]
      BY <1>2, <1>3, <2>1, <2>2
    <3> QED BY <2>1, <3>2, <3>3 DEF EagerInv
  <2>3. CASE k > Len(log[L])
    <3>1. \A j \in Node \ {L} : ~(matchIndex'[L][j] >= k)
      BY <1>2, <1>3, <2>1, <2>3
    <3>2. M \subseteq {L}
      BY <3>1
    <3> QED BY <3>2, OneIsNoQuorum
  <2> QED BY <1>2, <1>3, <2>2, <2>3
<1>6. CASE TakesOver(L)
  <2>1. \A j \in Node \ {L} : ~(matchIndex'[L][j] >= k)
    BY <1>3, <1>6 DEF TakesOver
  <2>2. M \subseteq {L}
    BY <2>1
  <2> QED BY <2>2, OneIsNoQuorum
<1>7. CASE IsAcked(L)
  BY <1>2, <1>7 DEF IsAcked
<1> QED BY <1>1, <1>4, <1>5, <1>6, <1>7 DEF CursorStep

\* Where a new acknowledgement of context c comes from.
LEMMA NewAck ==
  ASSUME CursorStep, NEW L \in Node, role[L] = "leader", role'[L] = "leader",
         NEW c \in Nat, c < nextContext, nextContext \in Nat,
         NEW j \in Node, <<c, j>> \in readAcks'[L], <<c, j>> \notin readAcks[L]
  PROVE  /\ IsAcked(L) /\ queue # <<>> /\ Echo(queue[1], L, currentTerm[L]) /\ queue[1].success
         /\ queue[1].ctx = c /\ j \in {L, queue[1].src}
<1>1. ~(SameCursors(L) \/ PutsEntry(L) \/ TakesOver(L) \/ IsRefused(L))
  <2>1. <<c, j>> # <<nextContext, L>>
    OBVIOUS
  <2> QED BY <2>1 DEF SameCursors, BeginsRead, PutsEntry, TakesOver, IsRefused
<1>2. IsAcked(L)
  BY <1>1 DEF CursorStep
<1>3. /\ queue # <<>> /\ Echo(queue[1], L, currentTerm[L]) /\ queue[1].success
      /\ readAcks'[L] = WithAck(L, queue[1])
  BY <1>2 DEF IsAcked
<1>4. queue[1].ctx = c /\ j \in {L, queue[1].src}
  <2>1. readAcks'[L] = readAcks[L] \cup {<<queue[1].ctx, L>>, <<queue[1].ctx, queue[1].src>>}
    BY <1>3 DEF WithAck
  <2>2. <<c, j>> = <<queue[1].ctx, L>> \/ <<c, j>> = <<queue[1].ctx, queue[1].src>>
    BY <2>1
  <2> QED BY <2>2
<1> QED BY <1>2, <1>3, <1>4

\* An append that is sent for context c retries one that was refused.
LEMMA NewOwn ==
  ASSUME NEW L \in Node, NEW c \in Nat, c >= 1, c < nextContext, nextContext \in Nat,
         NEW d, NEW m, SentIn(d, m), Own(m, L), m.ctx = c
  PROVE  /\ LeaderSends(m) /\ queue # <<>>
         /\ Echo(queue[1], L, currentTerm[L]) /\ queue[1].ctx = c
<1>1. LeaderSends(m) /\ m.src = L
  BY OwnIsOld DEF Own
<1> QED BY <1>1 DEF LeaderSends

\* What a leader sends reaches to the end of its log.
LEMMA OwnReachesEnd ==
  ASSUME GroupInv, CommitStep, TrafficStep, LeaderOrder, NEW L \in Node, role'[L] = "leader",
         NEW m \in SoundMessage, LeaderSends(m), m.src = L
  PROVE  m.prevIndex + Len(m.entries) = Len(log'[L])
<1>1. TypeInv'
  BY DEF CommitStep, GoodStep
<1>2. PICK j \in Node : j = m.dst
  BY DEF SoundMessage, Message
<1>3. PICK l \in Seq(Entry), n \in Nat : l = log'[L] /\ n = nextIndex'[L][j] /\ n >= 1
  BY <1>1 DEF TypeInv, DurableType, LeaderType
<1>4. Len(l) \in Nat /\ n <= Len(l) + 1
  BY <1>2, <1>3, NextIndexStep, LenProperties
<1>5. m.prevIndex = n - 1 /\ m.entries = SubSeq(l, n, Len(l))
  BY <1>2, <1>3 DEF LeaderSends
<1>6. Len(m.entries) = IF n <= Len(l) THEN Len(l) - n + 1 ELSE 0
  BY <1>3, <1>5, EntriesToSend
<1> QED BY <1>3, <1>4, <1>5, <1>6

\* Nothing is known of a context, and nothing comes to be known.
LEMMA VoidStep ==
  ASSUME GroupInv, CommitStep, TrafficStep, ContextInv, NEW L \in Node,
         role[L] = "leader", role'[L] = "leader",
         NEW t \in Nat, t = currentTerm[L], NEW c \in Nat, c >= 1, c < nextContext, Void(L, t, c)
  PROVE  Void(L, t, c)'
<1>1. TypeInv /\ TypeInv' /\ CursorStep /\ nextContext \in Nat
  BY DEF CommitStep, GoodStep, TrafficStep, TypeInv, OtherType
<1>2. PICK d \in {0, 1} : TakesAndSends(d)
  BY DEF TrafficStep, QueueStep
<1>3. ASSUME queue # <<>>, Own(queue[1], L) \/ Echo(queue[1], L, t)
      PROVE  queue[1].ctx # c
  BY <1>1, <1>3, HeadIsQueued DEF Void
<1>4. ASSUME NEW j \in Node PROVE <<c, j>> \notin readAcks'[L]
  <2>1. SUFFICES ASSUME <<c, j>> \in readAcks'[L] PROVE FALSE
    OBVIOUS
  <2>2. <<c, j>> \notin readAcks[L]
    BY DEF Void
  <2> QED BY <1>1, <1>3, <2>1, <2>2, NewAck
<1>5. ASSUME NEW k \in 1..Len(queue'), Own(queue'[k], L) \/ Echo(queue'[k], L, t)
      PROVE  queue'[k].ctx # c
  <2>1. /\ Len(queue) \in Nat /\ d <= Len(queue)
        /\ \/ k + d \in 1..Len(queue) /\ queue'[k] = queue[k + d]
           \/ SentIn(d, queue'[k])
    BY <1>1, <1>2, OldOrNew
  <2>2. CASE k + d \in 1..Len(queue) /\ queue'[k] = queue[k + d]
    BY <1>5, <2>2 DEF Void
  <2>3. PICK m : m = queue'[k]
    OBVIOUS
  <2>4. ASSUME SentIn(d, m), Own(m, L), m.ctx = c PROVE FALSE
    BY <1>1, <1>3, <2>4, NewOwn
  <2>5. ASSUME SentIn(d, m), Echo(m, L, t), m.ctx = c PROVE FALSE
    <3>1. d = 1 /\ Own(queue[1], L) /\ Answers(queue[1], m)
      BY <2>5, AnswersHead
    <3>2. queue[1].ctx = c /\ queue # <<>>
      <4>1. queue[1].ctx = c
        BY <2>5, <3>1 DEF Answers, Echo
      <4>2. queue # <<>>
        BY <2>1, <3>1
      <4> QED BY <4>1, <4>2
    <3> QED BY <1>3, <3>1, <3>2
  <2> QED BY <1>5, <2>1, <2>2, <2>3, <2>4, <2>5
<1> QED BY <1>4, <1>5 DEF Void

\* A quorum that has left the term does not acknowledge.
LEMMA OutdatedStep ==
  ASSUME GroupInv, CommitStep, TrafficStep, ContextInv, NEW L \in Node,
         role[L] = "leader", role'[L] = "leader",
         NEW t \in Nat, t = currentTerm[L], NEW c \in Nat, c >= 1, c < nextContext,
         Outdated(L, t, c)
  PROVE  Outdated(L, t, c)'
<1>1. TypeInv /\ TypeInv' /\ GoodStep /\ CursorStep /\ nextContext \in Nat
  BY DEF CommitStep, GoodStep, TrafficStep, TypeInv, OtherType
<1>2. PICK d \in {0, 1} : TakesAndSends(d)
  BY DEF TrafficStep, QueueStep
<1>3. PICK V \in SUBSET Node :
        /\ IsQuorum(V)
        /\ \A v \in V :
             /\ currentTerm[v] > t /\ <<c, v>> \notin readAcks[L]
             /\ \A k \in 1..Len(queue) :
                  Echo(queue[k], L, t) /\ queue[k].ctx = c => queue[k].src # v
  BY DEF Outdated
<1>4. ASSUME NEW v \in V
      PROVE  /\ currentTerm'[v] > t /\ <<c, v>> \notin readAcks'[L]
             /\ \A k \in 1..Len(queue') :
                  Echo(queue'[k], L, t) /\ queue'[k].ctx = c => queue'[k].src # v
  <2>1. /\ currentTerm[v] > t /\ <<c, v>> \notin readAcks[L] /\ v \in Node
        /\ \A k \in 1..Len(queue) :
             Echo(queue[k], L, t) /\ queue[k].ctx = c => queue[k].src # v
    BY <1>3
  <2>2. currentTerm'[v] > t
    BY <1>1, <2>1, StepTypes
  <2>3. <<c, v>> \notin readAcks'[L]
    <3>1. SUFFICES ASSUME <<c, v>> \in readAcks'[L] PROVE FALSE
      OBVIOUS
    <3>2. /\ queue # <<>> /\ Echo(queue[1], L, t)
          /\ queue[1].ctx = c /\ v \in {L, queue[1].src}
      BY <1>1, <2>1, <3>1, NewAck
    <3>3. v # L
      BY <2>1
    <3> QED BY <1>1, <2>1, <3>2, <3>3, HeadIsQueued
  <2>4. ASSUME NEW k \in 1..Len(queue'), Echo(queue'[k], L, t), queue'[k].ctx = c
        PROVE  queue'[k].src # v
    <3>1. \/ k + d \in 1..Len(queue) /\ queue'[k] = queue[k + d]
          \/ SentIn(d, queue'[k])
      BY <1>1, <1>2, OldOrNew
    <3>2. CASE k + d \in 1..Len(queue) /\ queue'[k] = queue[k + d]
      BY <2>1, <2>4, <3>2
    <3>3. ASSUME NEW m, SentIn(d, m), Echo(m, L, t) PROVE m.src # v
      <4>1. Answers(queue[1], m)
        BY <3>3, AnswersHead
      <4>2. currentTerm'[m.src] = t
        BY <3>3, <4>1 DEF Answers, Echo
      <4> QED BY <2>2, <4>2
    <3> QED BY <2>4, <3>1, <3>2, <3>3
  <2> QED BY <2>2, <2>3, <2>4
<1> QED BY <1>3, <1>4 DEF Outdated

\* What a leader has counted for another node, it does not take back.
LEMMA MatchGrows ==
  ASSUME TypeInv, TypeInv', CursorStep, NEW L \in Node, role[L] = "leader", role'[L] = "leader",
         NEW j \in Node, j # L
  PROVE  /\ matchIndex'[L][j] >= matchIndex[L][j]
         /\ matchIndex[L][j] \in Nat /\ matchIndex'[L][j] \in Nat
         /\ IsAcked(L) /\ j = queue[1].src => matchIndex'[L][j] >= queue[1].match
<1>1. matchIndex[L] \in [Node -> Nat] /\ matchIndex'[L] \in [Node -> Nat]
  BY DEF TypeInv, LeaderType
<1>2. matchIndex[L][j] \in Nat /\ matchIndex'[L][j] \in Nat
  BY <1>1
<1>3. CASE SameCursors(L) \/ PutsEntry(L) \/ IsRefused(L)
  <2>1. matchIndex'[L][j] = matchIndex[L][j]
    BY <1>1, <1>3 DEF SameCursors, PutsEntry, IsRefused
  <2>2. ~IsAcked(L) \/ j # queue[1].src \/ matchIndex'[L][j] >= queue[1].match
    <3>1. SUFFICES ASSUME IsAcked(L), j = queue[1].src PROVE matchIndex'[L][j] >= queue[1].match
      OBVIOUS
    <3>2. PICK x \in Nat : x = queue[1].match
      BY <3>1, HeadIsQueued DEF IsAcked, Echo, SoundMessage, Message
    <3>3. matchIndex'[L][j] = Larger(matchIndex[L][j], x)
      BY <1>1, <3>1, <3>2 DEF IsAcked
    <3> QED BY <1>2, <3>2, <3>3 DEF Larger
  <2> QED BY <1>2, <2>1, <2>2
<1>4. CASE IsAcked(L)
  <2>1. PICK x \in Nat : x = queue[1].match
    BY <1>4, HeadIsQueued DEF IsAcked, Echo, SoundMessage, Message
  <2>2. CASE j = queue[1].src
    <3>1. matchIndex'[L][j] = Larger(matchIndex[L][j], x)
      BY <1>1, <1>4, <2>1, <2>2 DEF IsAcked
    <3> QED BY <1>2, <2>1, <3>1 DEF Larger
  <2>3. CASE j # queue[1].src
    <3>1. matchIndex'[L][j] = matchIndex[L][j]
      BY <1>1, <1>4, <2>3 DEF IsAcked
    <3> QED BY <1>2, <2>3, <3>1
  <2> QED BY <2>2, <2>3
<1> QED BY <1>3, <1>4 DEF CursorStep, TakesOver

\* What acknowledgements show, they keep showing.
LEMMA ShowsStep ==
  ASSUME GroupInv, CommitStep, TrafficStep, LeaderOrder, ContextInv, NEW L \in Node,
         role[L] = "leader", role'[L] = "leader",
         NEW t \in Nat, t = currentTerm[L], NEW c \in Nat, c >= 1, c < nextContext,
         NEW f \in Nat, NEW K \in Nat, Shows(L, t, c, f, K)
  PROVE  Shows(L, t, c, f, K)'
<1>1. TypeInv /\ TypeInv' /\ GoodStep /\ CursorStep /\ nextContext \in Nat
  BY DEF CommitStep, GoodStep, TrafficStep, TypeInv, OtherType
<1>2. PICK d \in {0, 1} : TakesAndSends(d)
  BY DEF TrafficStep, QueueStep
<1>3. /\ Len(log[L]) \in Nat /\ Len(log'[L]) \in Nat /\ Len(log[L]) <= Len(log'[L])
      /\ \A k \in 1..Len(log[L]) : log'[L][k] = log[L][k]
  BY <1>1, LeaderLogGrows
<1>4. K >= 1 /\ K >= f /\ K <= Len(log[L]) /\ log[L][K].term = t
  BY DEF Shows
<1>5. K >= 1 /\ K >= f /\ K <= Len(log'[L]) /\ log'[L][K].term = t
  <2>1. K \in 1..Len(log[L]) /\ K <= Len(log'[L])
    BY <1>3, <1>4
  <2> QED BY <1>3, <1>4, <2>1
<1>6. ASSUME NEW k \in 1..Len(queue), queue[k].ctx = c
      PROVE  /\ Own(queue[k], L) => queue[k].prevIndex + Len(queue[k].entries) >= K
             /\ Echo(queue[k], L, t) /\ queue[k].success => queue[k].match >= K
  BY <1>6 DEF Shows
<1>7. queue # <<>> => 1 \in 1..Len(queue)
  BY <1>1, HeadIsQueued
<1>8. ASSUME NEW j \in Node, j # L, <<c, j>> \in readAcks'[L] PROVE matchIndex'[L][j] >= K
  <2>1. /\ matchIndex'[L][j] >= matchIndex[L][j]
        /\ matchIndex[L][j] \in Nat /\ matchIndex'[L][j] \in Nat
        /\ IsAcked(L) /\ j = queue[1].src => matchIndex'[L][j] >= queue[1].match
    BY <1>1, <1>8, MatchGrows
  <2>2. CASE <<c, j>> \in readAcks[L]
    <3>1. matchIndex[L][j] >= K
      BY <1>8, <2>2 DEF Shows
    <3> QED BY <2>1, <3>1
  <2>3. CASE <<c, j>> \notin readAcks[L]
    <3>1. /\ IsAcked(L) /\ queue # <<>> /\ Echo(queue[1], L, t) /\ queue[1].success
          /\ queue[1].ctx = c /\ j \in {L, queue[1].src}
      BY <1>1, <1>8, <2>3, NewAck
    <3>2. PICK x \in Nat : x = queue[1].match
      BY <1>1, <3>1, HeadIsQueued DEF Echo, SoundMessage, Message
    <3>3. x >= K
      BY <1>6, <1>7, <3>1, <3>2
    <3>4. matchIndex'[L][j] >= x
      BY <1>8, <2>1, <3>1, <3>2
    <3> QED BY <2>1, <3>2, <3>3, <3>4
  <2> QED BY <2>2, <2>3
<1>9. ASSUME NEW k \in 1..Len(queue'), queue'[k].ctx = c
      PROVE  /\ Own(queue'[k], L) => queue'[k].prevIndex + Len(queue'[k].entries) >= K
             /\ Echo(queue'[k], L, t) /\ queue'[k].success => queue'[k].match >= K
  <2>1. /\ Len(queue) \in Nat /\ d <= Len(queue) /\ queue'[k] \in SoundMessage
        /\ \/ k + d \in 1..Len(queue) /\ queue'[k] = queue[k + d]
           \/ SentIn(d, queue'[k])
    BY <1>1, <1>2, OldOrNew
  <2>2. PICK m \in SoundMessage : m = queue'[k]
    BY <2>1
  <2>3. CASE k + d \in 1..Len(queue) /\ queue'[k] = queue[k + d]
    BY <1>6, <1>9, <2>3
  <2>4. ASSUME SentIn(d, m), Own(m, L) PROVE m.prevIndex + Len(m.entries) >= K
    <3>1. LeaderSends(m) /\ m.src = L
      BY <2>4, OwnIsOld DEF Own
    <3>2. m.prevIndex + Len(m.entries) = Len(log'[L])
      BY <3>1, OwnReachesEnd
    <3> QED BY <1>3, <1>5, <3>2
  <2>5. ASSUME SentIn(d, m), Echo(m, L, t), m.success PROVE m.match >= K
    <3>1. d = 1 /\ Own(queue[1], L) /\ Answers(queue[1], m)
      BY <2>5, AnswersHead
    <3>2. 1 \in 1..Len(queue)
      BY <2>1, <3>1
    <3>3. /\ queue[1].ctx = c
          /\ m.match = queue[1].prevIndex + Len(queue[1].entries)
      BY <1>9, <2>2, <2>5, <3>1 DEF Answers, Echo
    <3> QED BY <1>6, <3>1, <3>2, <3>3
  <2> QED BY <2>1, <2>2, <2>3, <2>4, <2>5
<1> QED BY <1>5, <1>8, <1>9 DEF Shows

\* A new leader knows nothing of the read of an earlier term.
LEMMA TakesOverVoid ==
  ASSUME GroupInv, CommitStep, TrafficStep, CandidateOrder, ContextInv, NEW L \in Node,
         role[L] # "leader", role'[L] = "leader",
         NEW t \in Nat, t = currentTerm[L], NEW c \in Nat, c >= 1, c < nextContext
  PROVE  Void(L, t, c)'
<1>1. TypeInv /\ TypeInv' /\ CursorStep /\ nextContext \in Nat
  BY DEF CommitStep, GoodStep, TrafficStep, TypeInv, OtherType
<1>2. PICK d \in {0, 1} : TakesAndSends(d)
  BY DEF TrafficStep, QueueStep
<1>3. TakesOver(L)
  BY <1>1 DEF CursorStep, SameCursors, PutsEntry, IsRefused, IsAcked
<1>4. readAcks'[L] = {} /\ queue # <<>> /\ Ballot(queue[1], L, t) /\ role[L] = "candidate"
  BY <1>3 DEF TakesOver, ContextInv
<1>5. 1 \in 1..Len(queue) /\ Len(queue) \in Nat
  BY <1>1, <1>4, HeadIsQueued
<1>6. ASSUME NEW k \in 1..Len(queue) PROVE ~Own(queue[k], L) /\ ~Echo(queue[k], L, t)
  <2>1. k = 1 \/ 1 < k
    BY <1>5
  <2>2. ~Own(queue[k], L)
    BY <1>4, <1>5 DEF CandidateOrder
  <2>3. k = 1 => ~Echo(queue[k], L, t)
    BY <1>4 DEF Ballot, Echo
  <2>4. 1 < k => ~Echo(queue[k], L, t)
    BY <1>4, <1>5 DEF CandidateOrder
  <2> QED BY <2>1, <2>2, <2>3, <2>4
<1>7. ASSUME NEW k \in 1..Len(queue'), Own(queue'[k], L) \/ Echo(queue'[k], L, t)
      PROVE  queue'[k].ctx # c
  <2>1. \/ k + d \in 1..Len(queue) /\ queue'[k] = queue[k + d]
        \/ SentIn(d, queue'[k])
    BY <1>1, <1>2, OldOrNew
  <2>2. CASE k + d \in 1..Len(queue) /\ queue'[k] = queue[k + d]
    BY <1>6, <1>7, <2>2
  <2>3. PICK m : m = queue'[k]
    OBVIOUS
  <2>4. ASSUME SentIn(d, m), Own(m, L) PROVE m.ctx # c
    <3>1. LeaderSends(m) /\ m.src = L
      BY <2>4, OwnIsOld DEF Own
    <3>2. ~Echo(queue[1], m.src, currentTerm[m.src])
      BY <1>4, <3>1 DEF Ballot, Echo
    <3> QED BY <1>1, <3>1, <3>2 DEF LeaderSends
  <2>5. ~(SentIn(d, m) /\ Echo(m, L, t))
    BY <1>5, <1>6, AnswersHead
  <2> QED BY <1>7, <2>1, <2>2, <2>3, <2>4, <2>5
<1> QED BY <1>4, <1>7 DEF Void

\* A read begins: what was committed is in the leader's log, or a quorum has
\* gone on to a later term.
LEMMA ReadBegins ==
  ASSUME GroupInv, CommitStep, TrafficStep, LeaderOrder, ContextInv, NEW L \in Node,
         role[L] = "leader", role'[L] = "leader", SameCursors(L), BeginsRead(L),
         NEW t \in Nat, t = currentTerm[L], NEW c \in Nat, c = nextContext,
         NEW f \in Nat, f = Len(chosen)
  PROVE  Outdated(L, t, c)' \/ \E K \in Nat : Shows(L, t, c, f, K)'
<1>1. TypeInv /\ TypeInv' /\ GoodStep /\ c >= 1
  BY DEF CommitStep, GoodStep, ContextInv
<1>2. PICK d \in {0, 1} : TakesAndSends(d)
  BY DEF TrafficStep, QueueStep
<1>3. ASSUME NEW j \in Node, <<c, j>> \in readAcks'[L] PROVE j = L
  <2>1. <<c, j>> \notin readAcks[L]
    BY DEF ContextInv
  <2>2. <<c, j>> = <<nextContext, L>>
    BY <1>3, <2>1 DEF BeginsRead
  <2> QED BY <2>2
<1>4. ASSUME NEW k \in 1..Len(queue), queue[k].type \in {"Append", "AppendResponse"}
      PROVE  queue[k].ctx # c
  BY <1>4 DEF ContextInv
<1>5. ASSUME NEW k \in 1..Len(queue'), queue'[k].ctx = c
      PROVE  /\ ~Echo(queue'[k], L, t)
             /\ Own(queue'[k], L) =>
                  queue'[k].prevIndex + Len(queue'[k].entries) = Len(log'[L])
  <2>1. /\ Len(queue) \in Nat /\ d <= Len(queue) /\ queue'[k] \in SoundMessage
        /\ \/ k + d \in 1..Len(queue) /\ queue'[k] = queue[k + d]
           \/ SentIn(d, queue'[k])
    BY <1>1, <1>2, OldOrNew
  <2>2. PICK m \in SoundMessage : m = queue'[k]
    BY <2>1
  <2>3. CASE k + d \in 1..Len(queue) /\ queue'[k] = queue[k + d]
    BY <1>4, <1>5, <2>3 DEF Own, Echo
  <2>4. ASSUME SentIn(d, m), Own(m, L) PROVE m.prevIndex + Len(m.entries) = Len(log'[L])
    <3>1. LeaderSends(m) /\ m.src = L
      BY <2>4, OwnIsOld DEF Own
    <3> QED BY <3>1, OwnReachesEnd
  <2>5. ASSUME SentIn(d, m), Echo(m, L, t) PROVE FALSE
    <3>1. d = 1 /\ Own(queue[1], L) /\ Answers(queue[1], m)
      BY <2>5, AnswersHead
    <3>2. 1 \in 1..Len(queue)
      BY <2>1, <3>1
    <3>3. queue[1].ctx = c /\ queue[1].type = "Append"
      BY <1>5, <2>2, <2>5, <3>1 DEF Answers, Echo, Own
    <3> QED BY <1>4, <3>2, <3>3
  <2>6. m = queue'[k] /\ (Own(m, L) \/ Echo(m, L, t)) /\ SentIn(d, m) =>
          ~Echo(m, L, t) /\ (Own(m, L) => m.prevIndex + Len(m.entries) = Len(log'[L]))
    BY <2>4, <2>5
  <2> QED BY <2>1, <2>2, <2>3, <2>6
<1>6. CASE \E k \in 1..Len(chosen) : chosen[k].at > t
  <2>1. PICK k \in 1..Len(chosen), T, K \in Nat : T > t /\ SettledBy(T, K, k)
    BY <1>6 DEF GroupInv, CommitsInv, ChosenInv
  <2>2. PICK V \in SUBSET Node : IsQuorum(V) /\ \A v \in V : Holds(v, T, K)
    BY <2>1 DEF SettledBy, Anchor
  <2>3. ASSUME NEW v \in V
        PROVE  /\ currentTerm'[v] > t /\ <<c, v>> \notin readAcks'[L]
               /\ \A k_1 \in 1..Len(queue') :
                    Echo(queue'[k_1], L, t) /\ queue'[k_1].ctx = c => queue'[k_1].src # v
    <3>1. currentTerm[v] >= T /\ v \in Node
      BY <2>2 DEF Holds
    <3>2. currentTerm[v] > t /\ currentTerm'[v] > t
      BY <1>1, <2>1, <3>1, StepTypes
    <3>3. v # L
      BY <3>2
    <3> QED BY <1>3, <1>5, <3>1, <3>2, <3>3
  <2>4. Outdated(L, t, c)'
    BY <2>2, <2>3 DEF Outdated
  <2> QED BY <2>4
<1>7. CASE \A k \in 1..Len(chosen) : ~(chosen[k].at > t)
  <2>1. PICK l \in Seq(Entry), K \in Nat : l = log[L] /\ l = log'[L] /\ K = Len(l)
    BY <1>1, LenProperties DEF TypeInv, DurableType, SameCursors
  <2>2. K >= 1 /\ l[K].term = t
    <3>1. Len(log[L]) >= 1 /\ LastTerm(log[L]) = t
      BY DEF GroupInv, LogInv, Owned
    <3> QED BY <2>1, <3>1, LastEntry
  <2>3. f <= K
    <3>1. CASE f = 0
      BY <2>1, <3>1
    <3>2. CASE f >= 1
      <4>1. f \in 1..Len(chosen) /\ DOMAIN chosen = 1..Len(chosen) /\ chosen[f].at \in Nat
        BY <1>1, <3>2, ChosenType
      <4>2. chosen[f].at <= t
        BY <1>7, <4>1
      <4> QED BY <2>1, <4>1, <4>2, LeadersAreComplete DEF LeaderCompleteness
    <3> QED BY <3>1, <3>2
  <2>4. Shows(L, t, c, f, K)'
    BY <1>3, <1>5, <2>1, <2>2, <2>3 DEF Shows
  <2> QED BY <2>4
<1> QED BY <1>6, <1>7

\* ReadInv is kept.
LEMMA ReadInvStep ==
  ASSUME GroupInv, CommitStep, TrafficStep, CandidateOrder, LeaderOrder, ContextInv, ReadInv
  PROVE  ReadInv'
<1> SUFFICES ASSUME client'.op = "read", NEW L \in Node, NEW t \in Nat, NEW c \in Nat, NEW f \in Nat,
                    L = client'.leader, c = client'.ctx, f = client'.floor,
                    role'[L] = "leader", t = currentTerm'[L]
             PROVE  Void(L, t, c)' \/ Outdated(L, t, c)' \/ \E K \in Nat : Shows(L, t, c, f, K)'
  BY DEF ReadInv
<1>1. TypeInv /\ GoodStep /\ ReadStep
  BY DEF CommitStep, GoodStep, TrafficStep
<1>2. t = currentTerm[L]
  BY <1>1, LeaderBefore
<1>3. CASE client' = client
  <2>1. client.op = "read" /\ c >= 1 /\ c < nextContext
    BY <1>3 DEF ContextInv
  <2>2. CASE role[L] = "leader"
    <3>1. Void(L, t, c) \/ Outdated(L, t, c) \/ \E K \in Nat : Shows(L, t, c, f, K)
      BY <1>2, <1>3, <2>1, <2>2 DEF ReadInv
    <3> QED BY <1>2, <2>1, <2>2, <3>1, VoidStep, OutdatedStep, ShowsStep
  <2>3. CASE role[L] # "leader"
    BY <1>2, <2>1, <2>3, TakesOverVoid
  <2> QED BY <2>2, <2>3
<1>4. CASE \E i \in Node : /\ role[i] = "leader" /\ role'[i] = "leader"
                           /\ SameCursors(i) /\ BeginsRead(i)
  <2>1. PICK i \in Node : /\ role[i] = "leader" /\ role'[i] = "leader"
                          /\ SameCursors(i) /\ BeginsRead(i)
    BY <1>4
  <2>2. i = L /\ c = nextContext /\ f = Len(chosen)
    BY <2>1 DEF BeginsRead
  <2> QED BY <1>2, <2>1, <2>2, ReadBegins
<1> QED BY <1>1, <1>3, <1>4 DEF ReadStep

\* The invariant of the group with its reads.
ReadsInv == OrderInv /\ ContextInv /\ EagerInv /\ ReadInv

\* It holds in every state of the group.
LEMMA ReadsInvariant == Spec => [](GroupInv /\ ReadsInv)
<1>1. Init => ContextInv /\ EagerInv /\ ReadInv
  BY DEF Init, Idle, ContextInv, EagerInv, ReadInv
<1>2. GroupInv /\ OrderInv /\ ContextInv /\ EagerInv /\ ReadInv /\ [Next]_vars
        => ContextInv' /\ EagerInv' /\ ReadInv'
  BY CommitSteps, NextTraffic, ContextInvStep, EagerInvStep, ReadInvStep DEF GroupInv, OrderInv
<1> QED BY <1>1, <1>2, OrderInvariant, PTL DEF Spec, ReadsInv

\* A confirmed read finds in its leader's store what was committed before it.
LEMMA ReadsAreFresh ==
  ASSUME GroupInv, ReadsInv
  PROVE  ReadIsFresh
<1> SUFFICES ASSUME client.op = "read", ReadConfirmed
             PROVE  commitIndex[client.leader] >= client.floor
  BY DEF ReadIsFresh
<1> USE DEF GroupInv, ReadsInv
<1>1. PICK L \in Node, c \in Nat, f \in Nat :
        L = client.leader /\ c = client.ctx /\ f = client.floor
  BY DEF TypeInv, OtherType, Call, Idle
<1> DEFINE Q == {j \in Node : <<c, j>> \in readAcks[L]}
<1>2. IsQuorum(Q) /\ Q \in SUBSET Node
  BY <1>1 DEF ReadConfirmed
<1>3. PICK q \in Node : q \in Q
  BY <1>2, QuorumsMeet
<1>4. role[L] = "leader"
  BY <1>3 DEF ContextInv
<1>5. PICK t \in Nat : t = currentTerm[L]
  BY DEF TypeInv, DurableType
<1>6. ~Void(L, t, c)
  BY <1>3 DEF Void
<1>7. ~Outdated(L, t, c)
  BY <1>2, QuorumsMeet DEF Outdated
<1>8. PICK K \in Nat : Shows(L, t, c, f, K)
  BY <1>1, <1>4, <1>5, <1>6, <1>7 DEF ReadInv
<1>9. /\ Len(log[L]) \in Nat /\ commitIndex[L] \in Nat
      /\ K >= 1 /\ K >= f /\ K <= Len(log[L]) /\ log[L][K].term = t
  BY <1>8, LenProperties DEF Shows, TypeInv, DurableType, StoreType
<1> DEFINE M == {j \in Node : matchIndex[L][j] >= K}
<1>10. IsQuorum(M)
  <2>1. \A j \in Q : matchIndex[L][j] >= K
    BY <1>4, <1>8, <1>9 DEF Shows, CommitsInv, AckSide, SelfMatch
  <2>2. Q \subseteq M /\ M \in SUBSET Node
    BY <1>2, <2>1
  <2> HIDE DEF Q, M
  <2> QED BY <1>2, <2>2, QuorumGrows
<1>11. ~(commitIndex[L] < K)
  <2>1. SUFFICES ASSUME commitIndex[L] < K PROVE FALSE
    OBVIOUS
  <2>2. K \in commitIndex[L]+1..Len(log[L])
    BY <1>9, <2>1
  <2> QED BY <1>4, <1>5, <1>9, <1>10, <2>2 DEF EagerInv
<1> QED BY <1>1, <1>9, <1>11

\* A linearizable read that a quorum has confirmed answers with everything
\* that was committed, by any leader, before it began.
THEOREM ReadIsFreshHolds == Spec => []ReadIsFresh
BY ReadsInvariant, ReadsAreFresh, PTL
=============================================================================
