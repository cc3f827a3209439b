-------------------------------- MODULE Raft --------------------------------
(***************************************************************************)
(* protocols/raft/group.py: static-membership Raft, one action per RPC      *)
(* handler, timer, client call and lifecycle call.                          *)
(*                                                                          *)
(* Time is abstracted: a follower's or candidate's election deadline and a  *)
(* leader's heartbeat may come at any moment (module RaftClock adds the     *)
(* clock, and with it what must eventually happen).  A client call is synchronous *)
(* and drives the group by ticks, so while `client` is not idle only        *)
(* deliveries and timers run: no other client call, no crash, restart,      *)
(* isolate or heal.  log[i][k] is the entry at index k of the Python list   *)
(* (its index 0 is a sentinel of term 0), and last_applied, which           *)
(* _apply_committed always brings up to commit_index, is commitIndex.       *)
(***************************************************************************)
EXTENDS Network

CONSTANTS Key, Value, None

ASSUME RaftAssumption ==
  /\ N \in Nat /\ N >= 3
  /\ None \notin Node \cup Key \cup Value

VARIABLES
  currentTerm, votedFor, log,        \* survive a crash
  alive, role, votes, nextIndex, matchIndex, commitIndex, data, readAcks,
  queue, cut,                        \* SimNet: messages in flight, cut links
  client, nextContext,               \* the call in progress; read contexts
  chosen                             \* history: the entries ever committed

durableVars == <<currentTerm, votedFor, log>>
leaderVars  == <<role, votes, nextIndex, matchIndex, readAcks>>
stateVars   == <<commitIndex, data>>
clientVars  == <<client, nextContext>>
vars == <<durableVars, alive, leaderVars, stateVars, queue, cut, clientVars, chosen>>

----------------------------------------------------------------------------
(* Logs, stores and quorums *)

Entry == [term : Nat, key : Key \cup {None}, value : Value \cup {None}]
NoOp(t) == [term |-> t, key |-> None, value |-> None]
Store == [Key -> Value \cup {None}]
EmptyStore == [k \in Key |-> None]

Larger(a, b) == IF a > b THEN a ELSE b
Smaller(a, b) == IF a > b THEN b ELSE a

\* The term at index k, 0 at the sentinel.  An index beyond the log, which the
\* code would stop at with an IndexError, is what NextIndexInLog rules out.
TermAt(l, k) == IF k \in DOMAIN l THEN l[k].term ELSE 0
LastTerm(l) == TermAt(l, Len(l))

IsQuorum(S) == Cardinality(S) >= N \div 2 + 1

\* The store after the entries from+1..to of l: the last write of a key wins.
Replay(d, l, from, to) ==
  [k \in Key |->
     LET writes == {j \in from+1..to : l[j].key = k}
     IN  IF writes = {} THEN d[k]
         ELSE l[CHOOSE j \in writes : \A w \in writes : w <= j].value]

\* Mutant: the newer log wins by its length alone.
LongerIsUpToDate(m, l) == m.lastIndex >= Len(l)
\* Mutant: of logs that end in one term, the shorter will do.
TermIsUpToDate(m, l) == m.lastTerm >= LastTerm(l)

\* A candidate's log is at least as up to date as the voter's.
UpToDate(m, l) ==
  \/ m.lastTerm > LastTerm(l)
  \/ m.lastTerm = LastTerm(l) /\ m.lastIndex >= Len(l)

\* Mutant: a conflicting suffix is never cut.
MergeWithoutCut(l, prev, es) == l \o SubSeq(es, Len(l) - prev + 1, Len(es))

\* The log after the entries es that follow index prev: what agrees is kept,
\* what conflicts is cut from the first conflict, what is missing is appended.
Merge(l, prev, es) ==
  LET conflicts == {k \in 1..Len(es) :
                      prev + k <= Len(l) /\ l[prev + k].term # es[k].term}
      kept == IF conflicts = {} THEN l
              ELSE SubSeq(l, 1, prev - 1 +
                     (CHOOSE k \in conflicts : \A c \in conflicts : k <= c))
  IN  kept \o SubSeq(es, Len(kept) - prev + 1, Len(es))

\* The first index of the run of equal terms that ends at index prev.
FirstOfTerm(l, prev) ==
  CHOOSE c \in 1..prev : /\ \A k \in c..prev : l[k].term = l[prev].term
                         /\ c = 1 \/ l[c - 1].term # l[prev].term

----------------------------------------------------------------------------
(* Messages.  read_context None is 0: contexts are counted from 1. *)

RequestVoteMsg(i, j, t, l) ==
  [type |-> "RequestVote", src |-> i, dst |-> j, term |-> t,
   lastIndex |-> Len(l), lastTerm |-> LastTerm(l)]

VoteResponseMsg(i, j, t, granted) ==
  [type |-> "VoteResponse", src |-> i, dst |-> j, term |-> t, granted |-> granted]

\* Mutant: next_index - 1 taken once too often.
AppendMsgOffByOne(i, j, t, l, next, commit, ctx) ==
  [type |-> "Append", src |-> i, dst |-> j, term |-> t,
   prevIndex |-> next - 2, prevTerm |-> TermAt(l, next - 1),
   entries |-> SubSeq(l, next, Len(l)), commit |-> commit, ctx |-> ctx]

\* All the entries from next on are sent, and the sender's commit index.
AppendMsg(i, j, t, l, next, commit, ctx) ==
  [type |-> "Append", src |-> i, dst |-> j, term |-> t,
   prevIndex |-> next - 1, prevTerm |-> TermAt(l, next - 1),
   entries |-> SubSeq(l, next, Len(l)), commit |-> commit, ctx |-> ctx]

AppendResponseMsg(i, j, t, success, match, conflict, ctx) ==
  [type |-> "AppendResponse", src |-> i, dst |-> j, term |-> t,
   success |-> success, match |-> match, conflict |-> conflict, ctx |-> ctx]

AppendsToPeers(i, t, l, next, commit, ctx) ==
  {AppendMsg(i, j, t, l, next[j], commit, ctx) : j \in Node \ {i}}

Send(out) == queue' \in Enqueued(queue, out, cut)
Reply(out) == queue' \in Enqueued(Tail(queue), out, cut)
NoReply == queue' = Tail(queue)

----------------------------------------------------------------------------
Idle == [op |-> "idle"]

Init ==
  /\ currentTerm = [i \in Node |-> 0]
  /\ votedFor = [i \in Node |-> None]
  /\ log = [i \in Node |-> <<>>]
  /\ alive = [i \in Node |-> TRUE]
  /\ role = [i \in Node |-> "follower"]
  /\ votes = [i \in Node |-> {}]
  /\ nextIndex = [i \in Node |-> [j \in Node |-> 0]]
  /\ matchIndex = [i \in Node |-> [j \in Node |-> 0]]
  /\ readAcks = [i \in Node |-> {}]
  /\ commitIndex = [i \in Node |-> 0]
  /\ data = [i \in Node |-> EmptyStore]
  /\ queue = <<>>
  /\ cut = {}
  /\ client = Idle
  /\ nextContext = 1
  /\ chosen = <<>>

----------------------------------------------------------------------------
(* Elections *)

\* What _step_down and _clear_volatile forget of a node's role.
LoseRole(i) ==
  /\ role' = [role EXCEPT ![i] = "follower"]
  /\ votes' = [votes EXCEPT ![i] = {}]
  /\ nextIndex' = [nextIndex EXCEPT ![i] = [j \in Node |-> 0]]
  /\ matchIndex' = [matchIndex EXCEPT ![i] = [j \in Node |-> 0]]
  /\ readAcks' = [readAcks EXCEPT ![i] = {}]

\* A response of a higher term: adopt the term, without a vote, as a follower.
AdoptTerm(i, m) ==
  /\ currentTerm' = [currentTerm EXCEPT ![i] = m.term]
  /\ votedFor' = [votedFor EXCEPT ![i] = None]
  /\ LoseRole(i)
  /\ UNCHANGED log

\* The election deadline of a node that is not the leader has come.
Timeout(i) ==
  /\ alive[i] /\ role[i] # "leader"
  /\ role' = [role EXCEPT ![i] = "candidate"]
  /\ currentTerm' = [currentTerm EXCEPT ![i] = @ + 1]
  /\ votedFor' = [votedFor EXCEPT ![i] = i]
  /\ votes' = [votes EXCEPT ![i] = {i}]
  /\ Send({RequestVoteMsg(i, j, currentTerm[i] + 1, log[i]) : j \in Node \ {i}})
  /\ UNCHANGED <<log, alive, nextIndex, matchIndex, readAcks, stateVars, cut,
                 clientVars, chosen>>

\* Mutant: the voter forgets that it has voted in this term.
GrantsTwice(i, m, voted) == m.term >= currentTerm[i] /\ UpToDate(m, log[i])

\* May voter i grant the vote that m asks for, having voted for `voted`?
Grants(i, m, voted) ==
  /\ m.term >= currentTerm[i]
  /\ voted \in {None, m.src}
  /\ UpToDate(m, log[i])

HandleRequestVote(i, m) ==
  LET higher  == m.term > currentTerm[i]
      term    == Larger(m.term, currentTerm[i])
      voted   == IF higher THEN None ELSE votedFor[i]
      granted == Grants(i, m, voted)
  IN  /\ currentTerm' = [currentTerm EXCEPT ![i] = term]
      /\ votedFor' = [votedFor EXCEPT ![i] = IF granted THEN m.src ELSE voted]
      /\ \/ higher /\ LoseRole(i)
         \/ ~higher /\ UNCHANGED leaderVars
      /\ Reply({VoteResponseMsg(i, m.src, term, granted)})
      /\ UNCHANGED <<log, stateVars, chosen>>

\* Mutant: counted after the no-op is appended, and the sentinel with it.
FreshNextAfterNoOp(i) == [j \in Node |-> Len(log[i]) + 3]

\* The next_index of a new leader i: one past its log.
FreshNext(i) == [j \in Node |-> Len(log[i]) + 1]

\* _become_leader: fresh cursors, a no-op of the new term, and a broadcast.
BecomeLeader(i) ==
  LET last == Len(log[i])
      l    == Append(log[i], NoOp(currentTerm[i]))
      next == FreshNext(i)
  IN  /\ role' = [role EXCEPT ![i] = "leader"]
      /\ nextIndex' = [nextIndex EXCEPT ![i] = next]
      /\ matchIndex' = [matchIndex EXCEPT ![i] =
                          [j \in Node |-> IF j = i THEN last + 1 ELSE 0]]
      /\ log' = [log EXCEPT ![i] = l]
      /\ Reply(AppendsToPeers(i, currentTerm[i], l, next, commitIndex[i], 0))

HandleVoteResponse(i, m) ==
  /\ UNCHANGED <<stateVars, chosen>>
  /\ \/ /\ m.term > currentTerm[i]
        /\ AdoptTerm(i, m)
        /\ NoReply
     \/ /\ m.term < currentTerm[i] \/ (m.term = currentTerm[i] /\ (role[i] # "candidate" \/ ~m.granted))
        /\ UNCHANGED <<durableVars, leaderVars>>
        /\ NoReply
     \/ /\ m.term = currentTerm[i] /\ role[i] = "candidate" /\ m.granted
        /\ votes' = [votes EXCEPT ![i] = @ \cup {m.src}]
        /\ UNCHANGED <<currentTerm, votedFor, readAcks>>
        /\ \/ IsQuorum(votes[i] \cup {m.src}) /\ BecomeLeader(i)
           \/ /\ ~IsQuorum(votes[i] \cup {m.src})
              /\ UNCHANGED <<role, nextIndex, matchIndex, log>>
              /\ NoReply

----------------------------------------------------------------------------
(* Replication *)

\* The leader's heartbeat is due.
Heartbeat(i) ==
  /\ alive[i] /\ role[i] = "leader"
  /\ Send(AppendsToPeers(i, currentTerm[i], log[i], nextIndex[i], commitIndex[i], 0))
  /\ UNCHANGED <<durableVars, alive, leaderVars, stateVars, cut, clientVars, chosen>>

\* Mutant: the term of the previous entry is not compared.
HasPreviousLength(l, m) == m.prevIndex <= Len(l)

\* Does the log l hold the entry that m's entries follow?
HasPrevious(l, m) ==
  m.prevIndex <= Len(l) /\ TermAt(l, m.prevIndex) = m.prevTerm

\* Where the leader should resume when it does not.
ConflictIndex(l, m) ==
  IF m.prevIndex > Len(l) THEN Len(l) + 1 ELSE FirstOfTerm(l, m.prevIndex)

\* Mutant: the last entry of the list is taken for the one past its end.
FollowerCommitOffByOne(commit, l, m) ==
  IF m.commit > commit THEN Larger(commit, Smaller(m.commit, Len(l) - 1)) ELSE commit
\* The index up to which a follower with log l commits on receipt of m.
FollowerCommit(commit, l, m) ==
  IF m.commit > commit THEN Smaller(m.commit, Len(l)) ELSE commit

HandleAppend(i, m) ==
  /\ UNCHANGED chosen
  /\ \/ /\ m.term < currentTerm[i]
        /\ Reply({AppendResponseMsg(i, m.src, currentTerm[i], FALSE, 0,
                                    Len(log[i]) + 1, m.ctx)})
        /\ UNCHANGED <<durableVars, leaderVars, stateVars>>
     \/ /\ m.term >= currentTerm[i]
        /\ currentTerm' = [currentTerm EXCEPT ![i] = m.term]
        /\ votedFor' = IF m.term > currentTerm[i]
                       THEN [votedFor EXCEPT ![i] = None] ELSE votedFor
        /\ \/ (m.term > currentTerm[i] \/ role[i] # "follower") /\ LoseRole(i)
           \/ m.term = currentTerm[i] /\ role[i] = "follower" /\ UNCHANGED leaderVars
        /\ \/ /\ ~HasPrevious(log[i], m)
              /\ Reply({AppendResponseMsg(i, m.src, m.term, FALSE, 0,
                                          ConflictIndex(log[i], m), m.ctx)})
              /\ UNCHANGED <<log, stateVars>>
           \/ /\ HasPrevious(log[i], m)
              /\ LET l == Merge(log[i], m.prevIndex, m.entries)
                     c == FollowerCommit(commitIndex[i], l, m)
                 IN  /\ log' = [log EXCEPT ![i] = l]
                     /\ commitIndex' = [commitIndex EXCEPT ![i] = c]
                     /\ data' = [data EXCEPT ![i] = Replay(@, l, commitIndex[i], c)]
                     /\ Reply({AppendResponseMsg(i, m.src, m.term, TRUE,
                                 m.prevIndex + Len(m.entries), Len(l) + 1, m.ctx)})

\* Mutant: a match one below the index counts as a copy of it.
CommittableTooEarly(i, match) ==
  {k \in commitIndex[i]+1..Len(log[i]) :
     /\ IsQuorum({j \in Node : match[j] >= k - 1})
     /\ log[i][k].term = currentTerm[i]}

\* Mutant: the leader's own copy does not count.
CommittableWithoutSelf(i, match) ==
  {k \in commitIndex[i]+1..Len(log[i]) :
     /\ IsQuorum({j \in Node \ {i} : match[j] >= k})
     /\ log[i][k].term = currentTerm[i]}

\* The indices that _advance_commit may commit: of the leader's own term and
\* on a quorum by its match indices.
Committable(i, match) ==
  {k \in commitIndex[i]+1..Len(log[i]) :
     /\ IsQuorum({j \in Node : match[j] >= k})
     /\ log[i][k].term = currentTerm[i]}

\* History: a leader that commits up to c extends the committed sequence.
Choose(i, c) ==
  chosen' = IF c <= Len(chosen) THEN chosen
            ELSE chosen \o [k \in 1..(c - Len(chosen)) |->
                              [entry |-> log[i][Len(chosen) + k], at |-> currentTerm[i]]]

AdvanceCommit(i, match, next) ==
  \/ /\ Committable(i, match) = {}
     /\ NoReply
     /\ UNCHANGED <<stateVars, chosen>>
  \/ \E c \in Committable(i, match) :
       /\ \A k \in Committable(i, match) : k <= c
       /\ commitIndex' = [commitIndex EXCEPT ![i] = c]
       /\ data' = [data EXCEPT ![i] = Replay(@, log[i], commitIndex[i], c)]
       /\ Choose(i, c)
       /\ Reply(AppendsToPeers(i, currentTerm[i], log[i], next, c, 0))

\* read_acks[context] with the leader itself and the acknowledging peer.
WithAck(i, m) ==
  IF m.ctx = 0 THEN readAcks[i] ELSE readAcks[i] \cup {<<m.ctx, i>>, <<m.ctx, m.src>>}

HandleAppendResponse(i, m) ==
  LET live  == m.term = currentTerm[i] /\ role[i] = "leader"
      match == [matchIndex[i] EXCEPT ![m.src] = Larger(@, m.match)]
      next  == [nextIndex[i] EXCEPT ![m.src] = match[m.src] + 1]
      retry == [nextIndex[i] EXCEPT ![m.src] = Larger(1, m.conflict)]
  IN  \/ /\ m.term > currentTerm[i]
         /\ AdoptTerm(i, m)
         /\ NoReply
         /\ UNCHANGED <<stateVars, chosen>>
      \/ /\ m.term <= currentTerm[i] /\ ~live
         /\ NoReply
         /\ UNCHANGED <<durableVars, leaderVars, stateVars, chosen>>
      \/ /\ live /\ ~m.success
         /\ nextIndex' = [nextIndex EXCEPT ![i] = retry]
         /\ Reply({AppendMsg(i, m.src, currentTerm[i], log[i], retry[m.src],
                             commitIndex[i], m.ctx)})
         /\ UNCHANGED <<durableVars, role, votes, matchIndex, readAcks, stateVars, chosen>>
      \/ /\ live /\ m.success
         /\ matchIndex' = [matchIndex EXCEPT ![i] = match]
         /\ nextIndex' = [nextIndex EXCEPT ![i] = next]
         /\ readAcks' = [readAcks EXCEPT ![i] = WithAck(i, m)]
         /\ AdvanceCommit(i, match, next)
         /\ UNCHANGED <<durableVars, role, votes>>

----------------------------------------------------------------------------
(* The network: the message that is due is handled, or dropped because its *)
(* link was cut since it was sent or because either end is down.           *)

Deliverable(m) == <<m.src, m.dst>> \notin cut /\ alive[m.dst] /\ alive[m.src]

Deliver ==
  /\ queue # <<>> /\ Deliverable(Head(queue))
  /\ LET m == Head(queue)
     IN  \/ m.type = "RequestVote" /\ HandleRequestVote(m.dst, m)
         \/ m.type = "VoteResponse" /\ HandleVoteResponse(m.dst, m)
         \/ m.type = "Append" /\ HandleAppend(m.dst, m)
         \/ m.type = "AppendResponse" /\ HandleAppendResponse(m.dst, m)
  /\ UNCHANGED <<alive, cut, clientVars>>

Discard ==
  /\ queue # <<>> /\ ~Deliverable(Head(queue))
  /\ NoReply
  /\ UNCHANGED <<durableVars, alive, leaderVars, stateVars, cut, clientVars, chosen>>

----------------------------------------------------------------------------
(* Client calls *)

\* The node _leader() finds: of the live leaders, one of the highest term.
IsCurrentLeader(i) ==
  /\ alive[i] /\ role[i] = "leader"
  /\ \A j \in Node : alive[j] /\ role[j] = "leader" => currentTerm[j] <= currentTerm[i]

ClientWrite(i, k, v) ==
  LET e == [term |-> currentTerm[i], key |-> k, value |-> v]
      l == Append(log[i], e)
  IN  /\ client = Idle /\ IsCurrentLeader(i)
      /\ log' = [log EXCEPT ![i] = l]
      /\ matchIndex' = [matchIndex EXCEPT ![i][i] = Len(l)]
      /\ client' = [op |-> "write", leader |-> i, index |-> Len(l), entry |-> e]
      /\ Send(AppendsToPeers(i, currentTerm[i], l, nextIndex[i], commitIndex[i], 0))
      /\ UNCHANGED <<currentTerm, votedFor, alive, role, votes, nextIndex, readAcks,
                     stateVars, cut, nextContext, chosen>>

\* Mutant: any term in which this node leads will do.
WriteCommittedInAnyTerm ==
  LET i == client.leader
  IN  alive[i] /\ role[i] = "leader" /\ commitIndex[i] >= client.index

\* What _wait_for_commit asks before it reports the write as accepted.
WriteCommitted ==
  LET i == client.leader
  IN  /\ alive[i] /\ role[i] = "leader"
      /\ currentTerm[i] = client.entry.term
      /\ commitIndex[i] >= client.index

WriteAccepted ==
  /\ client.op = "write" /\ WriteCommitted
  /\ client' = Idle
  /\ UNCHANGED <<durableVars, alive, leaderVars, stateVars, queue, cut, nextContext, chosen>>

\* The ticks ran out; the last one is not followed by another look.
WriteUnknown ==
  /\ client.op = "write"
  /\ client' = Idle
  /\ UNCHANGED <<durableVars, alive, leaderVars, stateVars, queue, cut, nextContext, chosen>>

\* A LINEARIZABLE read starts its read-index round.  `floor` is history: what
\* was committed when the read began.
ReadStart(i) ==
  /\ client = Idle /\ IsCurrentLeader(i)
  /\ nextContext' = nextContext + 1
  /\ readAcks' = [readAcks EXCEPT ![i] = @ \cup {<<nextContext, i>>}]
  /\ client' = [op |-> "read", leader |-> i, ctx |-> nextContext, floor |-> Len(chosen)]
  /\ Send(AppendsToPeers(i, currentTerm[i], log[i], nextIndex[i], commitIndex[i], nextContext))
  /\ UNCHANGED <<durableVars, alive, role, votes, nextIndex, matchIndex, stateVars, cut, chosen>>

\* Mutant: half of the nodes is taken for a majority.
ReadConfirmedByHalf ==
  2 * Cardinality({j \in Node : <<client.ctx, j>> \in readAcks[client.leader]}) >= N - 1

ReadConfirmed ==
  IsQuorum({j \in Node : <<client.ctx, j>> \in readAcks[client.leader]})

\* The read pops its context and answers from the leader's store, or fails.
ReadEnd ==
  /\ readAcks' = [readAcks EXCEPT ![client.leader] = {a \in @ : a[1] # client.ctx}]
  /\ client' = Idle
  /\ UNCHANGED <<durableVars, alive, role, votes, nextIndex, matchIndex, stateVars,
                 queue, cut, nextContext, chosen>>

ReadAnswered == client.op = "read" /\ ReadConfirmed /\ ReadEnd
ReadFailed == client.op = "read" /\ ReadEnd

----------------------------------------------------------------------------
(* Faults *)

\* Mutant: the vote is lost with the process.
CrashForgetsVote(i) ==
  /\ client = Idle /\ alive[i]
  /\ alive' = [alive EXCEPT ![i] = FALSE]
  /\ LoseRole(i)
  /\ votedFor' = [votedFor EXCEPT ![i] = None]
  /\ commitIndex' = [commitIndex EXCEPT ![i] = 0]
  /\ data' = [data EXCEPT ![i] = EmptyStore]
  /\ UNCHANGED <<currentTerm, log, queue, cut, clientVars, chosen>>

Crash(i) ==
  /\ client = Idle /\ alive[i]
  /\ alive' = [alive EXCEPT ![i] = FALSE]
  /\ LoseRole(i)
  /\ commitIndex' = [commitIndex EXCEPT ![i] = 0]
  /\ data' = [data EXCEPT ![i] = EmptyStore]
  /\ UNCHANGED <<durableVars, queue, cut, clientVars, chosen>>

\* Everything volatile was already cleared by the crash.
Restart(i) ==
  /\ client = Idle /\ ~alive[i]
  /\ alive' = [alive EXCEPT ![i] = TRUE]
  /\ UNCHANGED <<durableVars, leaderVars, stateVars, queue, cut, clientVars, chosen>>

Isolate(i) ==
  /\ client = Idle
  /\ cut' = cut \cup LinksOf(i)
  /\ UNCHANGED <<durableVars, alive, leaderVars, stateVars, queue, clientVars, chosen>>

Heal(i) ==
  /\ client = Idle
  /\ cut' = cut \ LinksOf(i)
  /\ UNCHANGED <<durableVars, alive, leaderVars, stateVars, queue, clientVars, chosen>>

----------------------------------------------------------------------------
Next ==
  \/ \E i \in Node : \/ Timeout(i) \/ Heartbeat(i)
                     \/ \E k \in Key, v \in Value : ClientWrite(i, k, v)
                     \/ ReadStart(i)
                     \/ Crash(i) \/ Restart(i) \/ Isolate(i) \/ Heal(i)
  \/ Deliver \/ Discard
  \/ WriteAccepted \/ WriteUnknown \/ ReadAnswered \/ ReadFailed

Spec == Init /\ [][Next]_vars

----------------------------------------------------------------------------
(* Properties *)

Message ==
  [type : {"RequestVote"}, src : Node, dst : Node, term : Nat,
   lastIndex : Nat, lastTerm : Nat]
  \cup
  [type : {"VoteResponse"}, src : Node, dst : Node, term : Nat, granted : BOOLEAN]
  \cup
  [type : {"Append"}, src : Node, dst : Node, term : Nat, prevIndex : Nat,
   prevTerm : Nat, entries : Seq(Entry), commit : Nat, ctx : Nat]
  \cup
  [type : {"AppendResponse"}, src : Node, dst : Node, term : Nat,
   success : BOOLEAN, match : Nat, conflict : Nat, ctx : Nat]

Call ==
  {Idle}
  \cup [op : {"write"}, leader : Node, index : Nat, entry : Entry]
  \cup [op : {"read"}, leader : Node, ctx : Nat, floor : Nat]

\* The type invariant of the group: every field of _Node, of the messages in
\* flight and of the client call in progress stays of its kind.
TypeOK ==
  /\ currentTerm \in [Node -> Nat]
  /\ votedFor \in [Node -> Node \cup {None}]
  /\ log \in [Node -> Seq(Entry)]
  /\ alive \in [Node -> BOOLEAN]
  /\ role \in [Node -> {"follower", "candidate", "leader"}]
  /\ votes \in [Node -> SUBSET Node]
  /\ nextIndex \in [Node -> [Node -> Nat]]
  /\ matchIndex \in [Node -> [Node -> Nat]]
  /\ readAcks \in [Node -> SUBSET (Nat \X Node)]
  /\ commitIndex \in [Node -> Nat]
  /\ data \in [Node -> Store]
  /\ queue \in Seq(Message)
  /\ cut \subseteq Node \X Node
  /\ client \in Call
  /\ nextContext \in Nat
  /\ chosen \in Seq([entry : Entry, at : Nat])

\* Two leaders never share a term: votes are counted per term, survive crashes
\* and are never given twice, whatever stale responses are still in flight.
ElectionSafety ==
  \A i, j \in Node :
    role[i] = "leader" /\ role[j] = "leader" /\ currentTerm[i] = currentTerm[j] => i = j

\* Two logs that agree on the term of one index agree on everything up to it:
\* what prev_log_index/prev_log_term and the cut at a conflict are for.
LogMatching ==
  \A i, j \in Node : \A k \in 1..Smaller(Len(log[i]), Len(log[j])) :
    log[i][k].term = log[j][k].term => SubSeq(log[i], 1, k) = SubSeq(log[j], 1, k)

\* A leader holds everything that was committed in its term or before it: the
\* up-to-date test, durable votes and the majority of _advance_commit together.
LeaderCompleteness ==
  \A i \in Node : role[i] = "leader" =>
    \A k \in DOMAIN chosen : chosen[k].at <= currentTerm[i] =>
      k <= Len(log[i]) /\ log[i][k] = chosen[k].entry

\* A committed entry is in the log of a majority for ever: no crash, election
\* or conflict cut brings it below that.
CommittedOnQuorum ==
  \A k \in DOMAIN chosen :
    IsQuorum({j \in Node : k <= Len(log[j]) /\ log[j][k] = chosen[k].entry})

\* A leader's match index claims only what the follower's log really holds,
\* for as long as that follower has not moved on to a later term.
MatchIsTrue ==
  \A i, j \in Node : role[i] = "leader" /\ currentTerm[j] = currentTerm[i] =>
    /\ matchIndex[i][j] <= Len(log[j])
    /\ \A k \in 1..matchIndex[i][j] : k <= Len(log[i]) /\ log[j][k] = log[i][k]

\* A leader's next index stays within its log or one past it, so that reading
\* the previous entry's term never runs off the end of the list: no refusal
\* that a follower sent to another term's leader, or about its own longer log,
\* is taken for a hint.
NextIndexInLog ==
  \A i, j \in Node : role[i] = "leader" =>
    nextIndex[i][j] \in 1..Len(log[i]) + 1

\* When client_write is about to report success, its own entry (and not one
\* that a later leader put at that index) is committed.
AcceptedIsCommitted ==
  client.op = "write" /\ WriteCommitted =>
    client.index <= Len(chosen) /\ chosen[client.index].entry = client.entry

\* When a read-index round has its quorum, the store it is answered from has
\* applied everything that was committed when the read began.
ReadIsFresh ==
  client.op = "read" /\ ReadConfirmed => commitIndex[client.leader] >= client.floor

\* Terms never go back, and within a term a vote is never taken back or given
\* to another node, crash and restart included.
VotesAreFinal ==
  [][\A i \in Node :
       /\ currentTerm'[i] >= currentTerm[i]
       /\ currentTerm'[i] = currentTerm[i] /\ votedFor[i] # None => votedFor'[i] = votedFor[i]]_vars

\* The conflict cut of AppendEntries never reaches into what its own node has
\* committed and applied.
AppliedIsKept ==
  [][\A i \in Node : \A k \in 1..commitIndex[i] :
       k <= Len(log'[i]) /\ log'[i][k] = log[i][k]]_vars

\* The group implements one replicated log whose entries are applied in order.
Abstract ==
  INSTANCE ReplicatedLog WITH
    committed <- [k \in DOMAIN chosen |-> [key |-> chosen[k].entry.key,
                                           value |-> chosen[k].entry.value]],
    applied <- commitIndex, store <- data

\* Every step of the group is a step of the abstract replicated log: no node
\* ever applies an entry that another node's commit contradicts.
ImplementsLog == Abstract!Spec
=============================================================================
