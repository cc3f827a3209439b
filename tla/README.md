# MiniDist in TLA+

TLA+ models of the four replication protocols of MiniDist and of the simulated
network under them, TLC configurations that check them on small instances, and
proofs, checked by TLAPS, about each of them for every size and choice of constants.

Paths such as `raft/group.py` are relative to `src/src/minidist/protocols/` and
`sim/…` to `src/src/minidist/`.

## 1. The system

MiniDist is one Python process. A *group* owns a `SimNet`, its nodes and (in three
of the four protocols) the control plane. Nothing runs concurrently in the sense of
threads: a harness calls the group, and `tick()` advances a clock and runs the
deliveries that have become due. Interleaving comes from messages in flight, from
the order in which the harness calls things, and from client calls that themselves
drive `tick()` until they have their answer.

| Component | State | Operations | Interacts with | What makes it correct |
|---|---|---|---|---|
| `sim/clock.py`, `scheduler.py`, `network.py` | clock; heap of (due tick, order) events; cut links; message counter | `send`, `_deliver`, `partition`, `heal`, `schedule`, `tick` | called by every group; calls its handlers back | nothing runs late or out of order; a message is lost on a cut link or to a drop only; with one fixed delay it is a FIFO |
| `sim/trace.py` | list of events | `record` | written by everyone, read by nobody | - |
| `sim/failure.py` | flags and images of a teaching node | crash, restart, fsync | used by one test | - |
| `types.py` | - | levels, result records, the Protocol class | implemented by the groups | - |
| `raft/group.py` | per node: term, vote, log (kept); role, votes, cursors, commit index, store, read acks (lost in a crash) | four RPC handlers, election and heartbeat timers, `client_write/read`, crash, restart, isolate, heal | SimNet | one leader per term; committed means on a majority, for ever; a read is fresh; logs converge |
| `isr/group.py` | per node: log, applied high watermark, store, durable image; controller: leader, epoch, ISR, HW, last-caught-up times, lease, retained entries | `tick`, append and snapshot handlers, LEADER and ALL_ISR writes, four kinds of read, slow/clear, fsync, crash, restart, isolate, heal, `controller_elect` | SimNet; the leader's refresh reads followers' state directly | the ISR holds what is below the HW; accepted ALL_ISR writes survive clean elections; guarded reads are fresh; laggards rejoin |
| `wal_shipping/group.py` | per node: records, timeline, durable image; group: primary, timeline, retained WAL, flush acks | record, base-backup and ack handlers, LEADER and QUORUM writes, fsync, crash, restart, isolate, heal, `promote` | SimNet | an accepted QUORUM write is durable on each synchronous standby; records are applied over the right prefix; standbys catch up |
| `async_primary/group.py` | per node: store, offset, replication id, durable image; group: primary, generation, backlog | entry and full-sync handlers, LEADER writes, fsync, crash, restart, isolate, heal, `promote` | SimNet | (replication id, offset) is a position in one history; partial resync skips nothing; replicas converge |
| labs, journey, docs | - | scripts, patches and texts | drive the groups | - |

Hard behaviours, by kind (PROJECT.json `hazards` gives each with its line): stale
messages of an earlier term, epoch, timeline or generation; a client call that keeps
an object or a term across ticks while the group changes under it; power loss that
takes back what others already have; crash and restart between a vote and its
counting; retained windows (`_retained`, `_backlog`) that no longer reach a laggard
or that hold what an election has discarded; lifecycle calls that fail after half
their effects; conflict hints and next-index arithmetic at 0 and at the log's end.

## 2. Modules

| Module | Stands for | Notes |
|---|---|---|
| `Network` | SimNet as the groups use it | one FIFO `queue`, `cut` links, the order of a handler's sends |
| `SimNet` | `sim/clock.py`, `scheduler.py`, `network.py` in full | every draw of delay, drop and reorder; sends from within handlers, with no delay too |
| `Fifo` | abstract: what the groups rely on | `SimNet` implements it (run `simnet`) |
| `Raft` | `raft/group.py` | one action per handler, timer and call; timers at any moment |
| `RaftClock` | `tick()`, deadlines, intervals and waiting of `raft/group.py` | extends `Raft`; each action is one of Raft's with its effect on the clock, or a tick |
| `ReplicatedLog` | abstract: one growing committed sequence, each store the effect of a prefix | `Raft` implements it (`ImplementsLog`, run `raft_commit`) |
| `Isr` | `isr/group.py` | relative clock |
| `Wal` | `wal_shipping/group.py` | |
| `Async` | `async_primary/group.py` | |
| `MCRaft`, `MCRaftClock`, `MCIsr`, `MCWal`, `MCAsync`, `MCSimNet` | bounds for TLC | bounds are guards on calls, timers and faults, never on deliveries |
| `NetworkProofs` | lemmas about `Network`'s operators: order in queues, kept positions, concatenations, prefixes, bounded queues | cited by the modules below |
| `RaftProofs` | Raft: types, votes, elections, logs and appends in flight up to log matching | section 6 |
| `RaftCommitProofs` | Raft: commits, the client, the refinement of `ReplicatedLog`, next indices, reads | extends `RaftProofs` |
| `RaftClockProofs` | RaftClock: it implements Raft; due ticks, timers, followers that have heard their leader, calls to an attended leader, elections that begin alone | extends `RaftClock` and `RaftCommitProofs` |
| `WalProofs` | Wal: types, durability of shipped records, QUORUM calls, promotion | |
| `AsyncProofs` | Async: types, lineages, the primary's lead, the backlog | |
| `IsrProofs` | Isr: types and applied prefixes; the in-sync set, the watermark and accepted writes of orderly behaviours | |
| `SimNetProofs` | SimNet: types, punctuality, order, the refinement of `Fifo` | |

Definitions named `Mutant: …` in comments are deliberate bugs next to the definition
they would replace. No specification uses them; each shows that some property does
notice the bug.

### How the models correspond to the code

* **Messages.** Every group builds its SimNet with `min_delay = max_delay` and no
  drops or reordering, so its scheduler is one FIFO for all links. Raft, Wal and Async take
  the head of `queue`; ticks that deliver nothing change nothing they keep. Isr keeps
  ticks, since lags and leases count them: `wait` is the ticks until a message is due.
  `SimNet` models the general network, and run `simnet` checks that this special case
  is what `Network` assumes. A link is tested when a message is sent and again when it
  is delivered. The messages that a loop over other nodes sends, and those a resynchronization
  picks from a retained window, are chosen by `Kept` (the elements of a sequence at some
  positions): `SelectSeq` would be the obvious word, but it is recursive and opaque to the prover.
* **Client calls** (`client`). A call that waits runs `tick()` in a loop, so while it
  waits nothing but deliveries and timers happens. It may be accepted as soon as its
  condition holds where the code looks at it, and may give up at any look: after the
  last tick of a loop the code does not look again, so giving up is possible even when
  the condition has just become true. `client_write` of Raft keeps the node object and the
  entry; `WriteCommitted` is the test of `_wait_for_commit`.
* **Raft.** Deadlines and heartbeats are abstracted to "at any moment", which includes
  everything that the seeded draws can give (`ClockImplementsRaft` proves it). `last_applied` always equals
  `commit_index`; the sentinel at index 0 is implicit. Read contexts are numbered from 1,
  0 being None. An acknowledgement that comes after its read has ended creates the popped
  entry of `read_acks` again, as `setdefault` does. `chosen` is a history variable: each
  committed entry with the term in which it was committed.
* **RaftClock.** Absolute ticks become distances, so that the state space is finite:
  `wait[k]` is the ticks until `queue[k]` is due, `timer[i]` the ticks to the `heartbeat_due` of
  a leader or the `election_deadline` of another node. One call of `tick()` is a `Tick`, then
  `DeliverDue`/`DiscardDue` while something is due, then `Beat` or `Stand` of each live node whose
  timer has run out, in the order of `node_ids`. Until that is over nobody else acts; then the
  group is `Quiescent` and the turn is the caller's (a new call, a fault, the next tick) or that of
  the loop of a waiting call, which looks first and ticks if it has looked in vain. `left` counts
  the ticks of that loop. `Resets` lists what makes a handler draw a new deadline: a step down, a
  vote given, an AppendEntries of the own term whatever becomes of it. The draw is any value of the
  range. `heard`, `solo` and `promised` are history variables that the properties use.
* **Isr.** `View` and `Becomes` are `_refresh_isr_and_hw` whole, including that the refresh
  looks at the nodes directly: an isolated leader keeps its ISR and its lease. Healing the
  leader synchronizes no follower. `Tick` is the clock's step, `Deliver` one due message,
  `EndTick` the refresh and the look of a waiting call that follow them.
* **Wal.** A promoted synchronous standby remains in `_synchronous`, so no QUORUM call
  is accepted after it; a base backup is not acknowledged; a power loss
  rolls records back but not the node's timeline.
* **Async.** A replication id is the number of its generation. A power loss may take a node
  back to an earlier id (`durable` has both). `rolledBack` is a history variable.
* **Failures half way.** `restart`, `heal` and `set_replica_slow` synchronize last and
  raise if the leader is down; the action keeps the effects that came before.
* **Left out**: traces, messages' wording, validation of arguments that no caller
  violates, probes and the `run_until_` helpers (they observe or tick; the refresh with which Isr's
  `run_until_idle` ends is the action `LastRefresh`), and fields that only
  probes report (`sync_mode`, `catch_up_mode`).

## 3. Properties and what they are for

Raft: `ElectionSafety`, `VotesAreFinal`, `LogMatching`, `LeaderCompleteness`,
`CommittedOnQuorum`, `MatchIsTrue` (a match index claims only what the follower has),
`NextIndexInLog` (no conflict hint leads off the list), `AcceptedIsCommitted`,
`AppliedIsKept`, and the refinement `ImplementsLog`.

RaftClock: `HeardLeaderStays` (a follower that hears its leader stands for no election: the
purpose of the constructor's bound on the lowest timeout), `ElectionsEnd` (a candidate
that stands alone is the last one until the next fault, however deadlines are drawn), `CallsAnswered`
(a call to an attended leader needs one round trip, so `_wait_for_commit` and the loop of
`client_read` never give up on it), `ReadIsFresh` (a read misses nothing that was committed when
it began) and `Convergence` (a calm group ends with one committed log).

Isr: `AppliedIsPrefix`, `IsrHoldsCommitted`, `AcceptedOnIsr`, `AcceptedSurvives`,
`AuthorityReadIsFresh`, `CommittedStays` (the watermark never falls, and what is once below it in the
leader's log stays in the log of whoever leads), `Rejoins`.

Wal: `PrimaryIsFlushed`, `QuorumOnCandidates`, `PromotionKeepsQuorum`,
`PrefixBeforePromotion`, `AppliesOverPrefix`, `CatchesUp`.

Async: `LineageIsOneHistory` and `PrimaryIsAhead` (on ids on which no primary was rolled back),
`BacklogEndsHistory` (the backlog is the end of the primary's history, and on such an id a partial
resynchronization sends exactly what a node lacks), `PositionIdentifiesHistory` (false: finding 3), `Resynchronizes`
(while no primary was ever rolled back and the last one was left alone).

SimNet: `OnTime`, `RunsInOrder`, the refinement `ImplementsFifo`.

Each module has one `TypeOK` (`ClockTypeOK` in RaftClock, which also orders the due ticks).

## 4. Runs

| Run | Bounds | Shows |
|---|---|---|
| `raft_elections` | 3 nodes, 3 terms, 2 crashes, queue ≤ 4 when a timer fires, no client writes (logs hold no-ops) | elections: stale votes, crashed voters, competing candidates, deposed leaders' no-ops cut from logs |
| `raft_commit` | 3 nodes, 3 terms, logs grow to 2 by clients (and by no-ops), 1 isolation | commits, conflict cuts and back-off, deposed leaders' client calls, refinement of `ReplicatedLog` |
| `raft_live` | 3 nodes, timeouts 4 or 5, heartbeat 1, delay 1, 3 terms less one for each of up to 2 calls, 1 crash or isolation of node 2 (restart and heal whenever), fair | elections with drawn deadlines, a heard leader kept, calls in one round trip, fresh reads, convergence |
| `isr_steady` | 3 nodes, 2 writes, 2 faults and 1 power loss of one follower (the other would behave alike), 1 retained entry, lag timeout 1 | a single epoch with a shrinking and growing ISR and snapshots |
| `isr_elect` | 3 nodes, 3 writes, 2 faults, 1 election, all entries retained | a clean election keeps accepted writes and reads stay fresh |
| `isr_rejoin` | 3 nodes, 3 writes, 1 fault of a follower, 1 retained entry, delay 2, fair | a laggard rejoins, by entries or by snapshot |
| `isr_lost` | 3 nodes, 3 writes, 2 elections, 1 fault | **violated**: finding 1 |
| `wal_ship` | 3 nodes (1 synchronous standby), 2 writes, 2 promotions, 1 fault, 1 retained record, fair | durability on candidates, promotion, catch-up |
| `wal_prefix` | the same with 3 writes and 1 promotion | **violated**: finding 2 |
| `async_resync` | 3 nodes, 2 writes, 2 promotions, 1 fault, 1 fsync, backlog of 1, fair | partial and full resynchronization, stale lineages |
| `async_position` | 3 nodes, 2 writes, 1 fault | **violated**: finding 3 |
| `simnet` | 2 nodes, one with a handler, delays 0, 1, 2, 3 sends, drops and reordering | order and punctuality of the scheduler, FIFO with the groups' arguments |

Why the bounds are enough to be interesting: three nodes is the least number with a
quorum that is not everyone, and lets a third node hold what the other two disagree
about. Three Raft terms are the old leader's, the usurper's and the return of the first:
what the counterexample to committing old-term entries needs. A retained window of one entry
makes both ways of catching up (entries and snapshot) reachable after two missed
writes; `isr_elect` is the exception, because with a short window an election makes
replayed entries double the messages in flight at every tick (a hazard in PROJECT.json, seen
in the program). Two promotions in Wal and Async let a former primary be promoted again, with
messages of three timelines or generations in flight; from the second one on calls
may fill the queue to `MaxQueueLate` only, which keeps the state space small. In `raft_live` the
timeouts are the least that the constructor accepts with its delay and interval, where races
between a deadline and a message are tightest, and two values suffice for equal and unequal draws. The
queue needs no bound there: the clock bounds it. A behaviour with calls has fewer terms (`Room`), and
one whose terms are used up stops when the next node would stand (`MCStopped`). Such a stop can
hide no missing progress: `Convergence` promises something of calm behaviours only, and fails if one of
them stops before its logs agree. Queue bounds elsewhere restrict new calls and timers, not what is in flight, and
let two broadcasts overlap. That the bounds reach the interesting cases is what the
mutants show: with each of them in place, TLC finds its property violated under the same
configuration. In `isr_rejoin` faults are confined to followers, and the liveness
properties of Wal and Async ask that the primary itself was not touched, because
healing or restarting a primary does not synchronize its standbys (see
below). Deadlock is checked everywhere but in `simnet`, whose harness may
stop calling.

## 5. Fairness

The program makes progress only because somebody ticks: the labs and tests call
`tick` or `run_until_idle`, and waiting client calls tick themselves. Fairness is weak
everywhere:

* `Deliver` (and `Discard`): every tick runs all events that are due, and each event has a due
  tick, so the head of the queue is handled if ticks go on;
* `Running` in RaftClock: the caller keeps ticking, and what a tick or a call has begun goes on; when
  heartbeats and elections come follows from the clock, and is not assumed;
* `Tick` in Isr: ticks go on;
* `Returns` in Isr and Wal: the loop of a waiting call is bounded by a number of ticks.

No fairness is assumed of elections, draws, client calls, restarts, heals, fsyncs or operators. `Raft`
itself states none. Elections that split for ever are possible in the model, by draws that are always
equal, as they are in the program with probability 0. What does not depend on luck is `ElectionsEnd`:
the first candidate to stand alone, its log not behind, wins, and no other election starts before its
heartbeats arrive. Liveness in Wal, Async and Isr is of the form "if from some time on the leader stays
and all is linked, then it converges".

How much room the constructor's bound (`raft/group.py:125`) leaves was tried apart: without the assumption,
the three properties that speak of elections and calls still hold in the instance of
`raft_live` with a lowest timeout of 3 and of 2, and `ElectionsEnd` fails with 1. The bound is
sufficient and not tight for that instance.

## 6. Proofs

Everything below holds for all values of the constants and for all behaviours of the
module's `Spec`: any number of nodes, messages, client calls, crashes, restarts, cuts,
heals, elections and promotions. Each inductive invariant was first run through TLC
(as an invariant of the component's run, those of Wal, Async and Isr also in other instances).

### Raft (`RaftProofs`, `RaftCommitProofs`, `RaftClockProofs`)

`GroupInv == TypeInv /\ VoteInv /\ LogInv /\ CommitsInv` is inductive; each part rests on
the ones before it.

* `TypeInv` strengthens `TypeOK` by facts about messages in flight (`SoundMessage`: an AppendEntries
  at index 0 has previous term 0, so that the log it starts from really exists) and by positive next
  indexes: without these `SubSeq` in `Merge` and `AppendMsg` would not be known to give a log.
* `VoteInv` is needed because a late response can make a leader. Each *claim* to a vote, one
  counted in `votes` or one in a granting response in flight, is one that its voter's disk still
  accounts for; no voter's vote in a term is claimed for two candidates; leaders have a quorum.
  Two leaders of one term would share a voter (`QuorumsMeet`). This gives `ElectionSafety` and
  `VotesAreFinal`.
* `LogInv` is about *links*: an entry, its index and the term of the entry before it, wherever it
  stands, in a log or in an AppendEntries in flight (`AllLinks`). Links are
  `Unique` (an index and a term determine the entry and what comes before it), `OneRun` (no two
  runs of one term) and `Rising` (terms never fall); the log of the leader of a term holds all links
  of the term (`Owned`), no term is beyond its node's (`TermsBounded`). `LogMatching` follows along the links. The
  invariant is over links rather than over whole logs because a conflict cut, an append and a merge all
  act on links in the same way.
* `CommitsInv` is the argument for commit safety. An acknowledgement pins its sender: it has the
  acknowledged entry, and any vote it gives later goes to a log that has the entry too or that is
  of a later last term (`Pinned`, `Bound`, `Recent`, in `AckInv`, `RequestInv`, `GrantInv`). A quorum so pinned
  is an *anchor*: every later leader has the entry (`SafeLeader`). `ChosenInv` says
  that each committed entry lies at or below an anchor of the term it was committed in (Raft's rule to
  commit own-term entries only is what provides one), `CommitInv` and `MsgCommit` that nobody's
  commit index, in memory or on its way, is beyond the anchors.

* `OrderInv` is about the order of the one queue. What a node sent before it stood for election is
  ahead of its vote requests, hence answered before its votes come in (`CandidateOrder`), so a leader finds in the queue
  only its own term's appends and refusals, and a hint it follows is within its log (`LeaderOrder`).
  `NextIndexInLog` does not follow from terms alone: without the order, a refusal of the term with a hint of an
  earlier, longer log could be imagined.
* `ReadsInv` is about the read in progress. Its context is new (`ContextInv`), and a leader has committed what its match
  indexes let it commit (`EagerInv`). For that context, as long as the leader is in office, one of three things holds (`ReadInv`):
  nothing is known or under way (`Void`, after the leader lost its term and won another); a quorum is in
  a later term and will never acknowledge (`Outdated`: then a later leader may have committed); or
  whoever acknowledges has the leader's log as it was when the read began (`Shows`). Only in the last case can a quorum
  confirm the read, and then the leader has committed all that was committed before the read.

From `CommitsInv`: `LeaderCompleteness`, `CommittedOnQuorum`, `MatchIsTrue`, `AppliedIsKept`; from `OrderInv` and
`ReadsInv` `NextIndexInLog` and `ReadIsFresh`;
with `ClientInv` (the waiting call's entry is still of the term it was written in)
`AcceptedIsCommitted`; with `StoreInv` (a store is the effect of the committed prefix up to its
node's commit index) the refinement `ImplementsLog`. `ClockImplementsRaft` proves `ClockSpec => Spec` action by
action: a handler run by the clock is the handler, a tick in which nothing is due is a stutter. So all of
this holds with the clock as well, for every delay, interval and range of timeouts (`ClockIsSafe`),
and `raft_elections` and `raft_commit`, which check `Raft`, cover more than the group can do.

`ClockInv` is the inductive invariant of the clock itself. Due ticks go with the messages they are for and never
decrease along the queue (`WaitInv`), so that the head is what the scheduler would run next; what a step
does to the queue is put into one lemma per way it can move (`Moved`, `Along`). A timer is within its owner's
role (`TimerInv`, which needs that a node that redraws its deadline has lost its office: a candidate or leader has its own
vote, `OwnVote`, and grants no other). `HeardInv` compares the two nodes' timers: when a follower has heard its leader,
the leader's next heartbeat and its delay come no later than the follower's deadline, or an AppendEntries on its way does. It gives
`ClockTypeOK` and `HeardLeaderStays`, the latter because a deadline of zero would make that message due first.

`RoundInv` adds the round of a call that began with an attended leader. As long as the call lasts nobody that can be heard leaves
the leader's term (`Reigns`: who hears it does not stand, and the others are down or cut off). Each voter of a quorum fixed
when the call began is in one of three stages: asked, has agreed, or counted; the due tick of the message that carries the stage
fits the ticks the call has spent (`Asked`, `Agreed`, `Counted`). That a voter agrees when asked rests on an entry of the
leader's term that both logs hold (`K`): an AppendEntries that starts at or before it fits the voter's log. When all are counted
the next look is satisfied, which is `CallsAnswered`. It needs that no answer is of a term its sender has not
reached (`AnswerTerms`). TLC checked `AnswerTerms` and `RoundInv` with the constants of `raft_live` (1.4 million states).

`SoloInv` follows in the same way an election that a candidate began alone (`Uncontested`). Until the next fault all that is in
flight is the candidate's in its term or answers it, and all are up and linked (`Sole`). `e` ticks after it stood, every other node
either has its request coming before its own deadline and will grant it (`Wooed`), or has voted: its vote is counted or due on time, and the
deadline it drew on voting lies behind the first heartbeat (`Won`). As requests are due after `Delay` ticks and votes after twice that
(`Punctual`), a candidate that still counted after `2 * Delay` ticks would have all votes: `Campaign` cannot last. When it leads,
each other node has heard it, and `HeardInv` applies, or has its AppendEntries coming before the deadline (`Rules`). In none of
these stages can a deadline pass (`SoloStands`), which is `ElectionsEnd`. It rests on the constructor's bound on the lowest timeout,
which outlasts the way of a request and its vote for the candidate, and of the vote and the heartbeat after it for the voter. TLC checked `SoloInv` with the constants of `raft_live`.

Assumptions: `RaftAssumption` (at least three nodes, as the constructor demands, and `None` is not a node,
key or value) and, for the theorems about the clock, `ClockAssumption` (the constructor's bounds).

### Wal (`WalProofs`)

`WalInv` is inductive. Its parts: synchronous standbys and the primary hold only durable records
(`SecuredInv`); no timeline is beyond the group's (`TimelineInv`); what is retained, and the records and
base backups of this timeline on their way, are the primary's (`RetainedInv`, `ShippedInv`); a base
backup holds the records that are delivered before it (`OrderInv`, which needs the FIFO: otherwise a backup could
take back a record already acknowledged); an acknowledgement of this timeline, in flight or counted, is true and no
backup on its way will undo it (`Confirmed`, `AcksInv`); an accepted QUORUM write is held by every
synchronous standby (`AcceptedInv`); before the first promotion all logs are prefixes of the
primary's (`FirstInv`). It gives `TypeOK`, `PrimaryIsFlushed`, `QuorumOnCandidates`, the action
property `PromotionKeepsQuorum` and `PrefixBeforePromotion`. Assumption: `WalAssumption`.
TLC checked `WalInv` exhaustively on 3 nodes with two synchronous standbys, 2 promotions and 2
faults (5.9 million states).

### Async (`AsyncProofs`)

`AsyncInv` is inductive. Its parts: nothing is of a later generation than the group (`IdsInv`); only a power loss
takes a primary off its generation's id (`PrimaryInv`); on an id on which no primary was rolled back, every image of it in
memory or on disk and every message on its way is a prefix of, or in, the primary's history (`AheadInv`,
`ShippedInv`) and any two images are comparable (`ChainInv`); the backlog is the end of the primary's history
(`BacklogInv`). It gives `TypeOK`, `LineageIsOneHistory`, `PrimaryIsAhead` and `BacklogEndsHistory`, whose second
part needs the lead as well: what a replica holds is a prefix (`AheadInv`), the backlog reaches back to it
(`CanPartial`), so the entries beyond it are the rest (`BeyondEnds`). The
condition on rolled back ids cannot be dropped: that is finding 3. Assumption: `AsyncAssumption`.
TLC checked `AsyncInv` exhaustively with the constants of `async_resync` (1.7 million states).

### Isr (`IsrProofs`)

Two invariants are inductive. `IsrInv` is one of every behaviour: types; messages wait in the order in
which they are queued, `Delay` ticks at most (`WaitsInv`); what a node has applied is below the watermark
and starts its log (`AppliedInv`, which is what `Seed`, snapshots and power losses could break); messages are of
epochs that have begun and snapshots not ahead of the watermark (`MessagesInv`). It gives `TypeOK` and
`AppliedIsPrefix`.

The other properties are theorems about *orderly* behaviours, `Spec /\ [][Orderly]_vars`: a step elects a
new leader only when all entries of the old one are below the watermark, and takes nothing from the log of the leader (a leader
that loses power has fsynced all that it wrote). Neither condition is for convenience. Without the
first, finding 1 loses an accepted write; without the second, the leader's own power loss leaves it with a log
below the watermark (a hazard in PROJECT.json). Elections, power losses of followers, crashes, cuts, slow replicas, snapshots
and short retention are all free. `OrderlyInv` adds to `IsrInv`: the members of the ISR are alive and hold what is
below the watermark, and all that is below it is applied (`TightInv`); every log, in memory or on disk, starts the
leader's (`LogsInv`); what is retained is in the leader's log (`RetainedInv`), and so is what is on
its way in the current epoch (`ShippedInv`); a snapshot reaches as far as what is delivered before it and
as its receiver's log (`OrderInv`: without the FIFO a late snapshot could take a member of the ISR below the watermark);
accepted writes and the one that a call waits for are the leader's (`AcceptedInv`). `Flow` is what a step may do to the logs; each
action is shown to have it, and the invariant is then carried over once (`FlowKeeps`). It gives `IsrHoldsCommitted`, `AcceptedOnIsr`,
`AcceptedSurvives`, `AuthorityReadIsFresh` and the action property `CommittedStays`. The guards of the authoritative
reads are not needed for that last-but-one: they matter in behaviours that are not orderly, which only the runs cover.
Assumption: `IsrAssumption`. TLC checked `IsrInv` exhaustively on 3 nodes with 1 retained entry, 2 writes, an election, a fault and a
power loss of any node (7.2 million states), and `OrderlyInv` with orderly steps likewise (4.5 million states), both
also with 2 elections.

### SimNet (`SimNetProofs`)

`SimInv` is inductive: the constructor's arguments are sensible (`ParametersInv`); the heap is finite, holds nothing sent
in the future, and insertion orders follow the clock (`HeapInv`); the event run last comes before all that wait and
all to come (`LastInv`), which is what places an event that a handler schedules for the same tick after the handler's own; nothing is
left behind (`OnTime`); with the groups' arguments each place of the queue is some event's (`PlacesInv`). It gives `TypeOK`, `OnTime`, the action property `RunsInOrder` and the refinement
`ImplementsFifo`. The refinement mapping names the k-th event by its rank (`Place`) rather than by sorting, since sorting is
recursive. Assumption: `SimNetAssumption`.

### Only model-checked

* Isr's properties in behaviours that are not orderly: the runs' elections may leave entries above the watermark
  behind (`isr_elect`, `isr_lost`).
* All liveness, which is out of the prover's reach (fairness and ENABLED), as is induction over
  recursive definitions.
* `AppliesOverPrefix`, `PositionIdentifiesHistory` and `AcceptedSurvives` of more than one election are false
  (findings).

No module declares a RECURSIVE operator, so all of them can be proved about.

## 7. Findings

Each has a run that ends in a counterexample, and each was reproduced with the program.

1. **An accepted ALL_ISR write is lost after two elections** (`isr_lost`). `controller_elect`
   cuts the candidate's log at the watermark but leaves the discarded suffix in `_retained`, and
   synchronization replays it to followers with the authority of the new epoch. Followers'
   log ends then count entries that the leader does not have, the watermark rises, and a
   second election takes the wrong log. `docs/experiments.md` says that ALL_ISR is protected.
2. **A WAL standby applies a record over another timeline's log** (`wal_prefix`). Only the next
   LSN is tested, not the standby's own timeline. If the base backup of a promotion was
   dropped and the link is healed from the other end, the logs of the two nodes differ below an equal LSN and are never repaired.
3. **A position in an async history is reused** (`async_position`). A primary that loses
   unfsynced writes keeps its replication id, and gives the same offsets to other writes.
   `docs/mapping.md` says that id and offset identify a position in one history.

Not a finding with a run, but recorded as hazards: the message storm after an election with a short
retained window; the leader's own power loss in Isr; QUORUM calls that can only
time out after a promotion in Wal; the leak of read contexts in Raft; restart or heal of a primary that
synchronizes nobody.

## 8. Not modelled, and why

* `sim/trace.py`: append-only, nothing reads it.
* `sim/failure.py` (`FailureInjector`, `SimNode`): no group uses it; each group has its own
  crash, fsync and restart, which are modelled.
* `types.py`: no behaviour. Byte encoding of WAL records: a record is its timeline and write number.
* Labs, journey, docs: fixed schedules and text; their schedules are behaviours of the models.
* The seed of Raft's draws: any sequence of draws is possible in the model.
* Reads at the LOCAL and LEADER levels in
  Raft, Wal and Async, which look at one node and promise nothing.

## 9. Plan

In this order:

1. Isr: prove what holds outside orderly behaviours (which accepted writes an election that leaves entries
   behind can lose, and which not).
2. Model: a run of Isr with the leader's power loss and with a longer lease, two crashes in `raft_commit`, an abstract specification shared by Wal and Async
   (a primary's history of which others hold prefixes) with both shown to implement it.
