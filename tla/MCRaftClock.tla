----------------------------- MODULE MCRaftClock -----------------------------
(***************************************************************************)
(* Model checking of RaftClock.  The bounds are guards on elections, client *)
(* calls and faults; the length of the queue is bounded by the clock alone. *)
(* A behaviour has MaxTerm terms, or one less for every client call.        *)
(***************************************************************************)
EXTENDS RaftClock

CONSTANTS
  MaxTerm,      \* terms and client calls in a behaviour
  MaxCalls,     \* client calls in a behaviour
  MaxFaults,    \* crashes and isolations in a behaviour
  Faulty        \* the nodes that they may hit

VARIABLES calls, faults     \* how many there were

mcVars == <<timedVars, calls, faults>>

Room(i) == currentTerm[i] + calls < MaxTerm

MCRunning ==
  /\ \/ DeliverDue \/ DiscardDue \/ Tick \/ Returns
     \/ \E i \in Node : Beat(i) \/ (Room(i) /\ Stand(i))
  /\ UNCHANGED <<calls, faults>>

\* Where the bound on elections stops the clock.
MCStopped ==
  /\ \E i \in Node : GoesOff(i) /\ role[i] # "leader" /\ ~Room(i)
  /\ UNCHANGED mcVars

MCInit == ClockInit /\ calls = 0 /\ faults = 0

MCNext ==
  \/ MCRunning \/ MCStopped
  \/ \E i \in Node :
       \/ /\ calls < MaxCalls /\ Room(i)
          /\ Write(i) \/ Read(i)
          /\ calls' = calls + 1 /\ UNCHANGED faults
       \/ /\ faults < MaxFaults /\ i \in Faulty
          /\ CrashNow(i) \/ IsolateNow(i)
          /\ faults' = faults + 1 /\ UNCHANGED calls
       \/ /\ RestartNow(i) \/ (LinksOf(i) \cap cut # {} /\ HealNow(i))
          /\ UNCHANGED <<calls, faults>>

MCSpec == MCInit /\ [][MCNext]_mcVars

\* RaftClock's Fairness within the bounds.
MCFairSpec == MCSpec /\ WF_mcVars(MCRunning)
=============================================================================
