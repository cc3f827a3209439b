------------------------------- MODULE MCRaft -------------------------------
(***************************************************************************)
(* Model checking of Raft: small constants and named bounds.  The bounds    *)
(* are guards on timers, client calls and faults; a delivery is never       *)
(* bounded, so whatever is in flight is always handled.                     *)
(***************************************************************************)
EXTENDS Raft

CONSTANTS
  MaxTerm,      \* elections start below this term
  MaxLog,       \* client writes start below this log length
  MaxQueue,     \* timers and client calls may fill the queue up to this length
  MaxReads,     \* read contexts
  MaxCrashes,   \* crashes in a behaviour
  MaxCuts       \* isolations in a behaviour

VARIABLES crashes, cuts     \* how many there were

mcVars == <<vars, crashes, cuts>>

Room == Len(queue') <= MaxQueue

MCTimeout(i)   == currentTerm[i] < MaxTerm /\ Timeout(i) /\ Room
MCHeartbeat(i) == Heartbeat(i) /\ Room
MCWrite(i)     == Len(log[i]) < MaxLog /\ (\E k \in Key, v \in Value : ClientWrite(i, k, v)) /\ Room
MCRead(i)      == nextContext <= MaxReads /\ ReadStart(i) /\ Room

MCInit == Init /\ crashes = 0 /\ cuts = 0

MCNext ==
  \/ \E i \in Node :
       \/ /\ MCTimeout(i) \/ MCHeartbeat(i) \/ MCWrite(i) \/ MCRead(i) \/ Restart(i) \/ Heal(i)
          /\ UNCHANGED <<crashes, cuts>>
       \/ crashes < MaxCrashes /\ Crash(i) /\ crashes' = crashes + 1 /\ UNCHANGED cuts
       \/ cuts < MaxCuts /\ Isolate(i) /\ cuts' = cuts + 1 /\ UNCHANGED crashes
  \/ /\ Deliver \/ Discard \/ WriteAccepted \/ WriteUnknown \/ ReadAnswered \/ ReadFailed
     /\ UNCHANGED <<crashes, cuts>>

MCSpec == MCInit /\ [][MCNext]_mcVars
=============================================================================
