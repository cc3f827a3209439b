------------------------------- MODULE MCWal -------------------------------
(***************************************************************************)
(* Model checking of Wal: small constants, and bounds on what the clients,  *)
(* the operator and the faults do.  Deliveries are not bounded.             *)
(***************************************************************************)
EXTENDS Wal

CONSTANTS
  MaxWrites,      \* writes in a behaviour
  MaxPromotions,  \* promotions
  MaxFaults,      \* crashes, isolations and power losses
  MaxQueue,       \* calls may fill the queue up to this length,
  MaxQueueLate    \* and up to this one from the second promotion on

VARIABLES
  faults,         \* how many there were
  touched         \* the nodes that were crashed, isolated or healed

mcVars == <<vars, faults, touched>>
counters == <<faults, touched>>

Room == Len(queue') <= (IF timeline' <= 2 THEN MaxQueue ELSE MaxQueueLate)

MCInit == Init /\ faults = 0 /\ touched = {}

MCNext ==
  \/ /\ \/ Deliver \/ Returns
        \/ written < MaxWrites /\ (WriteLeader \/ WriteQuorum) /\ Room
        \/ \E n \in Node : \/ Fsync(n)
                           \/ Restart(n) /\ Room
                           \/ timeline <= MaxPromotions /\ Promote(n) /\ Room
     /\ UNCHANGED counters
  \/ \E n \in Node :
       /\ \/ Heal(n) /\ Room /\ UNCHANGED faults
          \/ /\ faults < MaxFaults
             /\ Crash(n) \/ Isolate(n) \/ PowerLoss(n)
             /\ faults' = faults + 1
       /\ touched' = touched \cup {n}

MCSpec == MCInit /\ [][MCNext]_mcVars

\* Wal's Fairness; the counters do not move with deliveries.
MCFairSpec ==
  /\ MCSpec
  /\ WF_mcVars(Deliver /\ UNCHANGED counters)
  /\ WF_mcVars(Returns /\ UNCHANGED counters)

\* As long as the primary itself is neither crashed nor isolated nor healed,
\* and nobody is promoted: once every node stays up and linked, a standby that
\* missed records catches up by the retained WAL or a base backup, and all the
\* logs become and stay the primary's.
CatchesUp ==
  <>[](Calm /\ primary \notin touched) =>
    <>[](\A n \in Node : records[n] = records[primary])
=============================================================================
