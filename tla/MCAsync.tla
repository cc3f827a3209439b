------------------------------ MODULE MCAsync ------------------------------
(***************************************************************************)
(* Model checking of Async: small constants, and bounds on what the         *)
(* clients, the operator and the faults do.  Deliveries are not bounded.    *)
(***************************************************************************)
EXTENDS Async

CONSTANTS
  MaxWrites,      \* writes in a behaviour
  MaxPromotions,  \* promotions
  MaxFaults,      \* crashes, isolations and power losses
  MaxFsyncs,      \* fsync calls
  MaxQueue,       \* calls may fill the queue up to this length,
  MaxQueueLate    \* and up to this one from the second promotion on

VARIABLES
  faults, fsyncs, \* how many there were
  touched         \* the nodes that were crashed, isolated or healed

counters == <<faults, fsyncs, touched>>
mcVars == <<vars, counters>>

Room == Len(queue') <= (IF generation' <= 2 THEN MaxQueue ELSE MaxQueueLate)

MCInit == Init /\ faults = 0 /\ fsyncs = 0 /\ touched = {}

MCNext ==
  \/ /\ \/ Deliver
        \/ written < MaxWrites /\ Write /\ Room
        \/ \E n \in Node : \/ Restart(n) /\ Room
                           \/ generation <= MaxPromotions /\ Promote(n) /\ Room
     /\ UNCHANGED counters
  \/ \E n \in Node :
       /\ fsyncs < MaxFsyncs /\ durable[n] # Image(n) /\ Fsync(n)
       /\ fsyncs' = fsyncs + 1
       /\ UNCHANGED <<faults, touched>>
  \/ \E n \in Node :
       /\ \/ Heal(n) /\ Room /\ UNCHANGED faults
          \/ /\ faults < MaxFaults
             /\ Crash(n) \/ Isolate(n) \/ PowerLoss(n)
             /\ faults' = faults + 1
       /\ touched' = touched \cup {n}
       /\ UNCHANGED fsyncs

MCSpec == MCInit /\ [][MCNext]_mcVars

\* Async's Fairness; the counters do not move with deliveries.
MCFairSpec == MCSpec /\ WF_mcVars(Deliver /\ UNCHANGED counters)

\* As long as no primary was ever rolled back and the last primary itself was
\* neither crashed nor isolated nor healed: once every node stays up and linked,
\* a replica that missed entries or belongs to an earlier lineage is
\* resynchronized, partially or fully, and all the nodes become and stay what
\* the primary is.
Resynchronizes ==
  <>[](Calm /\ primary \notin touched) =>
    <>[](\A n \in Node : Image(n) = Image(primary))
=============================================================================
