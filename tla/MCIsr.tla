------------------------------- MODULE MCIsr -------------------------------
(***************************************************************************)
(* Model checking of Isr: small constants, and bounds on what the clients,  *)
(* the operator and the faults do.  Ticks and deliveries are not bounded:   *)
(* time is relative, so they go through finitely many states.               *)
(***************************************************************************)
EXTENDS Isr

CONSTANTS
  MaxWrites,      \* writes in a behaviour
  MaxElections,   \* controller elections
  MaxFaults,      \* crashes, isolations and slow-downs
  MaxPowerLosses, \* power losses
  MaxQueue,       \* calls may fill the queue up to this length
  Faulty, Losing  \* the nodes that faults (and heals) and power losses may hit

VARIABLES faults, losses     \* how many there were

mcVars == <<vars, faults, losses>>
counters == <<faults, losses>>

Room == Len(queue') <= MaxQueue

MCInit == Init /\ faults = 0 /\ losses = 0

MCNext ==
  \/ /\ \/ Tick \/ LastRefresh \/ Deliver \/ Returns \/ WriteRefused
        \/ written < MaxWrites /\ (WriteLeader \/ WriteAllIsr) /\ Room
        \/ \E n \in Node : \/ (ClearSlow(n) \/ Restart(n) \/ (n \in Faulty /\ Heal(n))) /\ Room
                           \/ losses < MaxPowerLosses /\ Fsync(n)
                           \/ epoch <= MaxElections /\ Elect(n) /\ Room
     /\ UNCHANGED counters
  \/ /\ faults < MaxFaults
     /\ \E n \in Faulty : SetSlow(n) \/ Crash(n) \/ Isolate(n)
     /\ faults' = faults + 1 /\ UNCHANGED losses
  \/ /\ losses < MaxPowerLosses
     /\ \E n \in Losing : PowerLoss(n)
     /\ losses' = losses + 1 /\ UNCHANGED faults

MCSpec == MCInit /\ [][MCNext]_mcVars

\* Isr's Fairness; the counters do not move with ticks.
MCFairSpec ==
  /\ MCSpec
  /\ WF_mcVars(Tick /\ UNCHANGED counters)
  /\ WF_mcVars(Deliver /\ UNCHANGED counters)
  /\ WF_mcVars(Returns /\ UNCHANGED counters)
=============================================================================
