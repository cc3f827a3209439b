----------------------------- MODULE MCSimNet -----------------------------
(***************************************************************************)
(* Model checking of SimNet: two nodes, the second with or without a        *)
(* handler, and bounds on the calls.  Time goes on while messages wait.     *)
(***************************************************************************)
EXTENDS SimNet

CONSTANTS
  MaxSends,     \* messages sent in a behaviour
  MaxTick       \* the harness calls until this tick

MCNext ==
  \/ (heap # {} \/ at # "idle" \/ now < MaxTick) /\ Tick
  \/ /\ now <= MaxTick
     /\ \E s, d \in Node : \/ sends < MaxSends /\ Send(s, d)
                           \/ s = 1 /\ d = 2 /\ (Partition(s, d) \/ Heal(s, d))

MCSpec == Init /\ [][MCNext]_vars
=============================================================================
