------------------------------ MODULE IrqLine ------------------------------
(***************************************************************************)
(* What the hypervisor promises a guest about virtual interrupts, without  *)
(* list registers: each vCPU has a set of pending and a set of active      *)
(* INTIDs.  An INTID is in at most one of them, at most one is active, and *)
(* a new one is accepted only while fewer than Capacity are outstanding.   *)
(* An injection that is merged with an outstanding one of the same INTID,  *)
(* or refused for lack of capacity, changes nothing (a stuttering step).   *)
(***************************************************************************)
EXTENDS Naturals, FiniteSets

CONSTANTS
  VCpus,      \* the vCPUs
  Intids,     \* the virtual INTIDs in use
  Capacity    \* outstanding interrupts a vCPU can hold

VARIABLES
  pend,       \* pend[v]: INTIDs the guest has yet to acknowledge
  act         \* act[v]: INTIDs acknowledged and not yet ended

vars == <<pend, act>>

Outstanding(v) == pend[v] \union act[v]

Init ==
  /\ pend = [v \in VCpus |-> {}]
  /\ act  = [v \in VCpus |-> {}]

Raise(v, i) ==
  /\ i \notin Outstanding(v)
  /\ Cardinality(Outstanding(v)) < Capacity
  /\ pend' = [pend EXCEPT ![v] = @ \union {i}]
  /\ UNCHANGED act

Ack(v, i) ==
  /\ act[v] = {}
  /\ i \in pend[v]
  /\ pend' = [pend EXCEPT ![v] = @ \ {i}]
  /\ act'  = [act EXCEPT ![v] = {i}]

Eoi(v, i) ==
  /\ i \in act[v]
  /\ act' = [act EXCEPT ![v] = @ \ {i}]
  /\ UNCHANGED pend

\* vcpu_init clears the vCPU, its outstanding interrupts included.
Reset(v) ==
  /\ pend' = [pend EXCEPT ![v] = {}]
  /\ act'  = [act EXCEPT ![v] = {}]

Next ==
  \E v \in VCpus :
    \/ Reset(v)
    \/ \E i \in Intids : Raise(v, i) \/ Ack(v, i) \/ Eoi(v, i)

Spec == Init /\ [][Next]_vars
============================================================================
