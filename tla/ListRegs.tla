------------------------------ MODULE ListRegs ------------------------------
(***************************************************************************)
(* The saved list registers of each vCPU (vcpu_t.ich_lr) and the one       *)
(* operation of the hypervisor on them, vgic_inject.  The guest's side,    *)
(* acknowledge and end-of-interrupt, is the GICv3 virtual CPU interface:   *)
(* hardware, modelled from how vcpu_run_once loads and saves the list      *)
(* registers around a guest run.                                           *)
(***************************************************************************)
EXTENDS Naturals, FiniteSets

CONSTANTS
  VCpus,      \* the vCPUs
  Intids,     \* the virtual INTIDs in use
  NLR         \* list registers per vCPU; 4 in the code

ASSUME ListRegsAssumption ==
  /\ NLR \in Nat \ {0}
  /\ Intids \subseteq Nat
  /\ 0 \in Intids        \* a zeroed list register names INTID 0

VARIABLE lr   \* lr[v][s]: vcpus[v].ich_lr[s]

Slots == 0 .. NLR - 1

\* ICH_LR<n>_EL2[63:62] and [31:0].  "Pending and active" never arises: the
\* code writes only pending ones, into invalid slots.
ListReg == [state : {"invalid", "pending", "active"}, intid : Intids]

Empty == [state |-> "invalid", intid |-> 0]

Busy(file, s) == file[s].state # "invalid"

FreeSlots(file) == {s \in Slots : ~Busy(file, s)}

\* The lowest free slot: free_slot once the loop is done.
FirstFree(file) ==
  CHOOSE s \in FreeSlots(file) : \A t \in FreeSlots(file) : s <= t

\* Mutant of Queued: the INTID is compared without looking at the state.
MutQueuedStale(file, i) == \E s \in Slots : file[s].intid = i

\* Mutant of Queued: only pending registers are looked at.
MutQueuedPendingOnly(file, i) ==
  \E s \in Slots : file[s].state = "pending" /\ file[s].intid = i

Queued(file, i) == \E s \in Slots : Busy(file, s) /\ file[s].intid = i

\* Mutant of vgic_inject: a full file overwrites its first register.
MutInjectOverwrites(file, i) ==
  IF Queued(file, i) THEN file
  ELSE LET s == IF FreeSlots(file) = {} THEN 0 ELSE FirstFree(file)
       IN  [file EXCEPT ![s] = [state |-> "pending", intid |-> i]]

\* The new contents of one vCPU's list registers.
vgic_inject(file, i) ==
  IF Queued(file, i) \/ FreeSlots(file) = {}
  THEN file
  ELSE [file EXCEPT ![FirstFree(file)] = [state |-> "pending", intid |-> i]]

-----------------------------------------------------------------------------
\* The virtual CPU interface.  Every list register has priority 0, so one
\* active interrupt masks all pending ones; among equals the choice is the
\* hardware's.

CanAck(file, s) ==
  /\ file[s].state = "pending"
  /\ \A t \in Slots : file[t].state # "active"

AckSlot(file, s) == [file EXCEPT ![s].state = "active"]

\* The hardware sets the state to invalid; nothing reads the rest of an
\* invalid register, so it is taken as zero.
EoiSlot(file, s) == [file EXCEPT ![s] = Empty]

-----------------------------------------------------------------------------
LrInit == lr = [v \in VCpus |-> [s \in Slots |-> Empty]]

LrInject(v, i) == lr' = [lr EXCEPT ![v] = vgic_inject(@, i)]

LrAck(v, s) ==
  /\ CanAck(lr[v], s)
  /\ lr' = [lr EXCEPT ![v] = AckSlot(@, s)]

LrEoi(v, s) ==
  /\ lr[v][s].state = "active"
  /\ lr' = [lr EXCEPT ![v] = EoiSlot(@, s)]

\* vcpu_init zeroes the whole context, the list registers included.
LrReset(v) == lr' = [lr EXCEPT ![v] = [s \in Slots |-> Empty]]

LrNext ==
  \E v \in VCpus :
    \/ LrReset(v)
    \/ \E i \in Intids : LrInject(v, i)
    \/ \E s \in Slots : LrAck(v, s) \/ LrEoi(v, s)

LrSpec == LrInit /\ [][LrNext]_lr

-----------------------------------------------------------------------------
Held(file, states) == {file[s].intid : s \in {t \in Slots : file[t].state \in states}}

(* The list registers hold register values. *)
LrTypeOK == lr \in [VCpus -> [Slots -> ListReg]]

(* Two list registers of a vCPU never hold the same INTID: the architecture
   makes that UNPREDICTABLE, and only the scan of vgic_inject prevents it. *)
NoDuplicate ==
  \A v \in VCpus : \A s, t \in Slots :
    Busy(lr[v], s) /\ Busy(lr[v], t) /\ lr[v][s].intid = lr[v][t].intid => s = t

(* Whatever is outstanding, vgic_inject loses the interrupt only when as many
   different INTIDs as there are list registers are outstanding, and it never
   disturbs another one. *)
InjectLosesOnlyWhenFull ==
  \A v \in VCpus, i \in Intids :
    LET before == Held(lr[v], {"pending", "active"})
        after  == Held(vgic_inject(lr[v], i), {"pending", "active"})
    IN  /\ after \subseteq before \union {i}
        /\ before \subseteq after
        /\ i \in after \/ Cardinality(before) = NLR

Line == INSTANCE IrqLine WITH
  Capacity <- NLR,
  pend <- [v \in VCpus |-> Held(lr[v], {"pending"})],
  act  <- [v \in VCpus |-> Held(lr[v], {"active"})]

(* The list registers implement sets of pending and active INTIDs. *)
ImplementsIrqLine == Line!Spec
=============================================================================
