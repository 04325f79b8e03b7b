------------------------------ MODULE TickLoops ------------------------------
(***************************************************************************)
(* The loops that pass the ticks of the EL2 timer on to their guests:      *)
(*   M6b, M13, M17       virq_demo, vgic_demo, fermios_vgic_boot: one      *)
(*                       guest, which gets a tick when it happens          *)
(*   M18, M19, M21       mtenant_vgic_demo, mtenant_real_demo and          *)
(*                       mtenant_os_demo: two VMs                          *)
(*   M29, M30            smp_vtimer_demo, smp_gicr_demo: two vCPUs of a VM *)
(* With two of them a tick is offered to both and ends the time slice;     *)
(* each gets it when it is entered.  A guest gets a tick only if its own   *)
(* emulated GIC has the timer enabled, save in M6b, which has no GIC.  The *)
(* GIC is the register bank per VM or per frame of module GicBanks, which  *)
(* VGic implements; the frame in the address can reach the bank of the     *)
(* other VM.  "VM" below is a vCPU in M29 and M30.                         *)
(***************************************************************************)
EXTENDS ListRegs

ASSUME TenantsAssumption ==
  /\ VCpus = {0, 1}            \* one vCPU per VM
  /\ {27, 30} \subseteq Intids

VARIABLES
  demo,      \* the demo that was built
  at,        \* "top" of the loop, in the "guest", or "ended"
  cur, slot, pend,   \* the locals of the demo; only slot & 3 is used
  en,        \* en[vm]: timer INTIDs enabled in vm's redistributor
  halted,    \* the VMs whose vCPU's halted field is set
  waited     \* history: ticks since vm last had the CPU, up to WaitCap

vars == <<demo, lr, at, cur, slot, pend, en, halted, waited>>

Singles == {"M6b", "M13", "M17"}
Pairs == {"M18", "M19", "M21", "M29", "M30"}
Guests == IF demo \in Singles THEN {0} ELSE VCpus

TimerIntids == {27, 30}

WaitCap == 5   \* bound on waited, above any share

Init ==
  /\ LrInit
  /\ demo \in Singles \union Pairs
  /\ at = "top" /\ cur = 0 /\ slot = 0
  /\ pend = [vm \in VCpus |-> FALSE]
  /\ en = [vm \in VCpus |-> {}]
  /\ halted = {}
  /\ waited = [vm \in VCpus |-> 0]

-----------------------------------------------------------------------------
\* Mutant of Offered: the other VM's GIC is asked.
MutOfferedOther(vm) == en[1 - vm] \intersect {27}

\* Mutant of Offered: the PPI of the EL2 timer itself.
MutOfferedHypPpi(vm) == en[vm] \intersect {26}

\* The INTID a tick becomes, if any.
Offered(vm) ==
  CASE demo = "M6b" -> {27}
    [] demo \in {"M13", "M18", "M29", "M30"} -> en[vm] \intersect {27}
    [] demo = "M17" -> en[vm] \intersect {30}
    [] demo = "M19" -> en[vm] \intersect {IF vm = 0 THEN 30 ELSE 27}
    [] demo = "M21" -> IF 30 \in en[vm] THEN {30} ELSE en[vm] \intersect {27}

\* Mutant of KeepsTick: a tick that cannot be delivered is dropped.
MutKeepsNoTick(vm) == FALSE

\* Only M21 drops a tick the VM has not enabled.
KeepsTick(vm) == demo # "M21" /\ Offered(vm) = {}

\* The list registers with the tick offered to the current VM, if any.
Ticked ==
  IF Offered(cur) = {} THEN lr
  ELSE [lr EXCEPT ![cur] = vgic_inject(@, CHOOSE i \in Offered(cur) : TRUE)]

Enter ==
  /\ at = "top"
  /\ at' = "guest"
  /\ lr' = IF pend[cur] THEN Ticked ELSE lr
  /\ pend' = [pend EXCEPT ![cur] = @ /\ KeepsTick(cur)]
  /\ waited' = [waited EXCEPT ![cur] = 0]
  /\ UNCHANGED <<demo, cur, slot, en, halted>>

GuestAck(s) == at = "guest" /\ LrAck(cur, s) /\ UNCHANGED <<demo, at, cur, slot, pend, en, halted, waited>>

GuestEoi(s) == at = "guest" /\ LrEoi(cur, s) /\ UNCHANGED <<demo, at, cur, slot, pend, en, halted, waited>>

-----------------------------------------------------------------------------
\* Only M17 and M21 look at the halted field after a run.
HaltedNow == demo \in {"M17", "M21"} /\ cur \in halted

Resume ==
  /\ at = "guest"
  /\ ~HaltedNow
  /\ at' = "top"

\* Mutant of NextSlice: VM 1 gets two slices in a row.
MutNextSliceHalf(k) ==
  IF demo \in {"M18", "M29", "M30"} THEN 1 - cur ELSE IF k < 2 THEN 1 ELSE 0

NextSlice(k) ==
  IF demo \in {"M18", "M29", "M30"} THEN 1 - cur ELSE IF k = 0 THEN 1 ELSE 0

TimerTick ==
  /\ Resume /\ demo \in Pairs
  /\ slot' = (slot + 1) % 4
  /\ cur' = NextSlice(slot')
  /\ pend' = [vm \in VCpus |-> TRUE]
  /\ waited' = [vm \in VCpus |-> IF waited[vm] < WaitCap THEN waited[vm] + 1 ELSE WaitCap]
  /\ UNCHANGED <<demo, lr, en, halted>>

\* The only guest gets the tick at once.
TimerTickAlone ==
  /\ Resume /\ demo \in Singles
  /\ lr' = Ticked
  /\ UNCHANGED <<demo, cur, slot, pend, en, halted, waited>>

\* A vgic_mmio write to ISENABLER0 or ICENABLER0 of any frame: it reaches the
\* entry that many after the VM's own (vCPU 0's in M30), be it the other VM's.
\* One that reaches no VM's entry is a NeutralExit.
GicMmio(i) ==
  /\ Resume /\ demo # "M6b"
  /\ \E e \in VCpus :
       /\ demo # "M30" => e >= cur
       /\ \/ en' = [en EXCEPT ![e] = @ \union {i}]
          \/ en' = [en EXCEPT ![e] = @ \ {i}]
  /\ UNCHANGED <<demo, lr, cur, slot, pend, halted, waited>>

\* SYSTEM_OFF and SYSTEM_RESET of psci_handle.
PsciOff ==
  /\ Resume
  /\ demo \in {"M17", "M19", "M21"}
  /\ halted' = halted \union {cur}
  /\ UNCHANGED <<demo, lr, cur, slot, pend, en, waited>>

\* Every other exit: console, CNTP register, other PSCI call, HVC, spurious
\* interrupt.
NeutralExit == Resume /\ UNCHANGED <<demo, lr, cur, slot, pend, en, halted, waited>>

\* Mutant of HaltedExit: the halted VM is entered again and again.
MutHaltedExitResumes ==
  /\ at = "guest" /\ HaltedNow
  /\ at' = "top"
  /\ UNCHANGED <<demo, lr, cur, slot, pend, en, halted, waited>>

\* The loop is left after the halted VM has run once more.
HaltedExit ==
  /\ at = "guest" /\ HaltedNow
  /\ at' = "ended"
  /\ UNCHANGED <<demo, lr, cur, slot, pend, en, halted, waited>>

\* An unexpected exit, the tick target or the end of the iteration budget.
LoopEnds ==
  /\ at = "guest"
  /\ at' = "ended"
  /\ UNCHANGED <<demo, lr, cur, slot, pend, en, halted, waited>>

Next ==
  \/ Enter
  \/ \E s \in Slots : GuestAck(s) \/ GuestEoi(s)
  \/ TimerTick
  \/ TimerTickAlone
  \/ \E i \in TimerIntids : GicMmio(i)
  \/ PsciOff
  \/ NeutralExit
  \/ HaltedExit
  \/ LoopEnds

Spec == Init /\ [][Next]_vars

\* As for module SmpLoops: the loop goes on, and the EL2 timer keeps firing
\* and is taken whenever a guest runs.
FairSpec == Spec /\ WF_vars(Enter) /\ SF_vars(TimerTick \/ TimerTickAlone) /\ WF_vars(HaltedExit)

-----------------------------------------------------------------------------
Outstanding(vm) == Held(lr[vm], {"pending", "active"})

(* A timer interrupt appears in a VM's list registers only for a tick, of the
   moment or due since, as the VM runs, and only if it is enabled in the VM's
   own redistributor at that moment, whoever enabled it there: the other's
   redistributor is never looked at instead. *)
TickFromOwnGic ==
  [][\A vm \in VCpus : \A i \in Outstanding(vm)' \ Outstanding(vm) :
       /\ cur = vm
       /\ demo \in Pairs => at = "top" /\ pend[vm]
       /\ demo # "M6b" => i \in en[vm]]_vars

(* Where ticks are kept (M18, M19, M29, M30) one due to a VM that has its timer
   disabled stays due: the flag falls only when the timer's INTID is outstanding
   in the VM. *)
TickKept ==
  [][demo # "M21" => \A vm \in VCpus :
       pend[vm] /\ ~pend'[vm] => Outstanding(vm)' \intersect TimerIntids # {}]_vars

(* The share of the CPU: from one slice of a VM to its next there are at most
   two ticks; for VM 1 in M19 and M21, which weight the slices 3 to 1, four. *)
ShareKept ==
  demo \in Pairs =>
    waited[0] <= 2 /\ waited[1] <= IF demo \in {"M19", "M21"} THEN 4 ELSE 2

(* A VM that leaves its timer enabled from some time on gets an interrupt again
   and again, however the other VM behaves, while the loop runs. *)
TickDelivered ==
  \A vm \in VCpus :
    <>[](vm \in Guests /\ (demo = "M6b" \/ TimerIntids \subseteq en[vm])) =>
      []<>(Outstanding(vm) \intersect TimerIntids # {} \/ at = "ended")

(* In M17 and M21 a VM that powers off ends the loop, even if it was not its
   turn. *)
PowerOffEndsLoop == demo \in {"M17", "M21"} /\ halted # {} ~> at = "ended"
=============================================================================
