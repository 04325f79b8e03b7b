------------------------------ MODULE SmpLoops ------------------------------
(***************************************************************************)
(* The loops that run the two vCPUs of one SMP guest:                      *)
(*   M14  smp_demo: each vCPU in turn until its next exit, no timer        *)
(*   M15  smp_sched_demo: time-sliced by the EL2 timer                     *)
(*   M22  smp_psci_demo: vCPU 1 brought up by PSCI CPU_ON                  *)
(*   M32  linux_vgic_boot: with the emulated GIC and UART, ticks and       *)
(*        keystrokes as well                                               *)
(* One demo is chosen at the start.                                        *)
(*                                                                         *)
(* The guest is arbitrary: while it runs it acknowledges and ends          *)
(* interrupts, and it leaves by any exit.  Its registers and program       *)
(* counter are the subject of module Traps, and the list registers that    *)
(* the guest works on are those saved in its vcpu_t: vcpu_run_once copies  *)
(* them in and out (module WorldSwitch).                                   *)
(***************************************************************************)
EXTENDS ListRegs, VGic, VUart

CONSTANTS
  Demos,       \* the loops, a subset of M14, M15, M22 and M32
  MaxKeys,     \* bound: keystrokes typed on the host
  OnArgs,      \* <<entry, context>> pairs the guest passes to CPU_ON
  GicWrites    \* <<register, frame, INTIDs>> the guest writes to its GIC

NoArgs == <<0, 0>>

\* vcpus[] is used for two vCPUs; the mailboxes of further ones are never read.
ASSUME SmpAssumption ==
  /\ Demos \subseteq {"M14", "M15", "M22", "M32"}
  /\ VCpus = {0, 1}
  /\ VGIC_MAX_VCPUS >= 2
  /\ MaxKeys \in Nat
  /\ Sgis \subseteq Intids
  /\ {27, 30, 33} \subseteq Intids
  /\ \A w \in GicWrites :
       /\ w[1] \in Registers
       /\ w[2] \in Frames
       /\ w[3] \subseteq BitsOf(w[1])

VARIABLES
  demo,           \* the loop running
  at,             \* "top" of the loop, in the "guest", or "ended"
  cur,            \* the vCPU of this iteration; i in M14
  ncpu,           \* vCPUs scheduled; 1 + sec_on in M22
  halted,         \* the vCPUs whose halted field is set
  psci_on_pending,
  psci_on_args,   \* <<psci_on_entry, psci_on_ctx>>
  started,        \* <<pc, x[0]>> given to vCPU 1 when it was initialised
  nkeys           \* keystrokes so far

psciVars == <<halted, psci_on_pending, psci_on_args>>
schedVars == <<demo, at, cur, ncpu, psciVars, started, nkeys>>

vars == <<lr, vgicVars, uartVars, schedVars>>

Init ==
  /\ LrInit
  /\ vg = [e \in Entries |-> ZeroState]
  /\ g_sgi_pending = [e \in Entries |-> {}]
  /\ demo \in Demos
  /\ g_ngicr = IF demo = "M32" THEN 2 ELSE 1
  /\ VUartInit
  /\ at = "top"
  /\ cur = 0
  /\ ncpu = IF demo \in {"M14", "M15"} THEN 2 ELSE 1
  /\ halted = {}
  /\ psci_on_pending = FALSE
  /\ psci_on_args = NoArgs
  /\ started = NoArgs
  /\ nkeys = 0

-----------------------------------------------------------------------------
\* The loop from its top to __guest_enter.

\* Mutant of BringUp: every CPU_ON initialises vCPU 1.
MutBringUpAgain == psci_on_pending

\* Mutant of BringUp: never.
MutBringUpNever == FALSE

BringUp == psci_on_pending /\ ncpu < 2

\* vcpu_init of vCPU 1 zeroes its list registers and its halted flag.
AfterBringUp(file) == IF BringUp THEN [file EXCEPT ![1] = [s \in Slots |-> Empty]] ELSE file

\* After vuart_push_rx a byte is pending, so vuart_rx_irq_pending is the mask.
AfterKey(file, typed) ==
  IF typed /\ v_imsc /\ vgic_spi_enabled(0, 33)
  THEN [file EXCEPT ![0] = vgic_inject(@, 33)]
  ELSE file

AfterSgi(file) ==
  IF PoppedSgi(cur) = {}
  THEN file
  ELSE [file EXCEPT ![cur] = vgic_inject(@, LowestSgi(cur))]

Enter(typed) ==
  /\ at = "top"
  /\ at' = "guest"
  /\ ncpu' = IF BringUp THEN 2 ELSE ncpu
  /\ psci_on_pending' = (psci_on_pending /\ ~BringUp)
  /\ started' = IF BringUp THEN psci_on_args ELSE started
  /\ halted' = IF BringUp THEN halted \ {1} ELSE halted
  /\ typed => demo = "M32" /\ nkeys < MaxKeys
  /\ nkeys' = IF typed THEN nkeys + 1 ELSE nkeys
  /\ IF typed THEN vuart_push_rx(nkeys + 1) ELSE UNCHANGED uartVars
  /\ vgic_pop_sgi(cur)
  /\ lr' = AfterSgi(AfterKey(AfterBringUp(lr), typed))
  /\ UNCHANGED <<demo, cur, psci_on_args>>

\* The rounds, the slices or the guard of the loop; M32 has none.
BoundReached ==
  /\ at = "top"
  /\ demo \in {"M15", "M22"} \/ (demo = "M14" /\ cur = 0)
  /\ at' = "ended"
  /\ UNCHANGED <<lr, vgicVars, uartVars, demo, cur, ncpu, psciVars, started, nkeys>>

-----------------------------------------------------------------------------
\* The guest, on its virtual CPU interface.

GuestAck(s) ==
  /\ at = "guest"
  /\ LrAck(cur, s)
  /\ UNCHANGED <<vgicVars, uartVars, schedVars>>

GuestEoi(s) ==
  /\ at = "guest"
  /\ LrEoi(cur, s)
  /\ UNCHANGED <<vgicVars, uartVars, schedVars>>

-----------------------------------------------------------------------------
\* Exits.  Each action is the rest of one iteration.

\* Mutant of HaltedExit: the loop goes on.
MutHaltedExitResumes ==
  /\ at = "guest" /\ demo = "M32"
  /\ cur \in halted
  /\ at' = "top"
  /\ UNCHANGED <<lr, vgicVars, uartVars, demo, cur, ncpu, psciVars, started, nkeys>>

\* The test right after vcpu_run_once, whatever the exit was.  M22 has none,
\* and its guest never powers off.
HaltedExit ==
  /\ at = "guest" /\ demo = "M32"
  /\ cur \in halted
  /\ at' = "ended"
  /\ UNCHANGED <<lr, vgicVars, uartVars, demo, cur, ncpu, psciVars, started, nkeys>>

\* An exit that the loop handles.
Exit ==
  /\ at = "guest"
  /\ demo = "M32" => cur \notin halted
  /\ UNCHANGED <<demo, ncpu, started, nkeys>>

\* The next iteration, with the same vCPU; M14 goes on to the other one.
Again == at' = "top" /\ cur' = IF demo = "M14" THEN 1 - cur ELSE cur

\* Mutant of TickIntid: 27 is taken as enabled when 30 is not.
MutTickUngated == IF vgic_irq_enabled(cur, 30) THEN {30} ELSE {27}

\* Nothing is enabled in the emulated GIC of M15 and M22, which have no timer
\* interrupt for the guest.
TickIntid ==
  IF vgic_irq_enabled(cur, 30) THEN {30}
  ELSE IF vgic_irq_enabled(cur, 27) THEN {27} ELSE {}

\* Mutant of TimerIrq: the vCPUs are switched before vCPU 1 is started.
MutTimerSwitchesAlways ==
  /\ Exit /\ demo # "M14"
  /\ at' = "top" /\ cur' = 1 - cur
  /\ UNCHANGED <<lr, vgicVars, uartVars, psciVars>>

\* Mutant of TimerIrq: a tick does not end the time slice.
MutTimerNoSwitch ==
  /\ Exit /\ demo # "M14"
  /\ at' = "top" /\ UNCHANGED cur
  /\ UNCHANGED <<lr, vgicVars, uartVars, psciVars>>

TimerIrq ==
  /\ Exit /\ demo # "M14"
  /\ lr' = [lr EXCEPT ![cur] = IF TickIntid = {} THEN @
                               ELSE vgic_inject(@, CHOOSE i \in TickIntid : TRUE)]
  /\ at' = "top"
  /\ cur' = IF ncpu = 2 THEN 1 - cur ELSE cur
  /\ UNCHANGED <<vgicVars, uartVars, psciVars>>

\* A physical interrupt that is not the EL2 timer's (a spurious one), the
\* sender's yield in M14, an access to an absent device (mmio_zero) and a
\* trapped CNTP register (cntp_emulate) change nothing that is modelled here.
NeutralExit ==
  /\ Exit /\ Again
  /\ UNCHANGED <<lr, vgicVars, uartVars, psciVars>>

GicMmio ==
  /\ Exit /\ Again /\ demo = "M32"
  /\ \E w \in GicWrites : reg_write(0, w[1], w[2], w[3])
  /\ UNCHANGED <<lr, g_sgi_pending, g_ngicr, uartVars, psciVars>>

UartMmio ==
  /\ Exit /\ Again /\ demo = "M32"
  /\ mmio_emulate
  /\ UNCHANGED <<lr, vgicVars, psciVars>>

\* A trapped write to ICC_SGI1R_EL1 naming SGI i, for any targets: the code
\* reads the INTID field only, and "all but self" (vgic.h:40) get it.
SgiWrite(i) ==
  /\ Exit /\ Again
  /\ vgic_post_sgi(cur, i)
  /\ UNCHANGED <<lr, uartVars, psciVars>>

psci_handle(fn, args) ==
  CASE fn \in {"SYSTEM_OFF", "SYSTEM_RESET"} ->
         /\ halted' = halted \union {cur}
         /\ UNCHANGED <<psci_on_pending, psci_on_args>>
    [] fn = "CPU_ON" ->
         /\ psci_on_args' = args
         /\ psci_on_pending' = TRUE
         /\ UNCHANGED halted
    [] OTHER -> UNCHANGED psciVars

PsciCall ==
  /\ Exit /\ Again /\ demo \in {"M22", "M32"}
  /\ \E fn \in {"VERSION", "SYSTEM_OFF", "SYSTEM_RESET", "CPU_ON", "unknown"},
        args \in OnArgs : psci_handle(fn, args)
  /\ UNCHANGED <<lr, vgicVars, uartVars>>

\* The hypercall that reports the SGI (M14's from vCPU 1, M22's), or an exit
\* the loop has no case for.
LastExit ==
  /\ Exit
  /\ at' = "ended"
  /\ UNCHANGED <<lr, vgicVars, uartVars, cur, psciVars>>

Next ==
  \/ \E typed \in BOOLEAN : Enter(typed)
  \/ \E s \in Slots : GuestAck(s) \/ GuestEoi(s)
  \/ BoundReached
  \/ HaltedExit
  \/ TimerIrq
  \/ NeutralExit
  \/ GicMmio
  \/ UartMmio
  \/ \E i \in Sgis : SgiWrite(i)
  \/ PsciCall
  \/ LastExit

Spec == Init /\ [][Next]_vars

\* The loop goes on unless it ends.  The EL2 timer fires again and again while
\* it is enabled (hyptimer_on_irq moves the deadline on) and, with HCR_EL2.IMO
\* set, a pending physical interrupt is taken whenever the guest runs: a guest
\* that keeps trapping for other reasons cannot put it off for ever.
Fairness ==
  /\ WF_vars(\E typed \in BOOLEAN : Enter(typed))
  /\ SF_vars(TimerIrq)
  /\ WF_vars(HaltedExit)

FairSpec == Spec /\ Fairness

-----------------------------------------------------------------------------
Outstanding(c) == Held(lr[c], {"pending", "active"})

(* vCPU 1 is scheduled, or given an interrupt, only once a CPU_ON has had it
   initialised: the loop never enters the zeroed, or left-over, vcpus[1]. *)
OnlyStartedRuns ==
  ncpu = 1 => cur = 0 /\ started = NoArgs /\ Outstanding(1) = {}

(* A repeated CPU_ON leaves the running vCPU 1 alone: it is not initialised a
   second time and keeps its outstanding interrupts. *)
SecondaryNotRestarted ==
  [][ncpu = 2 =>
       /\ ncpu' = 2
       /\ started' = started
       /\ at = "top" => Outstanding(1) \subseteq Outstanding(1)']_vars

(* A timer tick or UART interrupt shows up in a vCPU only while the guest has
   it enabled in the emulated GIC, the UART's only with RXIM set and a byte
   waiting, and then only in vCPU 0. *)
DeviceIrqsGated ==
  [][\A c \in VCpus, i \in {27, 30, 33} :
       i \notin Outstanding(c) /\ i \in Outstanding(c)' =>
         IF i = 33
         THEN c = 0 /\ vgic_spi_enabled(0, 33) /\ vuart_rx_irq_pending'
         ELSE vgic_irq_enabled(c, i)]_vars

(* An SGI is carried from its sender to the other vCPU and nowhere else, and
   arrives once: it gets into a mailbox only by a write of the other vCPU, it
   becomes pending in a list register only as it leaves the mailbox of that
   vCPU, and when it leaves the mailbox it is outstanding, unless all list
   registers hold other interrupts. *)
SgiCarriedOnce ==
  [][\A c \in VCpus, i \in Sgis :
       LET InBox == i \in g_sgi_pending[c]
           Waits == i \in Held(lr[c], {"pending"})
       IN  /\ ~InBox /\ InBox' => at = "guest" /\ cur # c
           /\ ~Waits /\ Waits' => InBox /\ ~InBox'
           /\ InBox /\ ~InBox' =>
                i \in Outstanding(c)' \/ Cardinality(Outstanding(c)') = NLR]_vars

(* The byte waiting in the receive FIFO has never been read: the guest reads a
   keystroke at most once, and in the order they were typed. *)
RxNotRepeated == v_rx # NoByte => rx_read < v_rx

(* The first CPU_ON gets vCPU 1 to run, unless the run ends before. *)
CpuOnStartsSecondary ==
  (psci_on_pending /\ ncpu = 1) ~> ((at = "guest" /\ cur = 1) \/ at = "ended")

(* Once both vCPUs are up, neither is starved by the other's exits. *)
BothRun ==
  \A c \in VCpus : (ncpu = 2) ~> ((at = "guest" /\ cur = c) \/ at = "ended")

(* In M32 SYSTEM_OFF and SYSTEM_RESET end the run. *)
OffEndsRun == (demo = "M32" /\ halted # {}) ~> (at = "ended")

(* An entry of a vCPU takes one SGI, the lowest: an SGI can wait for ever only behind
   lower ones that keep coming.  If from some time on none below i is posted to a
   vCPU that is up, SGI i leaves its mailbox, however often it and those above it
   are sent again. *)
SgisDrain ==
  \A c \in VCpus, i \in Sgis :
    <>[][\A l \in Sgis : l < i /\ l \notin g_sgi_pending[c] => l \notin g_sgi_pending'[c]]_vars =>
      (c < ncpu /\ i \in g_sgi_pending[c]) ~> (i \notin g_sgi_pending[c] \/ at = "ended")

-----------------------------------------------------------------------------
\* What the repository says of the program and the code does not do.

(* PROJECT.md:224, "the UART RX IRQ is delivered to Linux as a virtual SPI":
   while the emulated UART asserts its interrupt and the guest has SPI 33
   enabled, vCPU 0 runs with it outstanding. *)
RxIrqDelivered ==
  at = "guest" /\ vuart_rx_irq_pending /\ vgic_spi_enabled(0, 33) =>
    33 \in Outstanding(0)
=============================================================================
