----------------------------- MODULE VirtioLoops -----------------------------
(***************************************************************************)
(* The loops that run guests with a virtio console:                        *)
(*   M23  virtio_demo: one VM whose driver polls                           *)
(*   M24  virtio_irq_demo: an interrupt-driven driver; M25 and M26 have    *)
(*        the same loop for the block device                               *)
(*   M27  mtenant_virtio_demo: two VMs with a console each, one after the  *)
(*        other                                                            *)
(* Composes the console, the list registers and the exit loop, whose tail  *)
(* turns a completion into INTID 20 in M24.                                *)
(*                                                                         *)
(* The guest (external) is any polling driver in M23 and M27.  In M24 it   *)
(* is the driver of guest_virtio_irq_entry, made to go on: it notifies     *)
(* only with INTID 20 enabled and outside its handler, never polls the     *)
(* used ring, and its handler looks at the ring only when InterruptStatus  *)
(* says so.                                                                *)
(***************************************************************************)
EXTENDS VirtioConsole, ListRegs

CONSTANT MaxFirst   \* bound: buffers VM 0 queues in M27, before VM 1 runs

ASSUME VirtioLoopsAssumption == VMs = {0, 1} /\ VCpus = VMs /\ MaxFirst < BufMod

VARIABLES
  demo,      \* the loop running
  at,        \* "guest", "tail" of the loop's body after an exit, or "done"
  cur,       \* the VM running
  enabled,   \* INTID 20 enabled in the redistributor of VM 0
  hand       \* the guest: "main", or where it is in its handler

consoleVars == <<vc, ram, drv, last>>
irqvars == <<consoleVars, lr, demo, at, cur, enabled, hand>>

VIRTIO_INTID == 20

IrqInit ==
  /\ Init /\ LrInit
  /\ demo \in {"M23", "M24", "M27"}
  /\ at = "guest" /\ cur = 0 /\ enabled = FALSE /\ hand = "main"

\* A trapped access: handled by the console or the vGIC, then the tail of M24.
Exit ==
  /\ at = "guest"
  /\ at' = IF demo = "M24" THEN "tail" ELSE "guest"
  /\ UNCHANGED <<demo, cur>>

\* A step of the guest without an exit.
Inside == at = "guest" /\ UNCHANGED <<demo, at, cur, enabled>>

Polling == demo # "M24"

ConsoleNotify ==
  /\ Exit /\ hand = "main"
  /\ Polling \/ (enabled /\ vc[cur].ready)
  /\ Notify(cur)
  /\ UNCHANGED <<lr, enabled, hand>>

ConsoleSetUp ==
  /\ Exit
  /\ \E g \in GuestBlocks : SetUpQueue(cur, g)
  /\ UNCHANGED <<lr, enabled, hand>>

GicWrite(en) ==
  /\ Exit /\ ~Polling /\ hand = "main" /\ enabled # en
  /\ enabled' = en
  /\ UNCHANGED <<consoleVars, lr, hand>>

PollerAck == Exit /\ Polling /\ InterruptAck(cur) /\ UNCHANGED <<lr, enabled, hand>>

\* The handler's read of InterruptStatus and its write of InterruptACK.
HandlerStatus ==
  /\ Exit /\ hand = "status"
  /\ hand' = IF vc[cur].int_status THEN "ack" ELSE "eoi"
  /\ UNCHANGED <<consoleVars, lr, enabled>>

HandlerAck ==
  /\ Exit /\ hand = "ack"
  /\ InterruptAck(cur)
  /\ hand' = "drain"
  /\ UNCHANGED <<lr, enabled>>

\* A physical interrupt, or an access nothing is behind: mmio_zero.
OtherExit == Exit /\ UNCHANGED <<consoleVars, lr, enabled, hand>>

\* Mutant of Tail: the flag is cleared, but INTID 20 is injected only if the
\* guest has acknowledged the device's last interrupt.
MutTailStatusGate ==
  /\ at = "tail" /\ at' = "guest"
  /\ IF vc[cur].irq THEN virtio_take_irq(cur) ELSE UNCHANGED consoleVars
  /\ IF vc[cur].irq /\ enabled /\ ~vc[cur].int_status THEN LrInject(cur, VIRTIO_INTID)
     ELSE UNCHANGED lr
  /\ UNCHANGED <<demo, cur, enabled, hand>>

\* if (virtio_take_irq(0) && vgic_irq_enabled(0, 20)) vgic_inject(&vcpus[0], 20)
Tail ==
  /\ at = "tail" /\ at' = "guest"
  /\ IF vc[cur].irq THEN virtio_take_irq(cur) ELSE UNCHANGED consoleVars
  /\ IF vc[cur].irq /\ enabled THEN LrInject(cur, VIRTIO_INTID) ELSE UNCHANGED lr
  /\ UNCHANGED <<demo, cur, enabled, hand>>

\* An HVC, an unexpected exit or the end of the iteration budget.
Stop ==
  /\ at = "guest"
  /\ IF demo = "M27" /\ cur = 0
     THEN cur' = 1 /\ UNCHANGED at
     ELSE at' = "done" /\ UNCHANGED cur
  /\ UNCHANGED <<consoleVars, lr, demo, enabled, hand>>

-----------------------------------------------------------------------------
GuestQueue(d) ==
  /\ Inside
  /\ demo = "M27" /\ cur = 0 => drv[0].queued < MaxFirst
  /\ Queue(cur, d)
  /\ UNCHANGED <<lr, hand>>

GuestPolls == Inside /\ Polling /\ Reclaim(cur) /\ UNCHANGED <<lr, hand>>

GuestIrq ==
  /\ Inside /\ hand = "main"
  /\ \E s \in Slots : LrAck(cur, s)
  /\ hand' = "status"
  /\ UNCHANGED consoleVars

HandlerDrain ==
  /\ Inside /\ hand = "drain"
  /\ Reclaim(cur)
  /\ UNCHANGED <<lr, hand>>

HandlerDrained ==
  /\ Inside /\ hand = "drain"
  /\ drv[cur].last_used = ram[PA[cur]].used_idx
  /\ hand' = "eoi"
  /\ UNCHANGED <<consoleVars, lr>>

HandlerEoi ==
  /\ Inside /\ hand = "eoi"
  /\ \E s \in Slots : LrEoi(cur, s)
  /\ hand' = "main"
  /\ UNCHANGED consoleVars

IrqNext ==
  \/ ConsoleNotify \/ ConsoleSetUp \/ PollerAck \/ HandlerStatus \/ HandlerAck \/ OtherExit
  \/ Tail \/ Stop \/ GuestPolls \/ GuestIrq \/ HandlerDrain \/ HandlerDrained \/ HandlerEoi
  \/ \E en \in BOOLEAN : GicWrite(en)
  \/ \E d \in Ring : GuestQueue(d)

\* The guest takes an enabled interrupt and its handler goes on between exits;
\* the loop's body always ends.
IrqSpec ==
  /\ IrqInit /\ [][IrqNext]_irqvars
  /\ WF_irqvars(Tail)
  /\ SF_irqvars(GuestIrq) /\ SF_irqvars(HandlerStatus) /\ SF_irqvars(HandlerAck)
  /\ SF_irqvars(HandlerDrain) /\ SF_irqvars(HandlerDrained) /\ SF_irqvars(HandlerEoi)

-----------------------------------------------------------------------------
(* A completion the driver has not seen always has its interrupt on the way:
   INTID 20 is pending, or the handler has yet to look at the ring.  The flag
   virtio_take_irq clears on every exit is never dropped for this driver. *)
CompletionSignalled ==
  demo = "M24" /\ at = "guest" /\ drv[0].last_used # ram[PA[0]].used_idx =>
    \/ hand = "main" /\ VIRTIO_INTID \in Held(lr[0], {"pending"})
    \/ hand \in {"status", "ack", "drain"}

(* An interrupt-driven driver gets back every buffer the device has printed,
   unless the demo stops. *)
CompletionsSeen ==
  (demo = "M24" /\ drv[0].last_used # ram[PA[0]].used_idx) ~>
    (at = "done" \/ drv[0].last_used = ram[PA[0]].used_idx)
=============================================================================
