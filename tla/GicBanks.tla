------------------------------ MODULE GicBanks ------------------------------
(***************************************************************************)
(* What the emulated GIC promises its guests: every redistributor frame    *)
(* presented to a VM has enable and group bits of its own, every VM a      *)
(* distributor of its own.  A write to a presented frame or to the         *)
(* distributor takes effect in the bank it addresses and shows in no       *)
(* other.  The frames are not walled off: a write to a frame that was not  *)
(* presented to the VM takes effect in at most one bank, which may be one  *)
(* of another VM.                                                          *)
(***************************************************************************)
CONSTANTS
  Redists,     \* the <<vm, frame>> pairs presented
  Frames,      \* the frames a VM can address
  Privates,    \* SGI and PPI INTIDs
  Spis,        \* SPI INTIDs
  CtlrBits     \* bits of GICD_CTLR

VARIABLES
  enabled,     \* enabled[r]: SGIs and PPIs enabled in frame r
  group,       \* group[r]: SGIs and PPIs of frame r in Group 1
  spi,         \* spi[vm]: SPIs enabled in the distributor of vm
  ctlr,        \* ctlr[vm]: GICD_CTLR of vm
  req          \* the last write: its register, <<vm, frame>> and bits

vars == <<enabled, group, spi, ctlr, req>>

VMs == {r[1] : r \in Redists}

\* Where a write to frame r[2] of VM r[1] may take effect.
Banks(r) == IF r \in Redists THEN {r} ELSE Redists

Request(reg, r, S) == [reg |-> reg, at |-> r, val |-> S]

NoRequest == Request("none", <<>>, {})

Init ==
  /\ enabled = [r \in Redists |-> {}]
  /\ group = [r \in Redists |-> {}]
  /\ spi = [vm \in VMs |-> {}]
  /\ ctlr = [vm \in VMs |-> {}]
  /\ req = NoRequest

Enable(r, b, S) ==
  /\ req' = Request("GICR_ISENABLER0", r, S)
  /\ enabled' = [enabled EXCEPT ![b] = @ \union S]
  /\ UNCHANGED <<group, spi, ctlr>>

Disable(r, b, S) ==
  /\ req' = Request("GICR_ICENABLER0", r, S)
  /\ enabled' = [enabled EXCEPT ![b] = @ \ S]
  /\ UNCHANGED <<group, spi, ctlr>>

SetGroup(r, b, S) ==
  /\ req' = Request("GICR_IGROUPR0", r, S)
  /\ group' = [group EXCEPT ![b] = S]
  /\ UNCHANGED <<enabled, spi, ctlr>>

EnableSpi(r, S) ==
  /\ req' = Request("GICD_ISENABLER", r, S)
  /\ spi' = [spi EXCEPT ![r[1]] = @ \union S]
  /\ UNCHANGED <<enabled, group, ctlr>>

DisableSpi(r, S) ==
  /\ req' = Request("GICD_ICENABLER", r, S)
  /\ spi' = [spi EXCEPT ![r[1]] = @ \ S]
  /\ UNCHANGED <<enabled, group, ctlr>>

SetCtlr(r, S) ==
  /\ req' = Request("GICD_CTLR", r, S)
  /\ ctlr' = [ctlr EXCEPT ![r[1]] = S]
  /\ UNCHANGED <<enabled, group, spi>>

\* A write to any other register is ignored, one to a frame that was not
\* presented may be.
Ignore ==
  /\ req'.reg = "other" \/ req'.at \notin Redists
  /\ UNCHANGED <<enabled, group, spi, ctlr>>

Reset ==
  /\ req' = NoRequest
  /\ enabled' = [r \in Redists |-> {}]
  /\ group' = [r \in Redists |-> {}]
  /\ spi' = [vm \in VMs |-> {}]
  /\ ctlr' = [vm \in VMs |-> {}]

Next ==
  \/ Reset
  \/ Ignore
  \/ \E r \in VMs \X Frames, S \in SUBSET Privates : \E b \in Banks(r) :
       Enable(r, b, S) \/ Disable(r, b, S) \/ SetGroup(r, b, S)
  \/ \E r \in VMs \X Frames, S \in SUBSET Spis : EnableSpi(r, S) \/ DisableSpi(r, S)
  \/ \E r \in VMs \X Frames, S \in SUBSET CtlrBits : SetCtlr(r, S)

Spec == Init /\ [][Next]_vars
=============================================================================
