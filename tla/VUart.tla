-------------------------------- MODULE VUart --------------------------------
(***************************************************************************)
(* The emulated PL011 of vdev.c as far as reception goes: the interrupt    *)
(* mask, of which only RXIM matters, and the one-byte receive FIFO.  A     *)
(* byte is the number of the keystroke that produced it.                   *)
(***************************************************************************)
EXTENDS Naturals

VARIABLES
  v_imsc,     \* RXIM of the guest's interrupt mask
  v_rx,       \* the pending byte, or NoByte
  rx_read     \* history: the last byte the guest read from DR, or NoByte

uartVars == <<v_imsc, v_rx, rx_read>>

NoByte == 0   \* -1 in v_rx

VUartInit ==
  /\ v_imsc = FALSE
  /\ v_rx = NoByte
  /\ rx_read = NoByte

vuart_push_rx(c) == v_rx' = c /\ UNCHANGED <<v_imsc, rx_read>>

vuart_rx_irq_pending == v_rx # NoByte /\ v_imsc

\* A write to IMSC changes the mask, one to DR goes to the console, any other
\* is ignored.
vuart_write(off, rxim) ==
  /\ v_imsc' = IF off = "IMSC" THEN rxim ELSE v_imsc
  /\ UNCHANGED <<v_rx, rx_read>>

\* Mutant of vuart_read: reading DR leaves the byte in the FIFO.
MutReadKeepsByte(off) ==
  /\ off = "DR"
  /\ rx_read' = v_rx
  /\ UNCHANGED <<v_rx, v_imsc>>

\* Reading DR takes the byte; reading FR, IMSC, RIS, MIS or an identification
\* register changes nothing.
vuart_read(off) ==
  /\ v_rx' = IF off = "DR" THEN NoByte ELSE v_rx
  /\ rx_read' = IF off = "DR" /\ v_rx # NoByte THEN v_rx ELSE rx_read
  /\ UNCHANGED v_imsc

\* mmio_emulate with a valid syndrome; without one it only skips the
\* instruction, as "other" does here.
mmio_emulate ==
  \/ \E off \in {"IMSC", "DR", "other"}, rxim \in BOOLEAN : vuart_write(off, rxim)
  \/ \E off \in {"DR", "other"} : vuart_read(off)
=============================================================================
