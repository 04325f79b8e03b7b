-------------------------------- MODULE MCSmp --------------------------------
(* Instances of SmpLoops: the guest programs only the part of its GIC that a
   run is about, so that each run stays small. *)
EXTENDS SmpLoops

TwoFrames == {<<0, 0>>, <<0, 1>>}

TwoOnArgs == {<<1, 1>>, <<2, 2>>}

OneOnArgs == {<<1, 1>>}

\* A timer PPI in the boot vCPU's frame, which it may turn off again, and the
\* UART's SPI.
DeviceWrites ==
  {<<"GICR_ISENABLER0", 0, {30}>>, <<"GICR_ICENABLER0", 0, {30}>>,
   <<"GICD_ISENABLER", 0, {33}>>}

\* The UART's SPI.
UartWrites == {<<"GICD_ISENABLER", 0, {33}>>, <<"GICD_ICENABLER", 0, {33}>>}

\* A register that ignores the write.
NoWrites == {<<"other", 0, {}>>}
=============================================================================
