--------------------------- MODULE MCWorldSwitch ---------------------------
EXTENDS WorldSwitch

\* A guest step overwrites all of its registers at once: any register that a
\* switch loses or mixes up shows.
AllAtOnce == {GuestRegs}
============================================================================
