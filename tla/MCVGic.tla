------------------------------- MODULE MCVGic -------------------------------
EXTENDS VGicGuests

\* Two VMs presented one frame each (M18, M19, M21).
TwoVms == {<<0, 0>>, <<1, 0>>}
=============================================================================
