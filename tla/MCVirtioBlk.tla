----------------------------- MODULE MCVirtioBlk -----------------------------
EXTENDS VirtioBlk

\* VM 1 of M28, at VM1_PA.
SecondTenant == [vm \in {1} |-> 2]
==============================================================================
