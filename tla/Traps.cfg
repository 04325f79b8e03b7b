\* Every loop; run_vcpus with a budget of two hypercalls.
CONSTANTS
  VCpus = {0, 1}
  MaxInstrs = 2
  Budget = 2
SPECIFICATION Spec
INVARIANTS NeverTrapsTwice ActiveIsRunning BudgetSpent
PROPERTY ImplementsGuestMachine
CHECK_DEADLOCK FALSE
