\* Two vCPUs; the virtual timer's compare value is not switched.
CONSTANTS
  Contexts = {0, 1}
  Val = {0, 1}
  Unmanaged = {"cntv_cval_el0"}
  HvWritten = {"pc", "ich_lr"}
  GuestSets <- AllAtOnce
SPECIFICATION WsSpec
INVARIANTS GuestSeesOwnRegisters ContextComplete ReturnsToCaller
