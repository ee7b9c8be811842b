SPECIFICATION Spec
\* fault_handler and mf_handler halt with interrupts disabled.
CHECK_DEADLOCK FALSE
CONSTANTS
  Half <- MCHalf
  KERNEL_DS = 16
  Selectors <- MCSelectors
INVARIANT HandlerGetsTheErrorCode
