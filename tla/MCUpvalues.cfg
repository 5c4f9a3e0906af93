\* Up to 3 upvalues and stacks of up to 2 slots: deferred indices 0..2, so
\* some resolves are in range and some panic, after any mix of pushes.
CONSTANTS
  Vals <- MCVals
  MaxUpvalues = 3
  MaxStack = 2
SPECIFICATION Spec
INVARIANTS NoDeferredAfterResolve SlotsMatchCapture PanicLeavesPrefixResolved
PROPERTIES PlainSlotsStable ImplementsSlots
\* A panic in resolve_deferred_upvalues ends the evaluation.
CHECK_DEADLOCK FALSE
