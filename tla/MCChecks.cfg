SPECIFICATION Spec
CONSTANTS
  Inputs <- MCInputs
  Keys <- MCKeys
  MaxWork = 2
INVARIANTS
  NoPassOnDisputedRow
  NothingDecidedOnNothing
  FindingsStand
  UngroundedIsProven
CHECK_DEADLOCK FALSE
