CONSTANTS
  Texts <- TextsSent
  LengthOf <- Lengths
  Usages <- ServerUsages
SPECIFICATION Spec
INVARIANT EveryRequestServed
CHECK_DEADLOCK FALSE
