CONSTANTS
  Texts <- TextsSent
  LengthOf <- Lengths
  Usages <- GoodUsages
SPECIFICATION Spec
INVARIANTS RequestsServed KeepAliveHonoured MalformedRefused ResponsesFramed
CHECK_DEADLOCK FALSE
