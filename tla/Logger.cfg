\* Up to four files of two or three bytes; two interruptions.
CONSTANTS
  FileLimits = {1, 2, 4}
  SizeLimits = {2, 3}
  MaxLine = 2
  MaxBytes = 10
  MaxInterrupts = 2
SPECIFICATION Spec
INVARIANTS LogContiguous DiskBounded
CHECK_DEADLOCK FALSE
