SPECIFICATION Spec
CONSTANTS
  ByteBits = 2
  LineBreak = 1
  OtherSpace = {2}
  ElementBits = {1, 2, 3}
  NumElements = {1, 2}
  References = {0}
  Labels = {0}
  NumVariables = {0}
  Libraries = {FALSE}
INVARIANTS
  RoundTrip
CHECK_DEADLOCK FALSE
