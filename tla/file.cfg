SPECIFICATION Spec
CONSTANTS
  ByteBits = 2
  LineBreak = 1
  OtherSpace = {2}
  ElementBits = {1, 2, 3}
  NumElements = {0, 1, 2}
  References = {0, 1, 12}
  Labels = {0, 12}
  NumVariables = {0, 1, 12}
  Libraries = {TRUE, FALSE}
INVARIANTS
  RoundTripUnlessAmbiguous ValidIsReadable
CHECK_DEADLOCK FALSE
