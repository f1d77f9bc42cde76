CONSTANTS
  Width = 15
  FieldBits = 8
  Inputs <- AllInputs
SPECIFICATION Spec
INVARIANTS NoPanic DecodesTheFormat RoundTrip DecodingEnds
CHECK_DEADLOCK FALSE
