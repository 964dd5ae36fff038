SPECIFICATION Spec
CONSTANTS
  Calls <- MCCalls
  MaxTgts = 3
  MaxSrcs = 3
INVARIANTS
  TypeOK
  RoundTrip
  SharedIffSame
  DecoderInStep
  DecodesUnlessTooMany
  LiteralsArrive
  SizeAsLaidOut
CHECK_DEADLOCK FALSE
