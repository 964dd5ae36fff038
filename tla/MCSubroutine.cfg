SPECIFICATION Spec
CONSTANTS
  Subs = {"f", "g"}
  Scripts <- MCScripts
  sp = 3
  lr = 2
  RamWords = 19
  StackTop = 18
  StackEnd = 4
  Values = {1, 2}
  MaxDepth = 3
INVARIANTS
  TypeOK
  ReturnsToCaller
  RegistersRestored
  FramesIntact
PROPERTIES
  Finishes
CHECK_DEADLOCK FALSE
