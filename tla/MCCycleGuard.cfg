SPECIFICATION Spec
CONSTANTS
  Threads = {t1, t2}
  Graphs <- MCGraphs
  Ram <- MCRam
  Code <- MCCode
  MaxDepth = 6
INVARIANTS
  TypeOK
  MarksAreFrames
  ChecksAll
  CyclesReported
