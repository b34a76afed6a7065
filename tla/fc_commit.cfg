CONSTANTS
  Procs = {p, q}
  NoProc = NoProc
  Payloads = {a, b}
  NoPayload = NoPayload
  MaxCommits = 3
  MaxFaults = 2
  MaxDeletes = 1
SYMMETRY ProcPayloadSymmetry
SPECIFICATION Spec
INVARIANTS
  AnsweredVersionsStand
  NoOrphanForgotten
PROPERTY ImplementsVersionLog
