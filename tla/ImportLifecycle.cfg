SPECIFICATION Spec
CONSTANTS
  Imports = {i1}
  Workers = {w1, w2}
  Decisions = {d1, d2}
  Exports = {"full0", "inc1", "full2"}
  Base <- MCBase
  First = "full0"
  Steps = {1, 2, 3}
  Loose = {2}
  MaxFaults = 2
INVARIANTS TypeOK DoneIsStaged ChainAsTold
PROPERTIES Resumes
CHECK_DEADLOCK FALSE
