CONSTANTS
  Boards <- MCBoards
  Family <- MCFamily
  Procs <- MCProcs
  MaxFiles <- MCMaxFiles
  MaxProbes = 3
  MaxFaults = 1
  MaxCalls = 2
SPECIFICATION Spec
INVARIANT NumbersUnique
INVARIANT NothingLeft
INVARIANT UnusedIsQuiet
CHECK_DEADLOCK FALSE
