SPECIFICATION Spec
CONSTANTS
  c1 = c1
  c2 = c2
  Clients <- MCClients
  Wants <- MCWants
  PageSize = 1
  MaxPages = 2
  MaxInitial = 2
  MaxRuns = 3
  MaxFaults = 1
SYMMETRY MCSymmetry
INVARIANTS
  BareOnlyInDebt
  AloneLeavesWanted
  RerunUnchanged
