SPECIFICATION Spec
CONSTANTS
  c1 = c1
  c2 = c2
  Clients <- MCClients
  Calls <- MCCalls
  MaxRuns = 2
  MaxFaults = 1
SYMMETRY MCSymmetry
PROPERTIES
  OnlyNamed
  LoneDelivers
  MergeRetrySafe
  ListShowsAsked
