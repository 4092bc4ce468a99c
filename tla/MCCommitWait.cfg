SPECIFICATION MCSpec
CONSTANTS
  c1 = c1
  c2 = c2
  Clients <- MCClients
  Topics <- MCTopics
  Calls <- MCCalls
  MaxRuns = 2
  MaxFaults = 1
  MaxOthers = 1
  MaxPages = 5
  Things <- MCThings
  MaxChanges = 4
  MaxLate = 1
SYMMETRY MCSymmetry
INVARIANTS
  FollowerKeepsUp
PROPERTIES
  PostsOnlyNamed
  PostsDelivered
  VerdictTrue
