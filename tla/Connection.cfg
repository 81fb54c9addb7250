\* Two connections of every kind, on every route, under reloads.
SPECIFICATION Spec
CONSTANTS
  Conns = {c1, c2}
  Clients <- MixedClients
  Routes <- AllRoutes
  InitRoute <- Plain
  Answers <- MCAnswers
  MaxConnections = 1
SYMMETRY ConnSymmetry
INVARIANTS Accounted RefusedSourceLeavesNoTrace ServedAsAllowed
CHECK_DEADLOCK FALSE
