\* Two requests while the chain grows, P-Reps change and the node is stopped once.
SPECIFICATION Spec
CONSTANTS
  None = None
  p1 = p1
  p2 = p2
  r1 = r1
  r2 = r2
  Requests = {r1, r2}
  PReps = {p1, p2}
  Lists <- MCLists
  MaxHeight = 1
  MaxElections = 2
  MaxStops = 1
INVARIANTS
  TypeOK
  StatusCurrent
  PeersOfOneMoment
PROPERTIES
  StatusEnds
