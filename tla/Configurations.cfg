\* Every environment over a few addresses and ports, and restarts with another one.
SPECIFICATION Spec
CONSTANTS
  None = None
  Malformed = Malformed
  Segments <- MCSegments
  Endpoints <- MCEndpoints
  Ports <- MCPorts
INVARIANTS
  TypeOK
  DebugEndpointsAgree
  NidsDistinct
