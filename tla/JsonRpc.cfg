\* Two calls at a time, and more connections that are left open than calls.
SPECIFICATION Spec
CONSTANTS
  None = None
  c1 = c1
  c2 = c2
  Calls = {c1, c2}
  Methods <- MCMethods
  MaxUntyped = 2
INVARIANTS
  TypeOK
  
  ConnectionsAccounted
PROPERTIES
  CallsEnd
