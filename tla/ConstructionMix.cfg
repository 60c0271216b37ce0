\* Two payments whose artifacts may be mixed, until they are too old.
SPECIFICATION Spec
CONSTANTS
  None = None
  Malformed = Malformed
  Alice = Alice
  Bob = Bob
  aliceKey = aliceKey
  bobKey = bobKey
  r1 = r1
  Requests = {r1}
  Modes = {"ONLINE"}
  Accounts = {Alice, Bob}
  Keys = {aliceKey, bobKey}
  AddressOf <- MCAddressOf
  Intents <- Payments
  Foreign <- ForeignCall
  Nid = 1
  Estimates = {1}
  Window = 0
  MaxClock = 1
  MaxPrepared = 2
  MaxSigned = 2
INVARIANTS
  CombinedAuthentic
  IdentifiersTaken
PROPERTIES
  ImplementsFlow
