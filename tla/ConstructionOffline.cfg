\* One request, in a process of either mode, is enough to call the node offline.
SPECIFICATION Spec
CONSTANTS
  None = None
  Malformed = Malformed
  Alice = Alice
  Bob = Bob
  aliceKey = aliceKey
  bobKey = bobKey
  r1 = r1
  Requests = {r1}
  Modes = {"ONLINE", "OFFLINE"}
  Accounts = {Alice, Bob}
  Keys = {aliceKey, bobKey}
  AddressOf <- MCAddressOf
  Intents <- AllIntents
  Foreign <- ForeignCall
  Nid = 1
  Estimates = {1}
  Window = 1
  MaxClock = 0
  MaxPrepared = 1
  MaxSigned = 0
INVARIANTS
  OfflineCallsNoNode
