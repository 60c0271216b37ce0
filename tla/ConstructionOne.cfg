\* Every intent, one payload, in processes of both modes.
SPECIFICATION Spec
CONSTANTS
  None = None
  Malformed = Malformed
  Alice = Alice
  Bob = Bob
  aliceKey = aliceKey
  bobKey = bobKey
  r1 = r1
  Requests = {r1}
  Modes = {"ONLINE", "OFFLINE"}
  Accounts = {Alice, Bob}
  Keys = {aliceKey, bobKey}
  AddressOf <- MCAddressOf
  Intents <- AllIntents
  Foreign <- ForeignNumbers
  Nid = 1
  Estimates = {1}
  Window = 1
  MaxClock = 2
  MaxPrepared = 1
  MaxSigned = 2
INVARIANTS
  TypeOK
  PayloadsCombine
  
  
