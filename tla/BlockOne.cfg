SPECIFICATION FairSpec
CONSTANTS
  None = None
  Treasury = Treasury
  SystemScore = SystemScore
  Alice = Alice
  Bob = Bob
  r1 = r1
  r2 = r2
  Address = {Treasury, SystemScore, Alice, Bob}
  Requests = {r1}
  Bodies <- AllBodies
  GenesisAccounts <- Accounts3
  MaxHeight = 2
  MaxPosition = 3
INVARIANTS
  TypeOK
  AnswersOneBlock
  SupplyAccounted
PROPERTIES
  
  EveryRequestEnds
