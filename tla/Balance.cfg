\* Two requests against a chain that grows by up to two blocks.
SPECIFICATION Spec
CONSTANTS
  None = None
  Malformed = Malformed
  Alice = Alice
  Bob = Bob
  r1 = r1
  r2 = r2
  Requests = {r1, r2}
  Accounts = {Alice, Bob}
  Initial <- InitialHoldings
  MaxHeight = 2
  MaxMove = 2
SYMMETRY RequestSymmetry
INVARIANTS
  TypeOK
  BalanceNotOlder
  StakingInvisible
