\* One request is enough to meet the error that is not published.
SPECIFICATION Spec
CONSTANTS
  None = None
  Malformed = Malformed
  Alice = Alice
  Bob = Bob
  r1 = r1
  r2 = r2
  Requests = {r1}
  Accounts = {Alice, Bob}
  Initial <- InitialHoldings
  MaxHeight = 1
  MaxMove = 2
INVARIANTS
  ErrorsPublished
