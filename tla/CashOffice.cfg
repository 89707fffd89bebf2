CONSTANTS
  c1 = c1
  p1 = p1
  d1 = d1
  Claims <- MCClaims
  Replenishments <- MCReplenishments
  Closings <- MCClosings
  Amount <- MCAmount
  Opening = 3
  BookTypes = {"EXPENSE", "TOP_UP"}
  BookAmounts = {1}
  Requests = {r1, r2}
  MaxBook = 3
  MaxChains = 2
SPECIFICATION CashSpec
INVARIANTS
  BalanceRuns
  PaidOnceUnlessRaced
PROPERTIES
  PaidIsFinal
CHECK_DEADLOCK FALSE
SYMMETRY MCSymmetry
