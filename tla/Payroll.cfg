CONSTANTS
  Amounts = {1, 2}
  MaxChains = 2
  MaxBatches = 2
  MaxReopens = 1
SPECIFICATION PayrollSpec
INVARIANTS
  PayrollPostedOnce
  OneBatchUnderWay
  ReconciledAgrees
  StatusAgreesWithMoney
CHECK_DEADLOCK FALSE
