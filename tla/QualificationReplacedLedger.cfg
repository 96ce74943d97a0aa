SPECIFICATION Spec
CONSTANTS
  Terminals = {t1, t2}
  Labels = {a, b}
  h1 = h1 h2 = h2
  l1 = l1 l2 = l2
  None = None
  Hosts <- TheHosts
  Ledgers <- TheLedgers
  LedgerResource <- TheResource
  Reconciled <- TheLedgers
  Jobs <- TheJobs
  Configs <- TheConfigs
  MaxRuns = 2
  MaxMoves = 2
SYMMETRY Symmetry
INVARIANT ControlMeasuredOnBoundResource
CHECK_DEADLOCK FALSE
