CONSTANTS
  Account = {a1, a2}
  a1 = a1
  Cash = Cash
  Proposer = {manager, boss}
  manager = manager
  Admin = {boss}
  Nobody = Nobody
  Home <- MCHome
  BranchOf <- MCBranchOf
  Amount = {1, 2}
  Key = {k1, k2}
  DepositKey <- MCDepositKey
  PerTransferLimit = 2
  DailyLimit = 3
  MaxRequests = 2
  MaxDeposits = 2
  LastDay = 2
SPECIFICATION Spec
INVARIANT NeverOverdrawn
CHECK_DEADLOCK FALSE
