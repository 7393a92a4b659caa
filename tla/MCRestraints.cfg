SPECIFICATION Spec
CONSTANTS
  Accounts <- MCAccounts
  Holds <- MCHolds
  AcctOf <- MCAcctOf
  Pledge <- MCPledge
  Credit <- MCCredit
  Lead <- MCLead
  Days <- MCDays
  Deposit = 4
  MaxDay = 5
  MaxCrashes = 1
  Quiet = TRUE
INVARIANTS
  TypeOK
  InForceCounts
PROPERTIES
  HoldsEnd
CHECK_DEADLOCK FALSE
