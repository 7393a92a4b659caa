SPECIFICATION Spec
CONSTANTS
  Accounts <- MCAccounts
  Holds <- MCHolds
  AcctOf <- MCAcctOf
  Pledge <- MCPledge
  Credit <- MCCredit
  Lead <- MCLead
  Days <- MCDays
  Deposit = 4
  MaxDay = 5
  MaxCrashes = 1
  Quiet = FALSE
INVARIANTS
  InForceCounts
CHECK_DEADLOCK FALSE
