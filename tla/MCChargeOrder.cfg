SPECIFICATION FairSpec
CONSTANTS
  VinParts = {"v1", "v2"}
  BillParts = {"soc", "money"}
  AmountPart = "money"
  Times = {1000}
  MaxCharges = 2
  MaxSessions = 3
  MaxMetered = 1
  MaxTimers = 2
  MaxRestarts = 1
INVARIANTS TypeOK BilledOnce NothingLost SettlementArmed AnonymousOncePerRun
PROPERTIES CreatedOnceBeforeBilled ImplementsLedger Settles
