SPECIFICATION Spec
CONSTANTS
  VinParts = {"v1"}
  BillParts = {"soc", "money"}
  AmountPart = "money"
  Times = {1000, 2000}
  MaxCharges = 2
  MaxSessions = 3
  MaxMetered = 2
  MaxTimers = 2
  MaxRestarts = 0
INVARIANTS BillEnteredOnce
