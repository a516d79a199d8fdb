SPECIFICATION ReportSpec
CONSTANTS
  VinParts = {"v1"}
  BillParts = {"money"}
  AmountPart = "money"
  Times = {1000, 2000}
  MaxCharges = 2
  MaxSessions = 2
  MaxMetered = 0
  MaxTimers = 2
  MaxRestarts = 1
  MaxRemotes = 1
INVARIANTS CreateMatchesRow
PROPERTIES UsesTable
