SPECIFICATION Spec
CONSTANTS
  Parts = {"flow", "card", "stop"}
  FlowPart = "flow"
  CardPart = "card"
  StopPart = "stop"
  PileSessions = {9}
  Numbers = {1, 2}
  NoCard = {1}
  NoStop = {9}
  NoVin = {1}
  MaxSessions = 1
  MaxVins = 2
  MaxCrashes = 2
CHECK_DEADLOCK FALSE
INVARIANTS TypeOK RecordEnteredOnce RowOfOneRecord NothingLost
