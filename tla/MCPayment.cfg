SPECIFICATION Spec
CONSTANTS
  Accounts = {"alice", "bob"}
  NoAccount = ""
  Prepaid = {"7"}
  Postpaid = {}
  CardType = "2"
  NoType = ""
  Cards = {"c"}
  NoCard = ""
  LaterParts = {"later"}
  MaxCommands = 2
  MaxRows = 1
  MaxRefunds = 1
  MaxSpent = 1
INVARIANTS TypeOK PayerConsistent OneRequestPerRefund
PROPERTIES RefundNamed VerifiedWasShown
