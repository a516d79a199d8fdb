SPECIFICATION FairSpec
CONSTANTS
  Accounts = {"alice", "bob"}
  NoAccount = ""
  Reported = {"3"}
  Kept = {"3", "7"}
  Plain = {"2"}
  CardType = "2"
  NoType = ""
  MaxBookings = 2
  MaxAsked = 2
  MaxCreated = 1
INVARIANTS KeptHasTimer
PROPERTIES NoStranger Released
