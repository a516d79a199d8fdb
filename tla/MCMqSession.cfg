SPECIFICATION FairSpec
CONSTANTS
  Piles = {"p", "q"}
  Connectors = {"c"}
  States = {"charging"}
  Offline = "offline"
  Brokers = {"old", "new"}
  Alive = {"new"}
  Queues = {"hbEx"}
  HeartQueue = "hbEx"
  Answers = {"chargerEx"}
  LostLimit = 1
  MaxRequests <- MCMaxRequests
  MaxRejects = 1
  MaxBreaks = 1
  MaxRestarts = 1
INVARIANTS StatusResent StaleOnlyIfReplaced NobodyForgotten
PROPERTIES BackOnline ClocksSet
