SPECIFICATION FairSpec
CONSTANTS
  Buses <- MCBuses
  Piles = {"p", "q"}
  BusOf <- MCBusOf
  SocketSize = 1
  MaxFrames = 2
  MaxCommands <- MCMaxCommands
  MaxFailures = 1
INVARIANTS TypeOK OtherBusServed
PROPERTIES ImplementsLink ReadIsHandled
CHECK_DEADLOCK FALSE
