SPECIFICATION UploadFairSpec
CONSTANTS
  FlowNos = {"f1", "f2", ""}
  NoFlow = ""
  Silent = {}
  MaxRows = 3
INVARIANTS InOrder
PROPERTIES EveryRowSent
