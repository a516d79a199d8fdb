SPECIFICATION Spec
CONSTANTS
  IdleStates = {1}
  CHARGING = 2
  CHARGED = 3
  Offline = 0
  Required = {"0812", "0813"}
  Optional = {"0817"}
  SocPart = "0813"
  MaxCharges = 2
INVARIANTS TypeOK  WholeMessage
