SPECIFICATION Spec
CONSTANTS
  N = 3
  Pins <- MCPins
  BuiltIn <- MCBuiltIn
  Dsls <- MCDsls
  Flashes <- FixedFlash
  MaxBoots = 3
  Grace = 2
  Wrap = 16
  MaxUptime = 16
  MaxResets = 0
  MaxCuts = 0
  MaxFlashes = 0
  MaxClears = 0
INVARIANT TripsOutsideGrace
CHECK_DEADLOCK FALSE
