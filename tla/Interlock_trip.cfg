SPECIFICATION Spec
CONSTANTS
  N = 3
  Pins <- MCPins
  BuiltIn <- MCBuiltIn
  Dsls <- MCDsls
  Flashes <- FixedFlash
  MaxBoots = 3
  Grace = 2
  Wrap = 32
  MaxUptime = 6
  MaxResets = 3
  MaxCuts = 1
  MaxFlashes = 0
  MaxClears = 2
INVARIANTS TripHeld TripsOutsideGrace VetoIsUnion
CHECK_DEADLOCK FALSE
