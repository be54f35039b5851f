SPECIFICATION Spec
CONSTANTS
  N = 3
  Pins <- MCPins
  BuiltIn <- MCBuiltIn
  Dsls <- MCDsls
  Flashes <- VaryingFlashes
  MaxBoots = 3
  Grace = 2
  Wrap = 32
  MaxUptime = 1
  MaxResets = 3
  MaxCuts = 1
  MaxFlashes = 1
  MaxClears = 0
CHECK_DEADLOCK FALSE
INVARIANTS PinsSound ConfigArmed
