\* Two commands, a metering socket and its sensors, both paths coming and going.
SPECIFICATION SFairSpec
CONSTANTS
  Presses = {b1, b2}
  Supports = TRUE
  InWildcard = {"power", "energy"}
  InGroup = {"power", "energy", "current", "voltage"}
  None = None
INVARIANT ProbedByOnePoll
INVARIANT PollingContinues
INVARIANT SensorsAreRenewed
INVARIANT ReadingsAreVouchedFor
PROPERTY AllSettles
