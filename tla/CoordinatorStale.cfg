\* A press during the refresh that another asked for.
SPECIFICATION Spec
CONSTANTS
  Presses = {b1, b2}
  Supports = TRUE
  None = None
INVARIANT ReconciledWhenQuiet
