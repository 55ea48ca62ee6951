\* Options saved while the entry is being set up.
SPECIFICATION Spec
CONSTANTS
  Jobs = {j1}
  Clients = {c1, c2, c3}
  MaxChanges = 1
  MaxReloads = 2
  None = None
INVARIANT OptionsTakeEffect
