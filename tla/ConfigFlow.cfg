\* Two flows, two devices that move and are re-paired.
SPECIFICATION FairSpec
CONSTANTS
  Flows = {f1, f2}
  Devices = {d1, d2}
  Addresses = {a1, a2}
  Restless = {d1}
  MaxKey = 2
  None = None
INVARIANT AddedOnce
INVARIANT NeverRepointed
PROPERTY KeysAreFetched
PROPERTY AddressIsTheDevices
PROPERTY FlowsAnswer
