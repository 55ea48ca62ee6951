\* A poll and a press, a device that moves between two addresses.
SPECIFICATION FairSpec
CONSTANTS
  Pollers = {p1}
  Pressers = {b1}
  Hosts = {h1, h2}
  MinInterval = 3
  None = None
INVARIANT WriteSentAtMostOnce
INVARIANT OneRelocationAtATime
INVARIANT HostIsTransports
INVARIANT MovedDeviceIsFound
PROPERTY DeviceIsFollowed
