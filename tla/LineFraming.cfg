\* Two threads number their frames while the answers arrive in segments.
SPECIFICATION FSpec
CONSTANTS
  Threads = {t1, t2}
  MaxSn = 2
  CR = CR
  LF = LF
  MaxNoise = 2
PROPERTY NumbersAreFresh
PROPERTY ImplementsChannel
