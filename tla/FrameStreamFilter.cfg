SPECIFICATION Spec
CONSTANTS
  m = m
  f = f
  p = p
  x = x
  Main = m
  Framework <- MCFramework
  PlugIn <- MCPlugIn
  Extension <- MCExtension
  Encrypted <- MCEncrypted
  Stray = Stray
  BodyLen = 1
  Window = 2
  MaxFaults = 2
CHECK_DEADLOCK FALSE
INVARIANT SentIsDecrypted
