SPECIFICATION HubSpec
CONSTANTS
  keyA = keyA
  keyB = keyB
  dev = dev
  c4 = c4
  Streams = {c1, c2, c3, c4}
  Notifiers = {}
  ChanCap = 1
  MaxStreamsPerKey = 2
  KeyOf <- MCKeyOf
  EnvOf <- MCEnvOf
CHECK_DEADLOCK FALSE
INVARIANTS
  NoLeak
