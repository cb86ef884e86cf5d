SPECIFICATION StorerSpec
CONSTANTS
  main = main
  saver = saver
  deleter = deleter
  keypair = keypair
  acc = acc
  kp1 = kp1
  kp2 = kp2
  short = short
  long = long
  None = None
  Empty = Empty
  Broken = Broken
  Threads <- MCThreads
  Keys <- MCKeys
  Values <- MCValues
  KeyPairs <- MCKeyPairs
  Size <- MCSize
  MaxSaves = 2
  MaxLoads = 1
  MaxStarts = 2
  MaxFaults = 1
INVARIANTS
  StorerTypeOK
  OneIdentity
  LoadsKnown
PROPERTY Implements
CHECK_DEADLOCK FALSE
