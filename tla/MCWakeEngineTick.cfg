CONSTANTS
  e1 = e1
  e2 = e2
  w1 = w1
  w2 = w2
  w3 = w3
  Engine = {e1}
  Wake = {w1, w2}
  KindOf <- Ticks
  Own = {}
  TooDeep = {}
  WindowMax = 1
  Retries = 1
  InboxLimit = 1
  Cap = 2
  MaxSelf = 0
  HarnessOutlives = {}
SPECIFICATION FaultlessSpec
PROPERTY RefusalIsADelay
