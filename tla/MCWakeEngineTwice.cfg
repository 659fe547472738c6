CONSTANTS
  e1 = e1
  e2 = e2
  w1 = w1
  w2 = w2
  w3 = w3
  Engine = {e1}
  Wake = {w1}
  KindOf <- Topics
  Own = {}
  TooDeep = {}
  WindowMax = 0
  Retries = 1
  InboxLimit = 1
  Cap = 2
  MaxSelf = 1
  HarnessOutlives = {}
SPECIFICATION LiveSpec
PROPERTY RestartsAnswerNothingTwice
