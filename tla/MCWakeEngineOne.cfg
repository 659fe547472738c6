CONSTANTS
  e1 = e1
  e2 = e2
  w1 = w1
  w2 = w2
  w3 = w3
  Engine = {e1}
  Wake = {w1, w2, w3}
  KindOf <- MentionTickAndTopic
  Own = {}
  TooDeep = {w3}
  WindowMax = 1
  Retries = 2
  InboxLimit = 1
  Cap = 1
  MaxSelf = 1
  HarnessOutlives = {w1}
SPECIFICATION Spec
INVARIANTS TypeOK WindowFloor OneOutcome
PROPERTIES CorrelatedWithItsOwnRun OutcomeIsFinal
