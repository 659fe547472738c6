CONSTANTS
  n1 = n1
  n2 = n2
  p1 = p1
  p2 = p2
  ann = ann
  None = None
  Node = {n1, n2}
  Placement = {p1}
  PersonaOf <- OneAgent
  ProbeMayBeLost = FALSE
SPECIFICATION Spec
INVARIANT AtMostOneServer
