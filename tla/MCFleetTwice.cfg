CONSTANTS
  n1 = n1
  n2 = n2
  p1 = p1
  None = None
  Node = {n1, n2}
  Placement = {p1}
  ProbeMayBeLost = FALSE
  Mortal = {}
SPECIFICATION Spec
INVARIANT ExactlyOneLaunches
