CONSTANTS
  ann = ann
  bob = bob
  hal = hal
  Unset = Unset
  Bad = Bad
  DefaultHops = 2
  DefaultMax = 2
  Persona = {ann, bob}
  Human = hal
  Offered <- MCOffered
  PerRun = 2
  MaxAsks = 1
  MaxTurns = 4
SPECIFICATION Spec
SYMMETRY Symmetry
INVARIANTS TypeOK ClaimedIsRunnable DepthHolds CycleHalts WindowHolds
PROPERTY RefusedOnlyAsDeclared
CHECK_DEADLOCK FALSE
