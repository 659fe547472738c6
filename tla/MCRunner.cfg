CONSTANT Backend = {"native", "msb", "k8s"}
SPECIFICATION Spec
CHECK_DEADLOCK FALSE
INVARIANTS TypeOK ClosedMeansReaped OutcomeIsTrue RunningIsSupervised
PROPERTIES ImplementsLifecycle EndIsRecorded
