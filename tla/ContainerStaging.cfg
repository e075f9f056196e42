SPECIFICATION Spec
CONSTANTS
    Hosts = {h1, h2}
    NoHost = NoHost
    NRoots = 2
    MaxAttempts = 2
    MaxFaults = 3
    MaxRevision = 1
PROPERTIES ImplementsObligation ContainerClosedIfRecoverable
CHECK_DEADLOCK FALSE
