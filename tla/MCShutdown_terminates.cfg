CONSTANTS
    Client = {1, 2}
    PoolWorker = {w1}
    MaxEvents = 2
    NoClient = noclient
SPECIFICATION Spec
CHECK_DEADLOCK FALSE
PROPERTY ShutdownTerminates
