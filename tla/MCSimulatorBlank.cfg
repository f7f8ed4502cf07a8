\* Whether the demo loop can run without a renderer or texture.
CONSTANTS
    Null = Null
    MachineId = MachineId
    TickBits = 3
    Dwell = 3
    MaxDelay = 2
SPECIFICATION LifeSpec
CHECK_DEADLOCK FALSE
INVARIANTS
    LoopCanPresent
