\* main() with every SDL call allowed to fail, and its demo loop with a 3-bit
\* tick counter: a dwell of 3 ticks and loop iterations of 1 or 2 ticks, so
\* switches happen across the wrap. main() returns, so the model may stop.
CONSTANTS
    Null = Null
    MachineId = MachineId
    TickBits = 3
    Dwell = 3
    MaxDelay = 2
SPECIFICATION LifeSpec
CHECK_DEADLOCK FALSE
INVARIANTS
    SimTypeOK
    LoopHasWindow
    ReleasedOnExit
PROPERTIES
    SwitchesWhenDue
    DemoCycles
