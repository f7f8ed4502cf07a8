\* Same server as MCWsHandler.cfg; checks every job field, not just the
\* ones snapshot and delta treat alike.
CONSTANTS
    Null = Null
    MachineId = MachineId
    OtherMachine = OtherMachine
    ServerStatuses <- MCServerStatuses
    Nicknames <- MCNicknames
    ServerJobs <- MCServerJobs
    SubscribeMayFail = FALSE
    MalformedFrames = FALSE
    MaxServerChanges = 3
    MaxInFlight = 2
    MaxNoise = 1
    SubscribeOrders = {"atomic"}
SPECIFICATION Spec
INVARIANT JobMirrorsSentState
