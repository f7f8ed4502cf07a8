\* A server that reports a job whose Name is empty.
CONSTANTS
    Null = Null
    MachineId = MachineId
    OtherMachine = OtherMachine
    ServerStatuses <- MCServerStatuses
    Nicknames <- MCNicknames
    ServerJobs <- MCServerJobsUnnamed
    SubscribeMayFail = FALSE
    MalformedFrames = FALSE
    MaxServerChanges = 3
    MaxInFlight = 2
    MaxNoise = 1
    SubscribeOrders = {"atomic"}
SPECIFICATION Spec
INVARIANT MirrorsSentState
