\* A server that may refuse the subscription.
CONSTANTS
    Null = Null
    MachineId = MachineId
    OtherMachine = OtherMachine
    ServerStatuses <- MCServerStatuses
    Nicknames <- MCNicknames
    ServerJobs <- MCServerJobs
    SubscribeMayFail = TRUE
    MalformedFrames = FALSE
    MaxServerChanges = 1
    MaxInFlight = 2
    MaxNoise = 0
    SubscribeOrders = {"atomic"}
SPECIFICATION Spec
PROPERTY LiveSync
