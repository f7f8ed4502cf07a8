\* A server that registers the subscriber before it takes the snapshot:
\* the delta that arrives first is applied to the state left from before.
CONSTANTS
    Null = Null
    MachineId = MachineId
    OtherMachine = OtherMachine
    ServerStatuses <- MCServerStatuses
    Nicknames <- MCNicknames
    ServerJobs <- MCServerJobs
    SubscribeMayFail = FALSE
    MalformedFrames = FALSE
    MaxServerChanges = 3
    MaxInFlight = 2
    MaxNoise = 1
    SubscribeOrders = {"registerFirst"}
SPECIFICATION Spec
INVARIANT
    MirrorsSentState
