\* Reliable server, no malformed frames: snapshot plus deltas must mirror
\* the server, and a connected kiosk must catch up with it.
CONSTANTS
    Null = Null
    MachineId = MachineId
    OtherMachine = OtherMachine
    ServerStatuses <- MCServerStatuses
    Nicknames <- MCNicknames
    ServerJobs <- MCServerJobs
    SubscribeMayFail = FALSE
    MalformedFrames = FALSE
    MaxServerChanges = 3
    MaxInFlight = 2
    MaxNoise = 1
    SubscribeOrders = {"atomic"}
SPECIFICATION Spec
INVARIANTS
    TypeOK
    JobConsistent
PROPERTIES
    MirrorRefinement
    LiveSync
