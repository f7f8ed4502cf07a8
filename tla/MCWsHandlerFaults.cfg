\* Subscribe failures, malformed frames, foreign topics and a job without
\* a name: the kiosk must keep its MachineState well formed and must not
\* show a status it did not receive on the current connection. The server
\* may answer a subscribe atomically, register the subscriber first, or
\* take the snapshot first.
CONSTANTS
    Null = Null
    MachineId = MachineId
    OtherMachine = OtherMachine
    ServerStatuses <- MCServerStatuses
    Nicknames <- MCNicknames
    ServerJobs <- MCServerJobsUnnamed
    SubscribeMayFail = TRUE
    MalformedFrames = TRUE
    MaxServerChanges = 3
    MaxInFlight = 2
    MaxNoise = 2
    SubscribeOrders = {"atomic", "registerFirst", "snapshotFirst"}
SPECIFICATION Spec
INVARIANTS
    TypeOK
    JobConsistent
    NoStatusBeforeSnapshot
