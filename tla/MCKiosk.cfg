\* The handler and the screen together. The server registers the subscriber
\* before it takes the snapshot, so a delta may reach the kiosk before the
\* snapshot: the kiosk must still end up showing the server's state.
CONSTANTS
    Null = Null
    MachineId = MachineId
    OtherMachine = OtherMachine
    ServerStatuses <- MCServerStatuses
    Nicknames <- MCNicknames
    ServerJobs <- MCServerJobs
    SubscribeMayFail = FALSE
    MalformedFrames = FALSE
    MaxServerChanges = 2
    MaxInFlight = 2
    MaxNoise = 0
    SubscribeOrders = {"registerFirst"}
SPECIFICATION KioskSpec
INVARIANTS
    KioskTypeOK
    NoJobPanelOffline
    JobConsistent
PROPERTIES
    ScreenShowsServer
