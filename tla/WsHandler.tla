----------------------------- MODULE WsHandler -----------------------------
(***************************************************************************)
(* The OD-1 kiosk's WebSocket handler (ws_handler.h) and the shared        *)
(* g_machineState it writes, together with the Connect3Dp server it talks  *)
(* to and the socket between them.                                         *)
(*                                                                         *)
(* Kiosk (the code):                                                       *)
(*   Connect            connect() succeeding: the ConnectionOpened event   *)
(*                      sets wsConnected and sends the subscribe request.  *)
(*   ConnectionClosed   the ConnectionClosed event.                        *)
(*   Receive...         one frame handled by _onMessage during poll(): a   *)
(*                      subscribe failure, a snapshot applied by           *)
(*                      _parseAtAGlanceState, a delta applied by           *)
(*                      _applyAtAGlanceChanges, or a frame dropped.        *)
(*                                                                         *)
(* Server (the environment, from the protocol in ws_handler.h:10-38): it   *)
(* holds the machine's AtAGlance state, answers a subscribe request with a *)
(* snapshot (or a FailureReason), and while the connection is subscribed   *)
(* sends one delta per change of that state.  The socket is a FIFO queue   *)
(* that loses whatever is in flight when the connection closes.            *)
(***************************************************************************)
EXTENDS MachineState, FiniteSets

CONSTANTS
    MachineId,          \* C3DP_MACHINE_ID, the machine this kiosk monitors
    OtherMachine,       \* a machine whose state topic the kiosk must ignore
    ServerStatuses,     \* flag sets the server's status takes
    Nicknames,          \* nicknames the server reports (besides null)
    ServerJobs,         \* print jobs the server reports (besides null)
    SubscribeMayFail,   \* the server may answer a subscribe with a failure
    MalformedFrames,    \* frames that fail deserializeJson may arrive
    MaxServerChanges,   \* bound on the number of server state changes
    MaxInFlight,        \* bound on the frames queued in the socket
    MaxNoise,           \* bound on the frames the kiosk must ignore
    SubscribeOrders     \* how the server may order registering the
                        \* subscriber and taking the snapshot

ASSUME MachineId # OtherMachine
ASSUME SubscribeMayFail \in BOOLEAN /\ MalformedFrames \in BOOLEAN
ASSUME SubscribeOrders \subseteq {"atomic", "registerFirst", "snapshotFirst"}
ASSUME MaxServerChanges \in Nat /\ MaxNoise \in Nat /\ MaxInFlight \in Nat \ {0}

VARIABLES
    ms,             \* g_machineState
    srv,            \* the server's AtAGlance state of MachineId
    subReq,         \* the subscribe request is in flight to the server
    subscribed,     \* the server sends this connection the machine's deltas
    chan,           \* frames in flight from the server to the kiosk
    applied,        \* history: the server state the last frame applied by
                    \* the kiosk in this connection was generated from
    changes,        \* number of server state changes so far
    noise,          \* number of frames sent that the kiosk must ignore
    owed            \* the server's second subscribe step still to come:
                    \* "none", "snapshot" or "register"

vars == <<ms, srv, subReq, subscribed, chan, applied, changes, noise, owed>>

-----------------------------------------------------------------------------
(* Wire values *)

ServerState ==
    [status: ServerStatuses, nickname: Nicknames \cup {Null},
     job: ServerJobs \cup {Null}]

\* JsonVariant lookup: a key that is missing, or a lookup in a null
\* variant, yields null.
Get(obj, key) == IF obj # Null /\ key \in DOMAIN obj THEN obj[key] ELSE Null

\* The topics, as the token sequences of "machine/subscribe" and
\* "machine/<id>/state"; strcmp on them is equality.
SubscribeTopic == <<"machine", "subscribe">>
StateTopic(id) == <<"machine", id, "state">>

\* A frame that deserializeJson rejects.
Unparseable == [malformed |-> TRUE]

\* Data.AtAGlanceState of the subscribe response.
AtAGlanceState(s) ==
    [Status |-> SerializeStatus(s.status), Nickname |-> s.nickname,
     Job |-> s.job]

\* Data.AtAGlanceChanges from state o to state n: a field's HasChanged flag
\* says whether it differs, its New value is the new value (null when the
\* new value is null).  CurrentJobChanges is null when the job is the same.
JobChanges(o, n) ==
    IF o = n THEN Null
    ELSE [NameHasChanged               |-> Get(o, "Name") # Get(n, "Name"),
          NameNew                      |-> Get(n, "Name"),
          PercentageCompleteHasChanged |-> Get(o, "PercentageComplete")
                                             # Get(n, "PercentageComplete"),
          PercentageCompleteNew        |-> Get(n, "PercentageComplete"),
          RemainingTimeHasChanged      |-> Get(o, "RemainingTime") # Get(n, "RemainingTime"),
          RemainingTimeNew             |-> Get(n, "RemainingTime"),
          TotalTimeHasChanged          |-> Get(o, "TotalTime") # Get(n, "TotalTime"),
          TotalTimeNew                 |-> Get(n, "TotalTime"),
          SubStageHasChanged           |-> Get(o, "SubStage") # Get(n, "SubStage"),
          SubStageNew                  |-> Get(n, "SubStage")]

AtAGlanceChanges(o, n) ==
    [StatusHasChanged   |-> o.status # n.status,
     StatusNew          |-> SerializeStatus(n.status),
     NicknameHasChanged |-> o.nickname # n.nickname,
     NicknameNew        |-> n.nickname,
     CurrentJobChanges  |-> JobChanges(o.job, n.job)]

\* Every frame carries, for the properties only, the state of MachineId it
\* was generated from (src); another machine's frame carries none.
SnapshotFrame(s) ==
    [Topic |-> SubscribeTopic, Data |-> [AtAGlanceState |-> AtAGlanceState(s)],
     src |-> s]
FailureFrame ==
    [Topic |-> SubscribeTopic, Data |-> [FailureReason |-> "NotFound"],
     src |-> Null]
DeltaFrame(id, o, n) ==
    [Topic |-> StateTopic(id), Data |-> [AtAGlanceChanges |-> AtAGlanceChanges(o, n)],
     src |-> IF id = MachineId THEN n ELSE Null]

-----------------------------------------------------------------------------
(* The reconciler: pure functions from a MachineState to a MachineState. *)

NonEmpty(p) == p # Null /\ p # ""

(***************************************************************************)
(* _parseAtAGlanceState: Status only when present; Nickname, and the whole *)
(* job when Job is an object (each field defaulting to ""/0), else no job. *)
(***************************************************************************)
ParseAtAGlanceState(st, m) ==
    LET job == Get(st, "Job")
    IN  [m EXCEPT
           !.status   = IF Get(st, "Status") # Null
                        THEN ParseMachineStatus(Get(st, "Status")) ELSE @,
           !.nickname = OrEmpty(Get(st, "Nickname")),
           !.hasJob   = job # Null,
           !.job      = IF job = Null THEN DefaultJob
                        ELSE [name               |-> OrEmpty(Get(job, "Name")),
                              percentageComplete |->
                                 IF Get(job, "PercentageComplete") = Null THEN 0
                                 ELSE Get(job, "PercentageComplete"),
                              remainingTime      |-> OrEmpty(Get(job, "RemainingTime")),
                              totalTime          |-> OrEmpty(Get(job, "TotalTime")),
                              subStage           |-> OrEmpty(Get(job, "SubStage"))]]

\* jc["<F>HasChanged"] | false
Changed(obj, f) == Get(obj, f \o "HasChanged") = TRUE

\* The percentage, remaining, total and sub-stage updates of a job that
\* exists: a null new value keeps the old one, except for SubStage.
ApplyJobFieldChanges(jc, j) ==
    LET New(f) == Get(jc, f \o "New")
    IN  [j EXCEPT
           !.percentageComplete =
               IF Changed(jc, "PercentageComplete") /\ New("PercentageComplete") # Null
               THEN New("PercentageComplete") ELSE @,
           !.remainingTime =
               IF Changed(jc, "RemainingTime") /\ New("RemainingTime") # Null
               THEN New("RemainingTime") ELSE @,
           !.totalTime =
               IF Changed(jc, "TotalTime") /\ New("TotalTime") # Null
               THEN New("TotalTime") ELSE @,
           !.subStage =
               IF Changed(jc, "SubStage") THEN OrEmpty(New("SubStage")) ELSE @]

\* A faulty variant that ends the job without resetting its fields.
ApplyJobChangesNoReset(jc, m) ==
    IF Changed(jc, "Name") /\ ~NonEmpty(Get(jc, "NameNew"))
    THEN [m EXCEPT !.hasJob = FALSE]
    ELSE LET started == IF Changed(jc, "Name")
                        THEN [m EXCEPT !.hasJob = TRUE, !.job.name = Get(jc, "NameNew")]
                        ELSE m
         IN  IF ~started.hasJob THEN started
             ELSE [started EXCEPT !.job = ApplyJobFieldChanges(jc, @)]

\* The CurrentJobChanges part: a name that changed to null or "" ends the
\* job and returns; a name that changed to a value starts or renames it;
\* without a job nothing else is applied.
ApplyJobChanges(jc, m) ==
    IF Changed(jc, "Name") /\ ~NonEmpty(Get(jc, "NameNew"))
    THEN [m EXCEPT !.hasJob = FALSE, !.job = DefaultJob]
    ELSE LET started == IF Changed(jc, "Name")
                        THEN [m EXCEPT !.hasJob = TRUE, !.job.name = Get(jc, "NameNew")]
                        ELSE m
         IN  IF ~started.hasJob THEN started
             ELSE [started EXCEPT !.job = ApplyJobFieldChanges(jc, @)]

\* A faulty variant that treats a null NicknameNew like a null StatusNew.
ApplyAtAGlanceChangesKeepNullNick(c, m) ==
    LET m1 == IF Changed(c, "Status") /\ Get(c, "StatusNew") # Null
              THEN [m EXCEPT !.status = ParseMachineStatus(Get(c, "StatusNew"))]
              ELSE m
        m2 == IF Changed(c, "Nickname") /\ Get(c, "NicknameNew") # Null
              THEN [m1 EXCEPT !.nickname = Get(c, "NicknameNew")]
              ELSE m1
        jc == Get(c, "CurrentJobChanges")
    IN  IF jc = Null THEN m2 ELSE ApplyJobChanges(jc, m2)

(***************************************************************************)
(* _applyAtAGlanceChanges: Status when changed and not null, Nickname when *)
(* changed (null becomes ""), then CurrentJobChanges when it is an object. *)
(***************************************************************************)
ApplyAtAGlanceChanges(c, m) ==
    LET m1 == IF Changed(c, "Status") /\ Get(c, "StatusNew") # Null
              THEN [m EXCEPT !.status = ParseMachineStatus(Get(c, "StatusNew"))]
              ELSE m
        m2 == IF Changed(c, "Nickname")
              THEN [m1 EXCEPT !.nickname = OrEmpty(Get(c, "NicknameNew"))]
              ELSE m1
        jc == Get(c, "CurrentJobChanges")
    IN  IF jc = Null THEN m2 ELSE ApplyJobChanges(jc, m2)

-----------------------------------------------------------------------------
(* Kiosk actions *)

Init ==
    /\ ms = DefaultMachineState
    /\ srv \in ServerState
    /\ subReq = FALSE
    /\ subscribed = FALSE
    /\ chan = <<>>
    /\ applied = Null
    /\ changes = 0
    /\ noise = 0
    /\ owed = "none"

\* A faulty variant of Connect whose ConnectionOpened handler does not send
\* the subscribe request.
ConnectNoSubscribe ==
    /\ ~ms.wsConnected
    /\ ms' = [ms EXCEPT !.wsConnected = TRUE]
    /\ subReq' = FALSE
    /\ UNCHANGED <<srv, subscribed, chan, applied, changes, noise, owed>>

\* _sendSubscribe: {"Action":"machine/subscribe","Data":{"MachineID":
\* C3DP_MACHINE_ID,"DetailOfState":"AtAGlance"}} goes to the server.
SendSubscribe == subReq' = TRUE

\* connect() succeeds (a failed connect() changes nothing); the
\* ConnectionOpened event sets wsConnected and sends the subscribe request.
Connect ==
    /\ ~ms.wsConnected
    /\ ms' = [ms EXCEPT !.wsConnected = TRUE]
    /\ SendSubscribe
    /\ UNCHANGED <<srv, subscribed, chan, applied, changes, noise, owed>>

\* A faulty variant of ConnectionClosed that leaves the status as it was.
ConnectionClosedKeepStatus ==
    /\ ms.wsConnected
    /\ ms' = [ms EXCEPT !.wsConnected = FALSE]
    /\ subReq' = FALSE
    /\ subscribed' = FALSE
    /\ chan' = <<>>
    /\ applied' = Null
    /\ owed' = "none"
    /\ UNCHANGED <<srv, changes, noise>>

\* ConnectionClosed: wsConnected off, status Disconnected; nickname and job
\* are left as they are.  Frames in flight are lost with the socket.
ConnectionClosed ==
    /\ ms.wsConnected
    /\ ms' = [ms EXCEPT !.wsConnected = FALSE, !.status = "Disconnected"]
    /\ subReq' = FALSE
    /\ subscribed' = FALSE
    /\ chan' = <<>>
    /\ applied' = Null
    /\ owed' = "none"
    /\ UNCHANGED <<srv, changes, noise>>

\* The frame at the head of the socket, consumed by _onMessage.
Frame == Head(chan)
Topic == Get(Frame, "Topic")
Data == Get(Frame, "Data")

\* A faulty variant that takes any state topic for this machine's.
ExpectedTopicMatchesAny(topic) == topic # SubscribeTopic

\* strcmp(topic, expectedTopic) == 0, expectedTopic being
\* snprintf("machine/%s/state", C3DP_MACHINE_ID); the buffer holds the
\* whole string, so the comparison is with the untruncated topic.
ExpectedTopicMatches(topic) == topic = StateTopic(MachineId)

\* A frame _onMessage returns on without changing anything: unparseable,
\* no Topic, no Data object, a subscribe response without AtAGlanceState,
\* a topic other than the two it handles, or a state frame without an
\* AtAGlanceChanges object.
Ignored ==
    \/ Frame = Unparseable
    \/ Topic = Null
    \/ Data = Null
    \/ /\ Topic = SubscribeTopic
       /\ ~NonEmpty(Get(Data, "FailureReason"))
       /\ Get(Data, "AtAGlanceState") = Null
    \/ /\ Topic # SubscribeTopic
       /\ ~ExpectedTopicMatches(Topic)
    \/ /\ Topic # SubscribeTopic
       /\ ExpectedTopicMatches(Topic)
       /\ Get(Data, "AtAGlanceChanges") = Null

ReceiveIgnored ==
    /\ chan # <<>>
    /\ Ignored
    /\ chan' = Tail(chan)
    /\ UNCHANGED <<ms, srv, subReq, subscribed, applied, changes, noise, owed>>

\* "Subscribe failed": logged, nothing applied, no new subscribe is sent.
ReceiveSubscribeFailure ==
    /\ chan # <<>>
    /\ ~Ignored
    /\ Topic = SubscribeTopic
    /\ NonEmpty(Get(Data, "FailureReason"))
    /\ chan' = Tail(chan)
    /\ UNCHANGED <<ms, srv, subReq, subscribed, applied, changes, noise, owed>>

ReceiveSnapshot ==
    /\ chan # <<>>
    /\ ~Ignored
    /\ Topic = SubscribeTopic
    /\ ~NonEmpty(Get(Data, "FailureReason"))
    /\ ms' = ParseAtAGlanceState(Get(Data, "AtAGlanceState"), ms)
    /\ applied' = Frame.src
    /\ chan' = Tail(chan)
    /\ UNCHANGED <<srv, subReq, subscribed, changes, noise, owed>>

ReceiveDelta ==
    /\ chan # <<>>
    /\ ~Ignored
    /\ Topic # SubscribeTopic
    /\ ExpectedTopicMatches(Topic)
    /\ ms' = ApplyAtAGlanceChanges(Get(Data, "AtAGlanceChanges"), ms)
    /\ applied' = Frame.src
    /\ chan' = Tail(chan)
    /\ UNCHANGED <<srv, subReq, subscribed, changes, noise, owed>>

Receive ==
    \/ ReceiveIgnored
    \/ ReceiveSubscribeFailure
    \/ ReceiveSnapshot
    \/ ReceiveDelta

-----------------------------------------------------------------------------
(* Server actions (environment) *)

(***************************************************************************)
(* The server answers the subscribe request with the current state, or,   *)
(* when it may fail, with a FailureReason.  Registering the connection for *)
(* deltas and taking the snapshot happen together ("atomic"), or as two    *)
(* steps with server changes possible in between: the subscriber is       *)
(* registered first and the snapshot sent later, or the snapshot is sent   *)
(* first and the subscriber registered later.                              *)
(***************************************************************************)
ServerSubscribe ==
    /\ subReq
    /\ Len(chan) < MaxInFlight
    /\ subReq' = FALSE
    /\ \/ \E order \in SubscribeOrders :
             /\ subscribed' = (order # "snapshotFirst")
             /\ chan' = IF order = "registerFirst" THEN chan
                        ELSE Append(chan, SnapshotFrame(srv))
             /\ owed' = CASE order = "registerFirst" -> "snapshot"
                           [] order = "snapshotFirst" -> "register"
                           [] OTHER                   -> "none"
       \/ /\ SubscribeMayFail
          /\ chan' = Append(chan, FailureFrame)
          /\ UNCHANGED <<subscribed, owed>>
    /\ UNCHANGED <<ms, srv, applied, changes, noise>>

\* The second step of a subscription answered in two steps.
ServerFinishSubscribe ==
    /\ owed # "none"
    /\ IF owed = "snapshot"
       THEN /\ Len(chan) < MaxInFlight
            /\ chan' = Append(chan, SnapshotFrame(srv))
            /\ UNCHANGED subscribed
       ELSE /\ subscribed' = TRUE
            /\ UNCHANGED chan
    /\ owed' = "none"
    /\ UNCHANGED <<ms, srv, subReq, applied, changes, noise>>

\* The machine's state changes: its status and job together, or its
\* nickname.  A subscribed connection is sent the delta.
NextServerStates(s) ==
    { [s EXCEPT !.status = f, !.job = j] :
          f \in ServerStatuses, j \in ServerJobs \cup {Null} }
    \cup { [s EXCEPT !.nickname = n] : n \in Nicknames \cup {Null} }

ServerChange ==
    /\ changes < MaxServerChanges
    /\ \E n \in NextServerStates(srv) \ {srv} :
          /\ srv' = n
          /\ IF subscribed
             THEN /\ Len(chan) < MaxInFlight
                  /\ chan' = Append(chan, DeltaFrame(MachineId, srv, n))
             ELSE UNCHANGED chan
    /\ changes' = changes + 1
    /\ UNCHANGED <<ms, subReq, subscribed, applied, noise, owed>>

\* Frames the kiosk must not apply: a delta of another machine (one that
\* would change every field) and, when they may occur, frames that fail to
\* deserialise.
ForeignDelta ==
    LET n == CHOOSE t \in ServerState :
                 t.status # srv.status /\ t.nickname # srv.nickname /\ t.job # srv.job
    IN  DeltaFrame(OtherMachine, srv, n)

NoiseFrames == {ForeignDelta} \cup (IF MalformedFrames THEN {Unparseable} ELSE {})

ServerNoise ==
    /\ ms.wsConnected
    /\ noise < MaxNoise
    /\ Len(chan) < MaxInFlight
    /\ \E f \in NoiseFrames : chan' = Append(chan, f)
    /\ noise' = noise + 1
    /\ UNCHANGED <<ms, srv, subReq, subscribed, applied, changes, owed>>

-----------------------------------------------------------------------------

Next ==
    \/ Connect
    \/ ConnectionClosed
    \/ Receive
    \/ ServerSubscribe
    \/ ServerFinishSubscribe
    \/ ServerChange
    \/ ServerNoise

\* poll() is called on every loop iteration while connected, so a queued
\* frame is eventually handled; the server answers a subscribe request and
\* completes it.
\* Connecting, closing and server changes are not forced.
Fairness ==
    /\ WF_vars(Receive)
    /\ WF_vars(ServerSubscribe)
    /\ WF_vars(ServerFinishSubscribe)

Spec == Init /\ [][Next]_vars /\ Fairness

-----------------------------------------------------------------------------
(* Properties *)

TypeOK ==
    /\ ms \in [wsConnected: BOOLEAN, status: MachineStatus, nickname: STRING,
               hasJob: BOOLEAN, job: PrintJobState]
    /\ srv \in ServerState
    /\ subReq \in BOOLEAN /\ subscribed \in BOOLEAN
    /\ Len(chan) <= MaxInFlight
    /\ applied \in ServerState \cup {Null}
    /\ changes \in 0..MaxServerChanges
    /\ noise \in 0..MaxNoise
    /\ owed \in {"none", "snapshot", "register"}

\* The MachineState a kiosk that has applied server state s should hold.
Expected(s) ==
    [status   |-> ParseMachineStatus(SerializeStatus(s.status)),
     nickname |-> OrEmpty(s.nickname),
     hasJob   |-> s.job # Null,
     job      |-> IF s.job = Null THEN DefaultJob
                  ELSE [name               |-> OrEmpty(s.job.Name),
                        percentageComplete |->
                           IF s.job.PercentageComplete = Null THEN 0
                           ELSE s.job.PercentageComplete,
                        remainingTime      |-> OrEmpty(s.job.RemainingTime),
                        totalTime          |-> OrEmpty(s.job.TotalTime),
                        subStage           |-> OrEmpty(s.job.SubStage)]]

\* The fields whose null handling is the same in a snapshot and a delta.
Core(m) ==
    [status |-> m.status, nickname |-> m.nickname, hasJob |-> m.hasJob,
     name |-> m.job.name, subStage |-> m.job.subStage]

(***************************************************************************)
(* The invariant the design states for MachineState: without a job, the    *)
(* job is the default value.  Snapshots, deltas (a job ended by an empty   *)
(* name, job fields arriving while there is no job) and disconnects must   *)
(* all keep it.                                                            *)
(***************************************************************************)
JobConsistent == ~ms.hasJob => ms.job = DefaultJob

(***************************************************************************)
(* Snapshot plus in-order deltas reconstruct the server's state: after the *)
(* kiosk applied a snapshot or delta of this connection, its status,       *)
(* nickname, job presence, job name and sub-stage are those of the server  *)
(* state that frame was generated from, never a mix of old and new.        *)
(***************************************************************************)
MirrorsSentState ==
    applied # Null => Core(ms) = Core(Expected(applied))

(***************************************************************************)
(* As MirrorsSentState, for every field of the job: no job field keeps a   *)
(* value that the server no longer reports.                                *)
(***************************************************************************)
JobMirrorsSentState ==
    applied # Null => ms.job = Expected(applied).job

(***************************************************************************)
(* Until a frame of the current connection for this machine has been      *)
(* applied (its snapshot, or with a register-first server possibly a      *)
(* delta), the status bar shows Disconnected: a status from before a      *)
(* disconnect, from another machine's topic, or from a failed             *)
(* subscription is never shown as the machine's current status.           *)
(***************************************************************************)
NoStatusBeforeSnapshot == applied = Null => ms.status = "Disconnected"

(***************************************************************************)
(* While connected, the kiosk eventually shows the server's current        *)
(* status, nickname and job (or the connection closes).                    *)
(***************************************************************************)
LiveSync ==
    ms.wsConnected ~> (~ms.wsConnected \/ Core(ms) = Core(Expected(srv)))

-----------------------------------------------------------------------------
(***************************************************************************)
(* Refinement of AtAGlanceMirror.  The mirror is the server state of the   *)
(* last frame applied on this connection; the pending states are those of *)
(* the snapshot and deltas still queued in the socket once subscribed, or *)
(* the server's current state while the subscribe request is unanswered;  *)
(* the view is the part of g_machineState whose null handling agrees in   *)
(* snapshots and deltas.                                                   *)
(***************************************************************************)
QueuedStates ==
    SelectSeq([i \in 1..Len(chan) |-> Get(chan[i], "src")], LAMBDA s : s # Null)

CoreView(s) == Core(Expected(s))

OfflineView(v) == [v EXCEPT !.status = "Disconnected"]

Mirror == INSTANCE AtAGlanceMirror
            WITH States      <- ServerState,
                 View        <- CoreView,
                 Offline     <- OfflineView,
                 InitialView <- Core(DefaultMachineState),
                 server      <- srv,
                 link        <- ms.wsConnected,
                 feed        <- ms.wsConnected /\ (subReq \/ subscribed),
                 mirror      <- applied,
                 pending     <- IF subReq THEN <<srv>>
                                ELSE IF subscribed THEN QueuedStates ELSE <<>>,
                 view        <- Core(ms)

(***************************************************************************)
(* The handler implements the mirror: every snapshot or delta it applies   *)
(* leaves it showing a state the server had, later than the one it showed  *)
(* before on this connection (no frame of an older state, a previous       *)
(* connection or another machine is taken on), a disconnect only marks it  *)
(* offline, and a state queued for it is eventually taken on while the     *)
(* link is up (poll() runs every loop iteration).                          *)
(***************************************************************************)
MirrorRefinement == Mirror!ASpec
=============================================================================
