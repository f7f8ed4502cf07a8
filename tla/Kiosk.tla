------------------------------- MODULE Kiosk -------------------------------
(***************************************************************************)
(* The OD-1 kiosk as a whole: the WebSocket handler writing g_machineState *)
(* and the UI reading it.  The device runs one cooperative loop: poll()    *)
(* runs _onMessage to completion, and ui_update(g_machineState) redraws    *)
(* between polls, so a render never sees a half-applied frame.  ui_init    *)
(* runs in setup(), before the loop, so the screen starts as ui_init       *)
(* leaves it.                                                              *)
(***************************************************************************)
EXTENDS WsHandler

VARIABLE screen    \* what the LVGL widgets show

UI == INSTANCE UiManager

kvars == <<vars, screen>>

KioskInit ==
    /\ Init
    /\ screen = UI!InitialScreen

\* ui_update(g_machineState), called from the loop.
Render ==
    /\ screen' = UI!UiUpdate(ms, screen)
    /\ UNCHANGED vars

KioskNext ==
    \/ Next /\ UNCHANGED screen
    \/ Render

\* Every loop iteration polls the socket and redraws the screen.
KioskSpec ==
    KioskInit /\ [][KioskNext]_kvars
    /\ WF_kvars(Receive /\ UNCHANGED screen)
    /\ WF_kvars(ServerSubscribe /\ UNCHANGED screen)
    /\ WF_kvars(ServerFinishSubscribe /\ UNCHANGED screen)
    /\ WF_kvars(Render)

-----------------------------------------------------------------------------

KioskTypeOK ==
    /\ TypeOK
    /\ screen \in [connText: {<<"--">>, <<"Connected">>, <<"No server">>},
                   statusText: {<<MachineStatusLabel(st)>> : st \in MachineStatus},
                   statusColor: Nat,
                   nicknameText: Seq(STRING \cup {MachineId}),
                   markIdleHidden: BOOLEAN, jobHidden: BOOLEAN,
                   jobNameText: Seq(STRING),
                   barValue: 0..100,
                   percentText: Seq(STRING),
                   remainingText: Seq(STRING)]

(***************************************************************************)
(* Once a redraw shows the link as down, the job panel is hidden: a job    *)
(* kept in g_machineState across a disconnect is never drawn as current.   *)
(***************************************************************************)
NoJobPanelOffline ==
    screen.connText = <<"No server">> => screen.jobHidden

\* What the screen should show for server state s, from the layout comment
\* of ui_manager.h and the design: the status label, the nickname or the
\* machine ID, and the job panel with the job's name while a job is printing,
\* paused or printed.
ScreenFor(s) ==
    LET st   == ParseMachineStatus(SerializeStatus(s.status))
        nick == OrEmpty(s.nickname)
        show == s.job # Null /\ st \in {"Printing", "Paused", "Printed"}
    IN  [statusText   |-> <<MachineStatusLabel(st)>>,
         nicknameText |-> IF nick = "" THEN <<MachineId>> ELSE <<nick>>,
         jobHidden    |-> ~show,
         jobNameText  |-> IF show THEN <<s.job.Name>> ELSE screen.jobNameText]

Shown == [f \in {"statusText", "nicknameText", "jobHidden", "jobNameText"} |->
             screen[f]]

(***************************************************************************)
(* While connected, the screen eventually shows the server's current       *)
(* status, nickname and job (or the connection closes): the handler        *)
(* catches up with the server and the loop redraws.                        *)
(***************************************************************************)
ScreenShowsServer ==
    ms.wsConnected ~> (~ms.wsConnected \/ Shown = ScreenFor(srv))
=============================================================================
