---------------------------- MODULE MCWsHandler ----------------------------
(***************************************************************************)
(* Model-checking instance of WsHandler.  The jobs are chosen so that the  *)
(* server's changes cover: a job starting with all fields set, the same    *)
(* job progressing while its remaining time and sub-stage become null, a   *)
(* different job replacing it without an intervening end, and the job     *)
(* ending.  Statuses cover a single flag and a combined "Printing, Paused".*)
(***************************************************************************)
EXTENDS WsHandler

MCServerStatuses == {{"Idle"}, {"Printing"}, {"Printing", "Paused"}}

MCNicknames == {"Ender-5"}

Benchy ==
    [Name |-> "benchy.3mf", PercentageComplete |-> 10,
     RemainingTime |-> "00:30:00", TotalTime |-> "01:30:00", SubStage |-> "Heating"]
BenchyLater ==
    [Benchy EXCEPT !.PercentageComplete = 67, !.RemainingTime = Null,
                   !.SubStage = Null]
Cube ==
    [Name |-> "cube.3mf", PercentageComplete |-> Null,
     RemainingTime |-> Null, TotalTime |-> Null, SubStage |-> Null]

MCServerJobs == {Benchy, BenchyLater, Cube}

\* A job the server reports without a file name.
Unnamed == [Cube EXCEPT !.Name = ""]

MCServerJobsUnnamed == {Benchy, Unnamed}
=============================================================================
