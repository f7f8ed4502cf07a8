----------------------------- MODULE UiManager -----------------------------
(***************************************************************************)
(* The LVGL screen of the OD-1 kiosk (ui_manager.h), reduced to what the   *)
(* widgets show: a record with one field per widget property that          *)
(* ui_init and ui_update set.  Layout, fonts and styles other than the     *)
(* status-bar colour are left out.  A label's text is a sequence of the    *)
(* pieces it is built from (so "Remaining: " + t + "  /  " + u is          *)
(* <<"Remaining: ", t, "  /  ", u>>); an empty text is <<>>.               *)
(***************************************************************************)
EXTENDS MachineState

CONSTANT MachineId   \* C3DP_MACHINE_ID, the nickname fallback

\* _statusColor: the status bar's background colour.
StatusColor(st) ==
    CASE st = "Idle"       -> 2576992    \* 0x27AE60 green
      [] st = "Printing"   -> 2719929    \* 0x2980B9 blue
      [] st = "Paused"     -> 15965202   \* 0xF39C12 orange
      [] st = "Printed"    -> 9323693    \* 0x8E44AD purple
      [] st = "Canceled"   -> 15158332   \* 0xE74C3C red
      [] st = "Connecting" -> 9807270    \* 0x95A5A6 grey
      [] OTHER             -> 5592405    \* 0x555555 dark grey

Text(s) == IF s = "" THEN <<>> ELSE <<s>>

\* lv_bar_set_value on a bar whose range is 0..100 (LVGL clamps the value).
BarValue(v) == IF v < 0 THEN 0 ELSE IF v > 100 THEN 100 ELSE v

(***************************************************************************)
(* snprintf(pctBuf, sizeof(pctBuf), "%d%%", v) with char pctBuf[8]: the    *)
(* decimal digits of v (a '-' first when negative) and '%', cut to the 7   *)
(* characters that fit before the terminating NUL.  A text is a sequence   *)
(* of one-character strings.                                               *)
(***************************************************************************)
DigitChar == <<"0", "1", "2", "3", "4", "5", "6", "7", "8", "9">>

RECURSIVE Digits(_)
Digits(n) ==
    IF n < 10 THEN <<DigitChar[n + 1]>>
    ELSE Digits(n \div 10) \o <<DigitChar[(n % 10) + 1]>>

\* %d
DecimalText(v) == IF v < 0 THEN <<"-">> \o Digits(-v) ELSE Digits(v)

\* The characters snprintf stores in a buffer of size n.
Truncate(s, n) == IF Len(s) < n THEN s ELSE SubSeq(s, 1, n - 1)

PctBufSize == 8

PercentText(v) == Truncate(DecimalText(v) \o <<"%">>, PctBufSize)

(***************************************************************************)
(* ui_update_dev_stats: snprintf(buf, 40, "Heap: %uK/%uK  Loop: %ums",      *)
(* freeHeap / 1024, totalHeap / 1024, loopMs), the uint32_t arguments     *)
(* printed unsigned.  The fixed parts are written out character by         *)
(* character because their lengths decide where the text is cut.           *)
(***************************************************************************)
HeapLabel == <<"H", "e", "a", "p", ":", " ">>
KSlash == <<"K", "/">>
LoopLabel == <<"K", " ", " ", "L", "o", "o", "p", ":", " ">>
MsLabel == <<"m", "s">>

\* A faulty variant with a buffer sized for the usual values only.
DevStatsBufSizeSmall == 32

DevStatsBufSize == 40

DevStatsText(freeHeap, totalHeap, loopMs) ==
    Truncate(HeapLabel \o Digits(freeHeap \div 1024) \o KSlash
               \o Digits(totalHeap \div 1024) \o LoopLabel
               \o Digits(loopMs) \o MsLabel,
             DevStatsBufSize)

\* The widgets ui_init creates, with their initial contents.
InitialScreen ==
    [connText       |-> <<"--">>,
     statusText     |-> <<"Disconnected">>,
     statusColor    |-> StatusColor("Disconnected"),
     nicknameText   |-> <<MachineId>>,
     markIdleHidden |-> TRUE,
     jobHidden      |-> TRUE,
     jobNameText    |-> <<>>,
     barValue       |-> 0,
     percentText    |-> PercentText(0),
     remainingText  |-> <<>>]

\* The job panel's contents, set only when the panel is shown.
JobWidgets(job) ==
    [jobNameText   |-> Text(job.name),
     barValue      |-> BarValue(job.percentageComplete),
     percentText   |-> PercentText(job.percentageComplete),
     remainingText |->
        IF job.remainingTime = "" THEN <<>>
        ELSE <<"Remaining: ", job.remainingTime>>
             \o (IF job.totalTime = "" THEN <<>> ELSE <<"  /  ", job.totalTime>>)]

ShowMarkIdle(m) == m.status \in {"Printed", "Canceled"}

ShowJob(m) == m.hasJob /\ m.status \in {"Printing", "Paused", "Printed"}

\* A faulty variant that shows the nickname without the machine-ID fallback.
UiUpdateNoFallback(m, scr) ==
    LET top == [scr EXCEPT
                  !.connText       = IF m.wsConnected THEN <<"Connected">>
                                     ELSE <<"No server">>,
                  !.statusText     = <<MachineStatusLabel(m.status)>>,
                  !.statusColor    = StatusColor(m.status),
                  !.nicknameText   = Text(m.nickname),
                  !.markIdleHidden = ~ShowMarkIdle(m),
                  !.jobHidden      = ~ShowJob(m)]
    IN  IF ShowJob(m) THEN JobWidgets(m.job) @@ top ELSE top

(***************************************************************************)
(* ui_update(ms): the connection indicator, status label and colour,       *)
(* nickname (the machine ID when empty), the Mark-as-Idle button (shown    *)
(* only for Printed or Canceled), and the job panel (shown only with a job *)
(* while Printing, Paused or Printed; its labels are rewritten only then). *)
(***************************************************************************)
UiUpdate(m, scr) ==
    LET top == [scr EXCEPT
                  !.connText       = IF m.wsConnected THEN <<"Connected">>
                                     ELSE <<"No server">>,
                  !.statusText     = <<MachineStatusLabel(m.status)>>,
                  !.statusColor    = StatusColor(m.status),
                  !.nicknameText   = IF m.nickname # "" THEN <<m.nickname>>
                                     ELSE <<MachineId>>,
                  !.markIdleHidden = ~ShowMarkIdle(m),
                  !.jobHidden      = ~ShowJob(m)]
    IN  IF ShowJob(m) THEN JobWidgets(m.job) @@ top ELSE top
=============================================================================
