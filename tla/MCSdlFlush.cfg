\* SCREEN_HEIGHT 320 (OD-1 config.h) and a draw buffer of 40 lines: eight
\* chunks for a full redraw. Two UI changes after ui_init. Once nothing is
\* invalid the display is idle: lv_timer_handler then changes nothing.
CONSTANTS
    ScreenHeight = 320
    BufLines = 40
    MaxChanges = 2
SPECIFICATION FlushSpec
CHECK_DEADLOCK FALSE
INVARIANT NoTornFrame
PROPERTY PresentedConverges
