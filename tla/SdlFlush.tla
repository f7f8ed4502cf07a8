------------------------------ MODULE SdlFlush ------------------------------
(***************************************************************************)
(* The simulator's display path: LVGL redraws the invalidated parts of the *)
(* screen through a draw buffer of 40 lines, calling sdl_flush_cb once per *)
(* chunk; the callback copies the chunk into the SDL texture and presents  *)
(* the texture only when lv_disp_flush_is_last says the refresh is done.   *)
(*                                                                         *)
(* The screen is cut into bands of BufLines lines, one chunk each.  A      *)
(* band's content is the number of the UI change that last drew it (0 for  *)
(* ui_init); the texture starts undefined (Undefined in every band, since  *)
(* SDL_CreateTexture leaves its pixels unspecified).  ui_update and        *)
(* lv_timer_handler run on the same thread, so no UI change happens while  *)
(* a refresh is being flushed.  The ghost variable frames holds every      *)
(* state of the widgets that a refresh started from.                       *)
(***************************************************************************)
EXTENDS Integers, Sequences

CONSTANTS
    ScreenHeight,   \* SCREEN_HEIGHT (config.h)
    BufLines,       \* lines of the draw buffer
    MaxChanges      \* UI changes in a behaviour

ASSUME ScreenHeight \in Nat /\ BufLines \in Nat \ {0} /\ ScreenHeight % BufLines = 0
ASSUME MaxChanges \in Nat

Bands == 1..(ScreenHeight \div BufLines)

Undefined == -1

\* An image with no defined band: the texture as created, and the window
\* before anything is presented.
Blank == [b \in Bands |-> Undefined]

VARIABLES
    ui,             \* what the widgets would draw, per band
    dirty,          \* bands invalidated since the last refresh
    queue,          \* chunks of the current refresh still to flush
    texture,        \* the SDL texture, per band
    shown,          \* the last presented image, Blank before any
    frames,         \* ghost: widget states refreshes started from
    changes         \* UI changes so far

fvars == <<ui, dirty, queue, texture, shown, frames, changes>>

\* ui_init has drawn every widget and invalidated the whole screen.
FlushInit ==
    /\ ui = [b \in Bands |-> 0]
    /\ dirty = Bands
    /\ queue = <<>>
    /\ texture = Blank
    /\ shown = Blank
    /\ frames = {}
    /\ changes = 0

\* ui_update changes widgets, which invalidates the bands they cover: a
\* contiguous run of bands.
UiChange ==
    /\ queue = <<>>
    /\ changes < MaxChanges
    /\ \E top, bottom \in Bands :
          /\ top <= bottom
          /\ ui' = [b \in Bands |-> IF b \in top..bottom THEN changes + 1 ELSE ui[b]]
          /\ dirty' = dirty \cup (top..bottom)
    /\ changes' = changes + 1
    /\ UNCHANGED <<queue, texture, shown, frames>>

\* lv_timer_handler: the refresh timer renders the invalidated bands, top
\* to bottom.
StartRefresh ==
    /\ queue = <<>>
    /\ dirty # {}
    /\ queue' = SelectSeq([i \in Bands |-> i], LAMBDA b : b \in dirty)
    /\ dirty' = {}
    /\ frames' = frames \cup {ui}
    /\ UNCHANGED <<ui, texture, shown, changes>>

\* A faulty variant that presents after every chunk.
FlushIsLastAlways(q) == TRUE

\* A faulty variant that looks for the last chunk one too late.
FlushIsLastOnEmpty(q) == Len(q) = 0

\* lv_disp_flush_is_last: the chunk being flushed is the refresh's last.
FlushIsLast(q) == Len(q) = 1

\* LVGL renders the next chunk and calls sdl_flush_cb: SDL_UpdateTexture,
\* then SDL_RenderCopy and SDL_RenderPresent if it is the last one, then
\* lv_disp_flush_ready.
Flush ==
    /\ queue # <<>>
    /\ LET b == Head(queue)
           tex == [texture EXCEPT ![b] = ui[b]]
       IN  /\ texture' = tex
           /\ shown' = IF FlushIsLast(queue) THEN tex ELSE shown
    /\ queue' = Tail(queue)
    /\ UNCHANGED <<ui, dirty, frames, changes>>

FlushNext == UiChange \/ StartRefresh \/ Flush

\* The loop calls lv_timer_handler on every iteration, so a pending refresh
\* starts and runs to its end.
FlushSpec ==
    FlushInit /\ [][FlushNext]_fvars /\ WF_fvars(StartRefresh) /\ WF_fvars(Flush)

-----------------------------------------------------------------------------

(***************************************************************************)
(* No torn frame: whatever sdl_flush_cb presents is the whole screen as    *)
(* the widgets stood at the start of some refresh, never a mix of bands   *)
(* already redrawn and bands still waiting, or undefined texture pixels.   *)
(***************************************************************************)
NoTornFrame == shown = Blank \/ shown \in frames

(***************************************************************************)
(* Once the UI stops changing, the window settles on exactly what the      *)
(* widgets show.                                                           *)
(***************************************************************************)
PresentedConverges == <>[](shown = ui)
=============================================================================
