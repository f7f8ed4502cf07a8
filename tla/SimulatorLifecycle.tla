------------------------- MODULE SimulatorLifecycle -------------------------
(***************************************************************************)
(* The whole of the PC simulator's main(): SDL start-up, where every SDL   *)
(* call may fail, the LVGL set-up and first demo state, the demo loop of   *)
(* Simulator, and the clean-up once the window is closed.                  *)
(*                                                                         *)
(* pc is the statement main() is at.  live is the set of SDL resources the *)
(* process holds: "sdl" after a successful SDL_Init, and the window, the   *)
(* renderer and the streaming texture once created (a failed create leaves *)
(* a null pointer, which is not in live).  SDL_Quit releases everything.   *)
(* Before the loop starts, the demo-loop variables hold nothing: running   *)
(* is false and screen is Null.                                            *)
(***************************************************************************)
EXTENDS Simulator

VARIABLES
    pc,             \* the step of main() to run next
    live,           \* SDL resources the process holds
    exitCode        \* main's return value, once pc = "exited"

lifevars == <<pc, live, exitCode>>
allvars == <<pc, live, exitCode, running, now, lastSwitch, stateIdx, screen, waited>>

Resources == {"sdl", "window", "renderer", "texture"}

LifeInit ==
    /\ pc = "sdlInit" /\ live = {} /\ exitCode = 0
    /\ running = FALSE /\ now = 0 /\ lastSwitch = 0 /\ stateIdx = 0
    /\ screen = Null /\ waited = 0

\* fprintf(stderr, ...); return 1;
ReturnError == pc' = "exited" /\ exitCode' = 1

SdlInit ==
    /\ pc = "sdlInit"
    /\ \/ live' = {"sdl"} /\ pc' = "window" /\ UNCHANGED exitCode
       \/ ReturnError /\ UNCHANGED live
    /\ UNCHANGED simvars

\* A faulty variant that returns without SDL_Quit when the window fails.
CreateWindowNoQuit ==
    /\ pc = "window"
    /\ \/ live' = live \cup {"window"} /\ pc' = "renderer" /\ UNCHANGED exitCode
       \/ ReturnError /\ UNCHANGED live
    /\ UNCHANGED simvars

\* A faulty variant that goes on without a window.
CreateWindowUnchecked ==
    /\ pc = "window"
    /\ \/ live' = live \cup {"window"}
       \/ UNCHANGED live
    /\ pc' = "renderer"
    /\ UNCHANGED <<exitCode, simvars>>

\* SDL_CreateWindow; on failure SDL_Quit() and return 1.
CreateWindow ==
    /\ pc = "window"
    /\ \/ live' = live \cup {"window"} /\ pc' = "renderer" /\ UNCHANGED exitCode
       \/ ReturnError /\ live' = {}
    /\ UNCHANGED simvars

\* SDL_CreateRenderer with SDL_RENDERER_ACCELERATED | PRESENTVSYNC.
CreateRenderer ==
    /\ pc = "renderer"
    /\ \/ live' = live \cup {"renderer"} /\ pc' = "texture"
       \/ pc' = "rendererFallback" /\ UNCHANGED live
    /\ UNCHANGED <<exitCode, simvars>>

\* if (!g_renderer) g_renderer = SDL_CreateRenderer(g_window, -1, 0);
\* the result is not checked.
CreateRendererFallback ==
    /\ pc = "rendererFallback"
    /\ \/ live' = live \cup {"renderer"}
       \/ UNCHANGED live
    /\ pc' = "texture"
    /\ UNCHANGED <<exitCode, simvars>>

\* SDL_CreateTexture: fails on a null renderer, and may fail on a real one;
\* the result is not checked.
CreateTexture ==
    /\ pc = "texture"
    /\ \/ "renderer" \in live /\ live' = live \cup {"texture"}
       \/ UNCHANGED live
    /\ pc' = "lvgl"
    /\ UNCHANGED <<exitCode, simvars>>

\* lv_init and the display and input drivers, ui_init(), ui_update of the
\* first demo state, then the loop's variables: the state SimInit describes.
Launch ==
    /\ pc = "lvgl"
    /\ running' = TRUE
    /\ now' \in 1..MaxDelay /\ lastSwitch' = now'
    /\ stateIdx' = 0
    /\ screen' = UI!UiUpdate(DemoState(0), UI!InitialScreen)
    /\ waited' = 0
    /\ pc' = "loop"
    /\ UNCHANGED <<live, exitCode>>

\* One iteration of the demo loop.
Loop ==
    /\ pc = "loop"
    /\ Iterate
    /\ UNCHANGED lifevars

\* After the loop: destroy the texture, renderer and window, SDL_Quit(),
\* return 0.
Cleanup ==
    /\ pc = "loop" /\ ~running
    /\ live' = {}
    /\ pc' = "exited" /\ exitCode' = 0
    /\ UNCHANGED simvars

LifeNext ==
    \/ SdlInit \/ CreateWindow \/ CreateRenderer \/ CreateRendererFallback
    \/ CreateTexture \/ Launch \/ Loop \/ Cleanup

\* main() runs on one thread without pause until it returns.
LifeSpec == LifeInit /\ [][LifeNext]_allvars /\ WF_allvars(LifeNext)

-----------------------------------------------------------------------------

(***************************************************************************)
(* The demo loop only runs on an initialised SDL with a window: a failure  *)
(* of SDL_Init or SDL_CreateWindow ends main() before ui_init.             *)
(***************************************************************************)
LoopHasWindow == pc = "loop" => {"sdl", "window"} \subseteq live

(***************************************************************************)
(* Whichever way main() returns, the process holds no SDL resource: every *)
(* path that initialised SDL calls SDL_Quit, the error path after a failed *)
(* SDL_CreateWindow included.                                              *)
(***************************************************************************)
ReleasedOnExit == pc = "exited" => live = {}

(***************************************************************************)
(* While the demo loop runs, the window has a renderer and a streaming     *)
(* texture, so what LVGL flushes in sdl_flush_cb reaches the screen.        *)
(***************************************************************************)
LoopCanPresent == pc = "loop" => {"renderer", "texture"} \subseteq live
=============================================================================
