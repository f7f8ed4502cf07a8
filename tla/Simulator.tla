----------------------------- MODULE Simulator -----------------------------
(***************************************************************************)
(* The PC simulator (simulator/main.cpp): after ui_init it shows the first *)
(* demo state, then its main loop handles SDL events (a window close or    *)
(* Escape ends the loop), advances to the next demo state once            *)
(* STATE_DWELL_MS have passed since the last switch, and sleeps.           *)
(*                                                                         *)
(* Time.  SDL_GetTicks() is a uint32_t millisecond counter that wraps; the *)
(* model keeps the wrap and scales the width down: the clock counts modulo *)
(* 2^TickBits, the dwell is Dwell ticks and one loop iteration takes       *)
(* between 1 and MaxDelay ticks (lv_timer_handler plus SDL_Delay(5)).      *)
(* The ghost variable waited is the real time since the last switch, which *)
(* the code never sees; it saturates at 2^TickBits.                        *)
(***************************************************************************)
EXTENDS MachineState, Naturals

CONSTANTS
    MachineId,      \* C3DP_MACHINE_ID (config.h)
    TickBits,       \* width of the tick counter (32 in the code)
    Dwell,          \* STATE_DWELL_MS in ticks
    MaxDelay        \* longest loop iteration in ticks

TickMod == 2 ^ TickBits

ASSUME TickBits \in Nat \ {0} /\ Dwell \in Nat \ {0} /\ MaxDelay \in Nat \ {0}
ASSUME Dwell + MaxDelay < TickMod

VARIABLES
    running,        \* the main loop's running flag
    now,            \* SDL_GetTicks() at the next read
    lastSwitch,     \* tick of the last switch
    stateIdx,       \* index of the demo state shown
    screen,         \* what the LVGL widgets show
    waited          \* ghost: real ticks since the last switch

simvars == <<running, now, lastSwitch, stateIdx, screen, waited>>

UI == INSTANCE UiManager

Job(name, pct, rem, tot) ==
    [name |-> name, percentageComplete |-> pct, remainingTime |-> rem,
     totalTime |-> tot, subStage |-> ""]

Demo(conn, st, nick, hasJob, job) ==
    [wsConnected |-> conn, status |-> st, nickname |-> nick,
     hasJob |-> hasJob, job |-> job]

\* demo_states[], in order.
DemoStates ==
    << Demo(FALSE, "Disconnected", "",           FALSE, DefaultJob),
       Demo(FALSE, "Connecting",   "My Printer", FALSE, DefaultJob),
       Demo(TRUE,  "Idle",         "My Printer", FALSE, DefaultJob),
       Demo(TRUE,  "Printing",     "My Printer", TRUE,
            Job("benchy.3mf", 45, "00:45:00", "01:30:00")),
       Demo(TRUE,  "Paused",       "My Printer", TRUE,
            Job("benchy.3mf", 32, "01:01:00", "01:30:00")),
       Demo(TRUE,  "Printed",      "My Printer", TRUE,
            Job("benchy.3mf", 100, "00:00:00", "01:30:00")),
       Demo(TRUE,  "Canceled",     "My Printer", FALSE, DefaultJob) >>

DEMO_STATE_COUNT == Len(DemoStates)

\* demo_states[i], indexed from 0 as in C.
DemoState(i) == DemoStates[i + 1]

\* ui_init(); ui_update(demo_states[0]); stateIdx = 0; lastSwitch = SDL_GetTicks().
SimInit ==
    /\ running = TRUE
    /\ now \in 1..MaxDelay
    /\ lastSwitch = now
    /\ stateIdx = 0
    /\ screen = UI!UiUpdate(DemoState(0), UI!InitialScreen)
    /\ waited = 0

\* A faulty variant that compares ticks as if they never wrapped.
DwellElapsedNoWrap(t, last) == t >= last + Dwell

\* now - lastSwitch >= STATE_DWELL_MS in uint32_t arithmetic.
DwellElapsed(t, last) == (t - last) % TickMod >= Dwell

\* A faulty variant whose tick counter never wraps.
TickUnbounded(t, d) == t + d

\* SDL_GetTicks() d ticks later: the uint32_t counter wraps.
Tick(t, d) == (t + d) % TickMod

\* A faulty variant that wraps the index one state early.
NextStateIdxShort(i) == (i + 1) % (DEMO_STATE_COUNT - 1)

NextStateIdx(i) == (i + 1) % DEMO_STATE_COUNT

(***************************************************************************)
(* One iteration of the main loop: SDL events may end it (SDL_QUIT or      *)
(* Escape; the rest of the body still runs), the demo state advances when  *)
(* the dwell has elapsed, then lv_timer_handler and SDL_Delay take time.   *)
(***************************************************************************)
Iterate ==
    /\ running
    /\ \E quit \in BOOLEAN, d \in 1..MaxDelay :
          LET due == DwellElapsed(now, lastSwitch)
              idx == NextStateIdx(stateIdx)
          IN  /\ running' = ~quit
              /\ lastSwitch' = IF due THEN now ELSE lastSwitch
              /\ stateIdx' = IF due THEN idx ELSE stateIdx
              /\ screen' = IF due THEN UI!UiUpdate(DemoState(idx), screen)
                           ELSE screen
              /\ now' = Tick(now, d)
              /\ waited' = IF due THEN d
                           ELSE IF waited + d < TickMod THEN waited + d
                           ELSE TickMod

\* The loop runs without pause until it is ended; it is never forced to end.
SimSpec == SimInit /\ [][Iterate]_simvars /\ WF_simvars(Iterate)

-----------------------------------------------------------------------------

SimTypeOK ==
    /\ running \in BOOLEAN
    /\ now \in 0..(TickMod - 1) /\ lastSwitch \in 0..(TickMod - 1)
    /\ stateIdx \in 0..(DEMO_STATE_COUNT - 1)
    /\ waited \in 0..TickMod

(***************************************************************************)
(* The demo state advances exactly when the loop reads the clock at least *)
(* STATE_DWELL_MS after the last switch, also when SDL_GetTicks() wrapped  *)
(* in between: never early, and never held back by the wrap.              *)
(***************************************************************************)
SwitchesWhenDue ==
    [][running => (stateIdx' # stateIdx <=> waited >= Dwell)]_simvars

(***************************************************************************)
(* Until the window is closed, every demo state keeps coming back.         *)
(***************************************************************************)
DemoCycles ==
    \A i \in 0..(DEMO_STATE_COUNT - 1) : []<>(~running \/ stateIdx = i)
=============================================================================
