# TLA+ models of the Connect3Dp OD-1 kiosk

These modules model the kiosk firmware in `src/Kiosks/OD-1/`. The firmware keeps a
local mirror (`g_machineState`) of one printer's state on a Connect3Dp server and
draws it on an LVGL screen.

## 1. The system (inventory)

| Part | Source | State | Operations |
|---|---|---|---|
| Data model | `machine_state.h` | the `MachineStatus` enum, `PrintJobState` and `MachineState` with their defaults | `parseMachineStatus` (flag string to status, first keyword wins), `machineStatusLabel` |
| State reconciler | `ws_handler.h:53-141` | none of its own; it rewrites `MachineState` | `_parseAtAGlanceState` (full snapshot), `_applyAtAGlanceChanges` (HasChanged/New delta) |
| WebSocket handler | `ws_handler.h:145-253` | the socket and its open/closed state | `begin` (the message and event callbacks), `connect`, `poll`, `_sendSubscribe`, `_onMessage` (dispatch on Topic) |
| UI manager | `ui_manager.h` | the LVGL widgets | `ui_init`, `ui_update(ms)`, `_statusColor`, the Mark-as-Idle click handler, `ui_update_dev_stats` |
| Device loop | `OD-1.ino` (not in repository) | `g_machineState` | `setup()`, `loop()`: poll the socket, then redraw |
| Simulator | `simulator/main.cpp`, `lv_conf.h` | demo index and timer | cycles `ui_update` through fixed demo states |
| Configuration | `config.h` (OD-1, OnMachine) | none | the machine ID and the reconnect intervals |

**How they interact.** Everything runs on one cooperative loop. `poll()` delivers
at most the frames waiting on the socket, and each frame is handled completely by
`_onMessage`, which mutates `g_machineState`. `ui_update` then reads the whole
state. Nothing is concurrent inside the kiosk. What is concurrent is the kiosk
against the server and the network. Frames arrive in the order the server sent
them, over one TCP connection, but the connection may close at any time and lose
whatever is in flight. The server may refuse a subscription. It may also send
frames for other machines, or frames the parser rejects.

**Hard behaviours.**
- A snapshot followed by deltas must reconstruct the server's state, across
  reconnects and job changes.
- Null-valued delta fields keep the old value.
- A job with an empty name is handled differently by a snapshot and by a delta.
- A refused subscription is never retried.
- After a disconnect, stale data stays in memory.
- The UI hides or shows panels depending on status and job.

The hazards are listed in `PROJECT.json`, each at the line where it bites.

## 2. Modules

| Module | Models | Notes |
|---|---|---|
| `MachineState` | `machine_state.h` | The structs as records, `ParseMachineStatus` and `MachineStatusLabel` as operators. It also holds a reference classifier, `MostActiveStatus`, built from the documented precedence. |
| `WsHandler` | `ws_handler.h` plus the server as environment | See below. |
| `UiManager` | `ui_manager.h` | `InitialScreen` (`ui_init`) and `UiUpdate(m, scr)` (`ui_update`) as functions from a MachineState to a record with one field per widget property. The percent label is `PercentText(v)`: what `snprintf(pctBuf, 8, "%d%%", v)` writes, i.e. the decimal digits (`RECURSIVE Digits`), an optional minus sign and `%`, cut to 7 characters. `DevStatsText(free, total, loop)` is `ui_update_dev_stats`'s line, cut to the 39 characters of `buf[40]`. |
| `AtAGlanceMirror` | what the handler promises | The abstract spec; see below. |
| `Simulator` | `simulator/main.cpp` | The demo loop. `SimInit` is `ui_init` plus the first `ui_update`. `Iterate` is one pass of the `while (running)` body: the quit/Escape check, the dwell test in `uint32_t` tick arithmetic, the switch to the next demo state with its redraw, and the time the pass takes. |
| `SimulatorLifecycle` | `simulator/main.cpp` | The whole of `main()` around the demo loop. `pc` is the statement reached and `live` the SDL resources held. `SdlInit`, `CreateWindow`, `CreateRenderer`, `CreateRendererFallback` and `CreateTexture` may each fail, with the code's checks (or lack of them). `Launch` is the LVGL set-up and the state `SimInit` describes. `Loop` is `Iterate`, and `Cleanup` destroys everything and calls `SDL_Quit`. |
| `SdlFlush` | `simulator/main.cpp` (`sdl_flush_cb`, draw buffer, loop) | The display path. The screen is cut into bands of the draw buffer's 40 lines, and a band holds the number of the UI change that last drew it. `UiChange` is a `ui_update` that invalidates a run of bands. `StartRefresh` is `lv_timer_handler` queueing the dirty bands top to bottom. `Flush` is one `sdl_flush_cb`: it updates the texture band, then presents if `FlushIsLast` (`lv_disp_flush_is_last`). The ghost variable `frames` records the widget states that refreshes started from. |
| `Kiosk` | the device loop | Composes `WsHandler` with `UiManager`. `Render` applies `UiUpdate` between socket steps. |
| `MCOperators` | — | Checks the pure conversions against reference definitions. `flags` steps through all 128 subsets of the status flags for `ParseMachineStatus`. `pct` ranges over a set of ints, including the 32-bit extremes and the values where the label no longer fits its buffer; the percent_bar run reads the label back as a decimal, with `FoldLeft` over its digits, and compares it with the bar's value. The input is one variable that ranges over tagged records (status flags, a percentage, or a dev-stats triple), so the cases are added rather than multiplied. `DevStatsText` is checked against a reference rendering: the heap figures in full, and the whole line when the loop time fits. |
| `MCWsHandler`, `MCKiosk`, `MCSimulatorLifecycle`, `MCSdlFlush` | — | Model-checking instances with the constants. |

**WsHandler state.**
- `ms` is `g_machineState`.
- `chan` is the socket's receive queue. It is a FIFO and is emptied on close.
- `subReq` records that a subscribe request is pending at the server.
- `subscribed` records that the server is sending deltas on this connection.
- `srv` is the server's current view of the machine: status flags, nickname and job.
- `changes` and `noise` bound the environment's steps.
- `applied` is a history variable. It holds the server state that the last
  applied frame of this connection was generated from, and is Null before the
  first snapshot. Each frame carries the server state it came from as a ghost
  field `src`.

**WsHandler actions.** Each kiosk action is one whole handler:
- `Connect` is the `ConnectionOpened` event together with `_sendSubscribe`.
- `ConnectionClosed` is the `ConnectionClosed` event. It also models the loss of
  the socket: the channel and the subscription are cleared.
- `Receive` is one frame handled by `_onMessage`. It has four disjuncts:
  - `ReceiveIgnored` covers every early return;
  - `ReceiveSubscribeFailure`;
  - `ReceiveSnapshot`, which calls `_parseAtAGlanceState`;
  - `ReceiveDelta`, which checks the topic and then calls `_applyAtAGlanceChanges`.

The reconciler functions are pure operators, `ParseAtAGlanceState` and
`ApplyAtAGlanceChanges`, and their branches follow the code line by line.

**The environment.**
- `ServerSubscribe` answers a subscribe with a snapshot of `srv`, or with a
  `FailureReason` when the constant `SubscribeMayFail` is set.
- `ServerChange` moves `srv` to a new state and, while subscribed, sends the delta
  that the server's diff produces. The delta is computed by `AtAGlanceChanges(o, n)`:
  a HasChanged/New pair per field that differs, and a `Job` object only when the
  job changed.
- `ServerNoise` sends a delta for another machine, or an unparseable frame when
  `MalformedFrames` is set.

**Subscribe ordering.** The constant `SubscribeOrders` sets how the server orders
the two parts of answering a subscribe. It either registers the connection for
deltas and takes the snapshot atomically (`"atomic"`), or does them as two steps
(`ServerSubscribe`, then `ServerFinishSubscribe`), with server changes possible in
between. In `"registerFirst"` the subscriber is registered first; in
`"snapshotFirst"` the snapshot is taken first. The server is not in this
repository. The faults run allows all three orders. The sync run uses the
atomic order, and the kiosk and delta_first runs use register-first. With
snapshot-first, a change between the snapshot and the registration is lost
until a later delta changes the same field, or until a reconnect.

**Abstract specification and refinement.** `AtAGlanceMirror` states what the
handler promises, without sockets or JSON. Its variables are:
- `server`, the server's state;
- `link`, whether the link is up;
- `feed`, whether the server feeds this link;
- `mirror`, the server state the kiosk last took on during this link;
- `pending`, the later server states the kiosk may still take on, in order;
- `view`, what the kiosk shows.

`Sync` moves the mirror forward to any pending state and drops the ones before
it, so the mirror never goes back to an older state. Before the kiosk has
mirrored anything on a link, a newer state may replace the queued one. `Close`
marks the view offline and keeps the rest. `Refuse` stops the feed. `Sync` is
weakly fair.

`WsHandler` defines `Mirror == INSTANCE AtAGlanceMirror WITH ...`, and the sync
run checks `MirrorRefinement == Mirror!ASpec` as a property. The mapping is:
- `mirror` is `applied`;
- `pending` is the `src` states of the frames still queued in the socket once
  subscribed, or `<<srv>>` while the subscribe request is unanswered;
- `feed` is "connected and subscribing or subscribed";
- `view` is `Core(ms)`.

**Data abstraction.**
- A status string is a sequence of flag tokens, and `strstr` is `Contains`. This is
  exact, because no flag name is a substring of another.
- Names and durations are strings from small constant sets, so the properties
  can tell them apart.
- A JSON null or an absent field is the model value `Null`. The code stores `""`
  for it.

## 3. Runs

| Run | Config | Expect | What it shows |
|---|---|---|---|
| sync | `MCWsHandler.cfg` | pass | `MirrorRefinement`: the handler implements `AtAGlanceMirror`. Every applied snapshot or delta leaves the kiosk's status, nickname, job presence, name and sub-stage equal to a server state later than the one it showed before on this connection. A state queued for the kiosk is eventually taken on. `JobConsistent`: without a job, the job fields are the defaults. `LiveSync`: while connected, the kiosk eventually matches the server's current state. |
| faults | `MCWsHandlerFaults.cfg` | pass | Runs with subscribe failures, malformed frames, foreign deltas and a job with an empty name. The server answers a subscribe atomically, registers the subscriber first, or takes the snapshot first. `NoStatusBeforeSnapshot`: nothing but Disconnected is shown before a frame of this connection for this machine is applied. `JobConsistent` still holds. |
| operators | `MCOperators.cfg` | pass | `ClassifierMatchesPrecedence`: over all 128 flag sets, `ParseMachineStatus(SerializeStatus(F)) = MostActiveStatus(F)`. `DevStatsShowsHeap`: the dev-mode line from `snprintf(buf[40], "Heap: %uK/%uK  Loop: %ums", ...)` always begins with the full heap figures, and is complete whenever the loop time has at most 6 digits. |
| kiosk | `MCKiosk.cfg` | pass | Uses the register-first server, so a delta can arrive before the snapshot. `JobConsistent`: without a job, the job fields are the defaults. `NoJobPanelOffline`: the job panel is never shown next to "No server". `ScreenShowsServer`: the screen eventually shows the server's status label, colour, nickname (or the machine ID) and job panel. |
| simulator_lifecycle | `MCSimulatorLifecycle.cfg` | pass | Every SDL start-up call may fail. `LoopHasWindow`: the demo loop only runs with SDL initialised and a window. `ReleasedOnExit`: every return from `main()` holds no SDL resource. `SwitchesWhenDue`: the demo state advances exactly when at least the dwell time has really passed, also across the tick counter's wrap. `DemoCycles`: every demo state keeps coming back until the window is closed. |
| sdl_flush | `MCSdlFlush.cfg` | pass | `NoTornFrame`: every image `sdl_flush_cb` presents is the whole screen as the widgets stood when some refresh began, never a mix of redrawn and waiting bands or undefined texture pixels. `PresentedConverges`: once the UI stops changing, the window settles on what the widgets show. |
| job_fields | `MCWsHandlerJobFields.cfg` | violation | A delta that sets RemainingTime to null leaves the old remaining time on screen. |
| unnamed_job | `MCWsHandlerUnnamedJob.cfg` | violation | An unnamed job is a job in a snapshot and the end of a job in a delta. |
| subscribe_fails | `MCWsHandlerSubscribeFails.cfg` | violation | After a refused subscribe, the connected kiosk never shows the machine. |
| delta_first | `MCWsHandlerDeltaFirst.cfg` | violation | With the register-first server, a nickname-only delta that arrives before the snapshot is applied to the state from before the connection. Until the snapshot arrives, the kiosk shows the new nickname with the status Disconnected while the server is Idle. |
| percent_bar | `MCOperatorsBar.cfg` | violation | `LabelMatchesBar` fails. The bar clamps the percentage to 0..100, but the label prints it raw: -1 gives an empty bar labelled "-1%". A value of 7 or more characters also loses its `%`. |
| simulator_blank | `MCSimulatorBlank.cfg` | violation | `LoopCanPresent` fails. When the renderer fallback or the texture creation fails, nothing checks it, and the demo loop runs with a blank window. |

The violations are recorded as findings in `PROJECT.json`. Each property of
a passing run has a mutant in `PROJECT.json`: a plausible bug in a mapped
definition that TLC shows the property catches.

**Bounds.**
- Three server states are enough to reach every kind of job transition:
  - Idle without a job;
  - Printing with a job;
  - Printing+Paused, which exercises the classifier's precedence.
- `MaxServerChanges = 3` (2 in the kiosk run) gives a job start, a job update and a
  job end, or a job switch without an end. The nickname can change as well.
- `MaxInFlight = 2` lets a snapshot and a delta be in flight together, so a close
  can lose both. With 3 frames in flight, the refinement check alone
  took over two and a half minutes (88,452 states), so the project keeps 2.
- `MaxNoise` (1 or 2) lets a foreign or malformed frame arrive between any two
  real frames.
- The jobs were chosen so that the interesting cases happen:
  - `Benchy` moving to `BenchyLater` nulls the remaining time;
  - `Cube` has every field but its name null;
  - `Unnamed` has an empty name.
- Connect and close are unbounded, because they are not counted.
- The simulator's tick counter is 3 bits wide instead of 32 (`TickBits`), with a
  dwell of 3 ticks and passes of 1 or 2 ticks (`Dwell`, `MaxDelay`). The counter
  therefore wraps every two or three switches, and every position of
  `lastSwitch` relative to the wrap is reached. The dwell test only depends on
  `Dwell + MaxDelay < 2^TickBits`, which holds for both the real values and the
  scaled ones.
- The percent inputs are -1..110 together with the edges of the 8-byte buffer
  (-99999, -100000, 999999, 1000000) and of `int` (+-2147483647). Every digit
  count from 1 to 10 and both signs occur.
- The dev-stats inputs are heap sizes of 0, 1023, 1024, 327680 (320 KiB),
  1023999, 1024000 and 2^31-1 bytes, and loop times of 0, 5, 999999,
  1000000 and 2^31-1 ms. The largest heap figures give 7 digits of KiB each, and
  the loop time then meets the 40-byte end exactly (6 digits) or is cut (7 or
  more).
- The flush run uses the real `SCREEN_HEIGHT` of 320 and the real 40-line
  buffer, so 8 bands, and two UI changes (`MaxChanges`). Each change covers any
  run of bands, so a change can reach a band that is still queued or one that
  is already flushed. Two changes give a refresh that starts while another band
  is dirty. The run has 24,094 states.
- In the lifecycle runs, every SDL call succeeds or fails, so all eight exit
  paths of start-up are explored. The demo loop uses the bounds of the
  simulator run.

**Fairness.**
- `Receive` is weakly fair, because `loop()` calls `poll()` on every iteration
  while the socket is open.
- `ServerSubscribe` is weakly fair: a live server answers a subscribe.
- `Render` is weakly fair, because `loop()` redraws after every poll.
- `ServerFinishSubscribe` is weakly fair: a live server completes a subscription
  it has begun.
- The simulator's `Iterate` is weakly fair, because `while (running)` never
  blocks. Quitting is a choice inside an iteration and is never forced; the
  simulator config turns off the deadlock check because the program really ends
  there. `main()` as a whole (`LifeSpec`) is weakly fair for the same reason.
- In the flush run, `StartRefresh` and `Flush` are weakly fair, because the loop
  calls `lv_timer_handler` on every iteration and LVGL flushes a refresh
  synchronously (`lv_disp_flush_ready` is called inside the callback). The
  deadlock check is off because an idle display with nothing dirty really
  stops. `UiChange` is guarded by an empty queue, because `ui_update` and the
  refresh run on the same thread.
- Connect, close and server changes are not fair. The liveness properties are
  stated as "connected leads to synced or disconnected", so they do not depend on
  the network staying up.

## 4. Not modelled

- The Mark-as-Idle click handler. It calls `sendMarkAsIdle`, which `WsHandler`
  does not define (`ui_manager.h:71`). The device build therefore does not
  compile, and the simulator's stub does nothing. This is a build error, not
  a behaviour a model can reach, so it is not listed as a hazard.
- In `sdl_flush_cb`: the pixels and the `SDL_Rect`/pitch arithmetic. A band
  stands for its pixels. The pitch `r.w * sizeof(lv_color_t)` is correct only
  with `LV_COLOR_DEPTH 32`, which matches `SDL_PIXELFORMAT_ARGB8888`. That is a
  fact of `lv_conf.h`, fixed at compile time, not a behaviour.
- `sdl_mouse_read_cb` (no demo state reads input) and the simulator's String shim.
- `lv_conf.h` and the `config.h` files: compile-time constants with no behaviour.
  `SCREEN_HEIGHT` is used as a constant of the flush run, and the machine ID as
  `MachineId`.
- The refinement is checked only for the atomic server. With the register-first
  and snapshot-first servers, the handler does not implement the mirror (see
  delta_first).
- WiFi and the reconnect timers of the sketches that are not in the repository.
- The server itself, beyond the protocol comment in `ws_handler.h`.
- Deltas lost while the connection stays up. Nothing in the code recovers from
  them, so a mirror property fails trivially.

## 5. Plan for later sittings

1. The reconnect loop of `config.h`. The sketches that run it are not in the
   repository, and spec.md leaves it out of scope, so it would have to be
   modelled from the interval constants alone.
2. A larger refinement instance (two nicknames, or three frames in flight), if a
   run budget for it can be found.
3. Double buffering (`lv_disp_draw_buf_init` with a second buffer), if the
   simulator ever uses it: flushes then overlap with rendering.
