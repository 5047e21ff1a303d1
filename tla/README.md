# Touhou HFR: verification project

TLA+ models of the parts of Touhou HFR whose correctness depends on the order
in which things happen: the tick schedule and its pacing against the clock, the walk
over the update list, the systems that are stepped on ticks, replays and their sessions,
the x64 frame, what is drawn between two frames, the picture's device, chain and textures,
the dimming of draw calls, the menu's keys, the window, the patch transaction and the
late entry point. TLC checks small instances of each; TLAPS proves most of what is checked for every
value of the constants: all of it for the schedule, the frame hook, the update list, the stage streams, the stepped systems
of TH10 to TH20, TH08's field, the x64 frame, the menu's keys, the window, the textures' copies, the classes of draw calls, the transaction and the late entry but for the liveness, and the
main properties of sessions and of the picture (section 5).

Paths below are relative to the repository (`src/core/timing.c` is the file of
that name in it). `PROJECT.json` maps every definition to its lines, and lists
the runs, the findings and the hazards.

## 1. The system

Touhou HFR makes games whose simulation runs at 60 frames a second run at the
display's rate. Two runtimes share a user interface.

**The x86 runtime** (`src/hfr.c`, `src/core`, `src/backends`, `src/games`) is a DLL
loaded into the game. It replaces instructions and imports of the game, takes
over the game's per-frame function and its update-list runner, and *slices* every
game frame into ticks: systems classified as steppable run on every tick with a
fraction of a frame as their speed factor, the others on the frame's first tick
(the *frame tick*) only.

**The x64 runtime** (`src/hfr64.c`, `src/backends/fixed_*.h`, `subtick.h`) serves one
game with a different engine. It keeps the game's own update at 60 Hz, draws
interpolated poses in between, and optionally moves the bullets and the player
between two updates, slice by slice.

| Component | State | Operations | Interacts with |
|---|---|---|---|
| Tick schedule (`core/timing.c`) | rate, remainder, position, frame, phase, `dt`; ticks owed | set rate/speed, advance, reset at a stage, move to a frame, ticks for a slot | frame hook, runner, replay, menu, Direct3D |
| Frame hook and limiter (`core/frame.c`, `limiter.c`) | origin of the schedule, ticks run, frames to fast-forward | one call per presentation: housekeeping, waits, catch-up ticks, the game's frame | schedule, runner, replay |
| Update runner (`backends/update_runner.c`, `core/nodes.c`) | which node cut the list, whether the frame is the replay's, a tentative resync | bracket a pass, decide about each node | schedule, replay stream, input |
| Input and replay stream (`core/input.c`) | a stream per stage, its position, the joystick cache | begin/end of a tick, first frame of a stage | runner, replay files, joystick thread |
| Replay files (`core/replay.c`) | recorded settings and rate, the player's saved settings | save, load, notice that a playback began or ended | game's replay manager, schedule |
| Patch transaction (`core/patch.c`) | queue of writes, a failure flag | queue, commit | every installer |
| Imports, install, entry (`core/imports.c`, `install.c`, `entry.c`, `conflict.c`) | hooks taken, identified game, late entry's flags | DllMain, late entry from any thread, take imports back | transaction, other patches in the process |
| Game speed (`core/speed.c`, stubs) | the game's own speed and the factor | stubs at the game's writes | runner |
| Interpolation (`core/interpolation.c`, `backends/fixed_history.h`) | pose histories by address | record, blend | runner, draw |
| Menu and overlay (`src/ui`) | pending changes | set, apply between frames, keys | everything |
| Picture (`core/scaler.c`, `shaders.c`, `texscale.c`, `dimming.c`, `window.c`, `backends/d3d*`) | devices, chains, textures | device creation and reset, present | frame hook, schedule (`after_device`) |
| x64 frame (`hfr64.c`, `fixed_clock.h`, `subtick.h`, `ui/overlay_fixed.c`) | a clock, two slice positions, switches | an update per outer-loop iteration, draw with a guard, extra updates | the game |
| Proxies and launchers (`proxy_dxgi.c`, `launcher*.c`) | whether the runtime has been started | load, forward, inject | the loader |

What is hard:

* **Exactness over time.** Slices are whole 1/256 units of a frame; a lost
  fraction, a frame tick missed at the wrap, or a resync one tick off is invisible
  for minutes and then desynchronises a replay.
* **Ordering of what is not synchronised.** The player pauses when he likes, the
  display changes, the menu sets switches in the middle of a frame, the game
  fast-forwards by itself: the ticks, the stream and the slices must come out the
  same.
* **Company.** Other patches write to the same code and imports, without locks and
  in any order; several threads enter `late_entry`; a commit may fail half way.

* **Identity.** Poses are remembered by address, copies of textures too, and the game
  frees and allocates at the same addresses; hooks are re-entered by what they call.
* **Other people's state.** The player's settings are borrowed by a playback, the game
  resets devices, styles and sizes as if it were alone, key-ups get lost.

The properties each component owes are in section 4; `PROJECT.json`'s hazards list
every hard place with its line, those no property covers included.

## 2. Modules

| Module | Models | Used by |
|---|---|---|
| `TickPattern` | the closed form of the canonical tick sequence at a rate | `CanonicalClock`, `ReplayStream`, `FramePacing`, `SlicedSystems`, `Th08Field` |
| `CanonicalClock` | abstract specification of the schedule: a tick *is* an index in its period | `TickSchedule` (refinement) |
| `TickSchedule` | `core/timing.c` as written, with remainders | `MCTickSchedule`, `TickScheduleProofs` |
| `TickScheduleProofs` | theorems on `TickSchedule` | |
| `FramePacing` | `hfr_frame` and `run_ff_frames` of `core/frame.c` against the wall clock | `MCFramePacing`, `FrameHookProofs` |
| `ReplayStream` | `input.c`, the pass brackets of `update_runner.c`, sessions of `replay.c` | `MCReplayStream`, `SlicingProofs` |
| `ReplaySession` | `replay.c`, the stage streams of `input.c`, the menu's settings, TH08's replay hooks | `MCReplaySession`, `ReplaySessionProofs` |
| `ReplaySessionProofs` | theorems on `ReplaySession` | |
| `UpdateList` | `hfr_runner` and `runner_node` of `update_runner.c`, `node_mode` of `nodes.c` | `MCUpdateList`, `UpdateListProofs` |
| `UpdateListProofs` | theorems on `UpdateList` and `PoseHistory` | |
| `SiteKinds` | the kinds of site patch (`site_helpers.c`, `x86.c`) | the next two |
| `EarlySites`, `LateSites` | the site tables, stepped nodes and pauses of `th10.c`-`th13.c` and `th14.c`-`th20.c` | `SlicedSystems` |
| `SlicedSystems` | a stepped system beside the unmodified one (`speed.c`, node factors) | `MCSlicedSystems`, `SlicingProofs` |
| `SlicingProofs` | theorems on `ReplayStream`, `SlicedSystems` and `Th08Field` | |
| `Th08Field` | TH08's playfield on ticks (`games/th08.c`) | `MCSlicedSystems`, `SlicingProofs` |
| `FixedFrame` | the x64 frame | `MCFixedFrame`, `FixedFrameProofs` |
| `FixedFrameProofs` | theorems on `FixedFrame` | |
| `PoseHistory` | `interpolation.c`, `fixed_history.h`, `fixed_quad.h`, TH08's quads and camera, the options of `th14_family.h`, the sprite hook of `hfr64.c` | `MCUpdateList`, `UpdateListProofs` |
| `Presentation` | `d3d9.c`, `scaler.c`, `window.c`, `overlay.c`: device, reset, chains | `MCPresentation`, `PictureProofs` |
| `TextureCopies` | `texscale.c` and the texture hooks of `d3d9.c` | `MCTextureCopies`, `PictureProofs` |
| `DrawClasses` | `dimming.c` and the draw hooks of `d3d9.c` | `MCTextureCopies`, `PictureProofs` |
| `PictureProofs` | theorems on `Presentation`, `DrawClasses` and `TextureCopies` | |
| `MenuInput` | `menu_key.h`, `typing_block.h`, `poll_menu_key` | `MCMenuInput`, `FrameHookProofs` |
| `WindowShape` | `window.c`: style, size, full screen, pointer | `MCMenuInput`, `FrameHookProofs` |
| `FrameHookProofs` | theorems on `FramePacing`, `MenuInput` and `WindowShape` | |
| `PatchTransaction` | `patch.c` and the queueing half of `hook_import` | `MCPatchTransaction`, `InstallProofs` |
| `LateEntry` | `entry.c`, the hooks' life in `imports.c`, the commit of `install()` | `MCLateEntry`, `InstallProofs` |
| `InstallProofs` | theorems on `PatchTransaction` and `LateEntry` | |

The MC modules hold values for the constants. Four of them also put two modules into one
run that share no state (`MCUpdateList`: `UpdateList` and `PoseHistory`; `MCSlicedSystems`:
`SlicedSystems` and `Th08Field`; `MCTextureCopies`: `TextureCopies` and `DrawClasses`;
`MCMenuInput`: `MenuInput` and `WindowShape`): a variable chosen at the start says which of
the two a behaviour is of, and the other's state stays as it is. Four proof modules likewise hold the proofs about
components that share no state; each theorem names the one specification it is about (`Spec`, `KeysSpec`, `WindowSpec`,
`DrawSpec`, `PatchSpec`, `SystemSpec`, `FieldSpec`).

### TickSchedule

Variables are `timing.c`'s globals: `logicRate` (`g_logic_rate`), `unitsAcc`, `unitsTotal`,
`prevFrame`, `major`, `phase` (here in units, an exact integer, where the code divides by
256), `dt` (a fraction), `ticked` (`g_tick # 0`, all the code asks of it), `lacc`, `refresh`,
`speed`, `anchored` (`g_t0 # 0`). `slots` and `granted` are history: presentations and ticks
since `lacc` was last zero. Actions are functions: `SetGameSpeed`, `TicksForSlot`,
`RecomputeRate`, `ReplayRate` (the `set_logic_rate` of `replay_check`), `AdvanceTick`,
`ScheduleResetHere`, and `schedule_to_frame` as `ScheduleToFrame` followed by a
`WalkTick` per turn of its loop; while `Walking`, nothing else runs, since the loop is
inside one call. `SetLogicRate` and `AdvanceSliced` are shared by the actions that
call the functions of those names. A change of `cfg.substep` by the menu and
the `recompute_rate` that `hfr_ui_apply_pending` makes before the next tick are one action.

`CanonicalClock` says what the schedule promises: the next tick is tick `next` of its
period and its frame, offset, length and frame-tick flag are *functions* of that index
(`TickPattern`). `TickSchedule` implements it under `next <- NextIndex`, which recovers the
index from the position and the remainder.

### FramePacing

One call of `hfr_frame` is `Frame` (the clock, the re-anchoring, the limiter's wait, the number
of ticks), a `CatchUp` per tick that is not drawn, `Draw`, and, if a replay asked for frames,
`ForwardFrame`, `ForwardTick` and `ForwardEnds` for `run_ff_frames`; settings change between
calls only. Time is counted in units of `1/Grain` of a presentation slot, and `g_t0` and
`g_ticks_run`, which the code only ever subtracts, are their difference `behind`; `wait` is
`g_next - now`. Time passes between calls (`Elapses`) and in the limiter's wait. An abandoned
call (`hfr_housekeeping`) is time between two calls. A catch-up tick may make the game leave
(`leaves`), as may a tick of fast forward. The tick in progress is its index, as in `ReplayStream`. History: `asked` and
`extra` count the frames a replay asked for and those `run_ff_frames` began; `slip` is how late
the last presentation was for its slot, `disturbed` that something other than an ordinary
burst came before it, `corrected` that it was given a tick more or less than its slot's.
Every profile that has a frame hook can run a tick without drawing it, so
`catchup_available` is true throughout.

### ReplayStream

The current tick is its index `cur` (justified by the refinement above), the stream's
entries are the ticks they were recorded on, so "the playback got the right bits" is "the
playback read its own tick". `FrameTickRuns` is a whole pass on a frame tick that advances
the replay: the tentative resync before any node, `replay_stage_start` on the stage's
first frame, the end of the tick. `FrameTickIdle` is one that does not advance it (the resync
is taken back). `MinorTick` is any other. A stage may be started again, saved in the middle,
left, and played back any number of times, at other rates in between.

### ReplaySession

`Frame` is the runtime's part of a frame: it notices that a playback has begun or ended
(`replay_check`), borrows or gives back the settings, and applies the menu's pending rate.
`UiSet` and `UiSave` are the menu (locked while `hfr_ui_simulation_locked` says so),
`DeviceReset` a display of another rate, `StageStart`, `PlayStage` and `RecordTick` the
stages, `SaveReplay`, `LoadReplay` and `OtherFile` the files, `NewGame`, `GameOver`, `Leave` and
`Restart` (of the process) the rest of a session. The streams are sequences, encoded in
runs of at most `MaxRun` and decoded with the reader's checks. What a tick reads is in
`ReplayStream`; here it has the settings it was recorded under attached.

### UpdateList

`FrameTick` and `MinorTick` begin a pass, `Call` is one node's callback with everything it
and other threads may do to the list meanwhile, `Skip` passes over nodes that are not called,
`CutHere` ends a minor tick where the frame tick ended, `PassEnd` and `PassOver` the pass,
`Forwarded` a frame of fast forward, `NextScene` a new list. With `HasCell = FALSE` (TH10 to
TH12, whose runner keeps no next node) the walk is the game's own, and a callback that takes
off its successor breaks it as it does in the unmodified game; the run has the cell. The stop
node is kept by address (`g_stop_id`): a node freed and put back is another node at that
address, which is in the walk's alternatives. The stand-alone wrappers (`hfr_wrap_*`,
`update_runner.c:188-204`) run the same `runner_node`.

### SlicedSystems, with SiteKinds, EarlySites and LateSites

A site is what the game does there once a call, the gate the patch puts on it, and the
amount before and after. The tables of the games list their sites by kind (the addresses
are the profile's). An object of the game lives `Life` frames twice: in the unmodified
game, called once a frame, and stepped. `Open` and `Close` are a pause between two frames, `MenuTick`
the runner's pass while it is open. `FrameStep` and `MinorStep` are a tick; the tick's length is the schedule's, by
`TickPattern`.

Assumed: an object is born on a frame tick with its timer's two values unequal; scripts set the game's speed at the
head of a frame tick; floating point is exact on the fractions used. `SlowedApart` names the sites that go by a
timer or the speed and so are not the unmodified game's in slow motion. Two things seen there: TH11 to
TH13 scale the items' fall by the speed, slow motion included, while
`games/th12.c:26-27` says that amounts a frame are scaled by the sub-step only; and TH14, TH15 and TH18 gate
the countdown of items in state 5 on the item's own timer, though the earlier games' notes say
that items in state 5 do not tick theirs. A weapon's timer asked before its own tick (TH14) is not modelled.

A bullet's promotion (`Asked`; TH14, and TH15 and TH18 after it) is the one site whose gate is known not to bring back the unmodified
game: `TH14_DEVNOTES.md` (section 13) measured delays that start one frame early with the gate in place, on the frame's tick, and did not
find the cause. The model does not guess at it. What the promotion waits for (`Permitted`) comes in frame `Cycle`, after the unmodified
game's bullets have asked; where frames are cut it may also be there one frame tick sooner, for any bullet (`early`). What the gate does settle
stays to be checked: no delay starts between frame ticks, none late, and none more than that frame early (`StartsWithAFrame`).

### Th08Field

`FieldFrame` and `FieldMinor` are `th08_projectiles_pass`, the player's pass and the items on a
frame tick and between, `FieldNewborn` an object appearing, `FieldStage` a stage beginning, and
`FieldPause` a pause. One of the spawn states (a half) stands for the three; a
script's end is tested before its clock ticks; a bomb's catch is seen by both games on the frame
tick. That collisions and grazes are tested more often is the feature and not in the comparison.
The player moves by the key of the frame; her focus is not modelled. In slow motion the timer is made up by the rest
of a frame and not by that times the multiplier, and the lasers' graze gate is not inert at one tick a frame
as `th08.c:905` has it of everything; `BulletSame` and `LaserSame` leave the two out once there has been slow motion. At rates that cut
frames unevenly each change of the multiplier may add less than a frame to the distance between the two timers, so that what `Near` says
of timers is for full speed.

### FixedFrame

One outer-loop iteration is `UpdateFirst` (`MinorUpdate` or `MajorUpdate`), any
`UpdateExtra`, then `DrawFrame`; menu actions happen between iterations. The clock is kept as
the time left until the next frame is due and slice positions relative to `ticks`, so that
runs of any length have finitely many states. History variables: `projMoved` and
`playerLag` (motion applied this frame), `rushed` (the speed was raised or the game fast
forwarded in this frame), `switched`, `uncovered`.

### PoseHistory

`GameFrame` is the game's next frame for the thing watched (a step, a teleport, a
restart, a new thing at its address), `OthersLeave` the end of the things that contend for the
table, `FrameRecorded` what the keeper writes on the frame tick, `Present` a presentation, with the
menu's switches. Five keepers share the definitions of a history (begins, rolls, is drawn again)
and differ in how they find a place and what they ask before they interpolate.

Places are on a line; thing 1 moves, and the others stand and only leave, because what
they do to thing 1 is to hold a place of the table. Ages are a script's first tick or a later one;
a history two ticks old has forgotten everything but its key. With interpolation
off nothing is placed by a quad or a pose. Enemies' flags change on frame ticks only; the camera's first
tick, from a zeroed history, is left out, and a VM that several sprites share draws all of them each tick, the second
never where the first one started. `Odd` is what the game is let do besides; each of `shared`, `sameAge`,
`atOnce` and `offOn` breaks `OwnMotion` (section 6). The probe of `th08_quad` takes the first vacant or stale
place before it has looked for its own key, so a quad may lose its history for a frame when
a place ahead of it becomes free: `SteadyMotion` leaves quads out.

### Presentation

`Direct3DCreate9`, `CreateDevice` and `GameReset` are the game's calls, with the
retries and failures of `d3d9.c`; `Resize`, `Minimize`, `EnterSizeMove` and `ExitSizeMove` what the
window is sent; `SetVSync` the menu; `Frame` is a frame: the pending reset or rebuild, then
the copy and the present. Which of them does what depends on `mode`, derived once from the INI
and the `d3d9.dll` found. `lost` and `shown` are history.

Seen there: a rebuild that fails (`window.c:399-401`, `overlay.c:194`) leaves no chain of the patch's
own and shows the device's, never drawn on, until the next resize; on a device that is
not 9Ex, a lost device's reset is answered without resetting it (`d3d9.c:315-321`); the flip
model goes on resizing through `Reset`, and a 9Ex device on which scaling was switched off loses
textures on reset too. `TexturesKept` and `PictureShown` exempt the latter two where they say so.

### TextureCopies and DrawClasses

`Create`, `Free`, `Lock`, `Unlock`, `LoadSurface` and `Bind` are the game's calls on a texture, `Reset`
the device's. A texture is its address, which the allocator hands out again, to the game or for a copy; what it holds is a
picture. Every texture the device makes has an entry in the table, through the hook on `CreateTexture`: the copies, and the working
textures of the filter chain (`Working`, for `g_tstage` and `g_tpass`) too. A bind that needs its copy drawn begins a generation
(`MakeCopy`, `RemakeCopy`), which goes through the working textures one after the other: one that has the entry's size serves
(`KeepTarget`), any other is released and made anew, so that its entry goes and another comes at the table's end (`MakeTarget`), and then
the copy is drawn and handed over (`Draw`). Meanwhile the code holds the texture's entry by its place (`making.at`, the pointer `e` of
`tex_substitute`), and so does the model: what it reads is what stands there (`Held`).
Releasing a copy runs the hook on `Release` again, inside the release of its owner (`Freed` within `Forget`), and
`ReleaseLoop` is the loop of `texscale_release` turn by turn, its index going on over a table whose entries move.

In three places the code goes on with a place that may be another entry's by then: a release whose entry takes its copy's place
(`Overwrites`), a generation whose entry takes a working texture's (`MovesHeld`), and the loop of a reset, which an owner may be moved
behind (`StepsOver`). Two textures of the game are enough for each. They are findings 9 and 22; `Lapses` says which of these calls may lose an
entry, and the run, where it is empty, leaves out the releases, generations and resets that do. Also outside the run's instance
(`Failing = {create}`): a generation that fails after `CreateTexture` leaves an unfilled copy that is bound next time
(`texscale.c:230-234`, `Failing = {chain}`). Not modelled: a failing `BeginScene`, which leaves `g_tex_generating` counted up
(`scaler.c:646-649`); the sizes and formats of the working textures, which all follow the entry's size; textures of the scaler and the
menu, which are like the game's that are not eligible. After a real reset, textures that survive are never registered again, and are bound as they are.

In `DrawClasses` a quad is its class and whether it is of the world. Callbacks and nested draws
of sprites begin and end, add quads, and flush; the batch goes out as draw calls with the class and
the blend in force then. `GetViewport` may fail, and the veil is then left out of that frame. The trace, the census, the veil's own render
state, the out-of-memory path, and indexed draws, which are neither faded nor scaled, are left out. With `Callers = 1` and
`Nested = 2` a nest deeper than the 32 callers kept returns to 0 (`dimming.c:280`, `:300`); nothing in
the code stops that, and nothing in the games nests so deep.

### MenuInput and WindowShape

The loop's phases are `pump` (messages), `poll` (the key's level), `read` (the game reads its keyboard)
and `draw` (the menu runs), and keys and focus change in between. A key-up that never arrives is
given up after `StalePolls` polls. Assumed: a pump delivers every message that waits, and the loss of focus
is handled before focus returns. With `LateRepeats` (a held key's repeat comes between the messages and
the poll) one press toggles twice, which `menu_key.h:11-13` calls impossible by construction; where only messages come,
auto-repeat toggles again every 30 polls. `typing_block.h:9` holds back each key "that was down then",
the code every key that is read. The two ways of reading the keyboard have a table each: a game that
used both (`Routes = {dik, vk}`) would be let see a key through the second. `overlay_dx11.cpp` uses the
same code on x64, `speed_keys.h` the same press detection.

In `WindowShape`, `Upkeep` is a frame's `window_enforce` and pointer; the game resets (`GameResets`), shows
the pointer and minimises, the player moves the mouse and drags (`Resizes`), the menu sets (`MenuSets`,
while it is open only). Sizes are widths in quarters of the native one; a caption and a border add one each. Snapping
to the aspect, the image of `SetCursor`, the rewriting of exclusive requests and the windows of wrappers are left out.

### PatchTransaction

Bytes belong to the game, this patch or another one. `Queue` is `patch_bytes`
(code sites must read as shipped) and `hook_import` (a slot may hold anything);
`Protect`/`Refuse` are one turn of the preflight loop of `patch_commit`, `WriteAll` the
`memcpy` loop, `Restore` one turn of the loop back. `VirtualProtect` is external: it sets
every page of the range and reports the first page's old protection.

### LateEntry

Threads have a `pc` in `late_entry`; every read or write of a shared variable (`done`,
`busy`, the import slots) is a step of its own, and `install()` is two: queue, then commit
(all or nothing, as `PatchTransaction` shows). `Decrypt` and `OtherTakes` are the wrapper's
stub and another patch; both act after the loader and before the game's own code.

### Faulty variants

A definition named after a real one with a suffix, and commented "Faulty", is the
same definition with one plausible bug (a dropped remainder, a guard left out, an order
reversed). No specification uses it: replacing the real definition by it must make the
property listed with it in `PROJECT.json` fail, which shows that the property can see such
a bug.

## 3. Runs, bounds and fairness

| Run | Checks | Instance |
|---|---|---|
| `TickSchedule` | `NoDrift PacingExact ImplementsClock WalkEnds` | 3 frames a period, 4 units a frame, rates 3, 4, 5, 7, requests below and above the range |
| `FramePacing` | `NearTheClock SettlesDown ForwardsWholeFrames` | 2 frames a period, rates 2 (unsliced) and 3 on a display of 3, full and double speed, half slots of time, slack 3, hysteresis 1, two frames of fast forward |
| `UpdateList` | `CutHolds WholeSlices WalksTheList OwnMotion SteadyMotion` | six nodes, three of them stepped, two that come and go (one stepped, one that may stop the frame tick), two minor ticks, one further call; two things, two places of the table, three places on the line |
| `ReplayStream` | `SlicedByFrame StreamIsTheStage PlaybackReadsOwnTick` | 3 frames a period, rates 3 to 6, stages of 7 frames (more than two periods) |
| `ReplaySession` | `PlaysAsRecorded SettingsReturn StreamsOfTheFile` | two stages, two choices of settings, a rate of the player's and the display's, runs of one tick, streams full after two ticks |
| `SlicedSystems` | `InStep SpeedAsSet FieldAsStock` | 3 frames a period, 4 units a frame, rates 3 to 7 and 12, half and full speed, objects of 6 frames; TH08 at 3, 4, 6 and 12, velocities to 2 pixels, objects of 4 frames |
| `FixedFrame` | `MotionKept FrameWhole` | frames of 2 time units, iterations every 1, 2 or 9, full and half speed |
| `Presentation` | `TexturesKept PictureShown SizeFollows` | three sizes, every wrapper and setting; the target, a reset and 9Ex may fail |
| `TextureCopies` | `FreshBind CopiesOwned FadedApart` | two textures at a time of four addresses, a chain of two working textures, two sizes, a budget of 3, two pictures, `CreateTexture` may fail; three callbacks, nests of two |
| `MenuInput` | `OnePressOneToggle TypedStaysInMenu WindowAsAsked` | three messages waiting, a key-up given up after two polls; a screen of 10, presets 4, 6 and 8 |
| `PatchTransaction` | `AllOrNothing ProtectionsRestored OnlyGameCodeReplaced` | three pages of four bytes, up to four patches sharing pages, overlapping, too long, none across two pages |
| `LateEntry` | `OthersStayCalled HooksFollowCommit StandsDownHolding HookedForDirect3D ClockGivenBack` | two imports, the main thread and a worker, plain, wrapped and unknown executables |

The runs have between 6 thousand (`TickSchedule`) and 1.6 million (`ReplaySession`) states and end in seconds to two minutes. The configurations that no row names show a
disagreement between the code and a comment or document (section 6). Type invariants are
stated in the modules (`TypeOK`, `PoseTypeOK`, `DrawTypeOK`, `WindowTypeOK`); those of `TickSchedule`, `FixedFrame`
and `PatchTransaction` are theorems, those of `ReplayStream` and `Presentation` are parts of proved invariants, and the rest hold on these instances.

Why the bounds are enough. The schedule's behaviour depends on
`rate` only through the division of the period into ticks: the rates include one that
divides the span (4 units times 3 frames by 4), ones that leave a remainder (5, 7), the
unsliced one (3) and requests the clamps must change (0, 2, 9). The stage of seven frames
makes the canonical sequence wrap twice. A wait of 9 is more than four frames at full
speed, so the clock starts again, and at half speed it does not; waits of 1 and 2 give two
and one iteration a frame. In `FramePacing` a display of 3 gives tick rate 2 a tick in two slots out of three, so
that slots with no tick, one and several occur; the longest wait, 24 half slots, is several times the slack at every rate
and the short ones (0 to 3) build up to it; the slack is larger than the hysteresis by more than a presentation's ticks, as 60 is than 6. Two threads and two calls are enough for every pair of steps in
`late_entry` to interleave and for the count to run out before, during and after the
installation. In `UpdateList` stepped nodes come before
and after `GameManager` and at the list's end, and the walk may be at a node that goes, or have it next. In `PoseHistory` two things and two places are the smallest table that is full; a step is ordinary, a
teleport or none. In `SlicedSystems` the rates 3, 6 and 12 cut every frame alike, 4, 5 and 7 do not, and at 4 a tick is most
of a frame, as at 75 Hz; the same module alone with 5 frames a period, 8 units a frame and rates 5 to 40 has 4.5 million
states and keeps the same properties. A cycle of two frames and a life of six leave a promotion a frame to come early, on time and to run on. Two stages and two choices of settings let a file be saved under others than
it was recorded with, and a stage be taken for another's. Three sizes let the window change twice away from
the game's. Two textures with two copies use all four addresses, so that an address returns as a texture or a copy, and with the working textures
they are more than the table's five entries hold; two sizes make the working textures be made anew in turn; addresses are exchangeable,
and so are pictures (symmetry).
Named bounds: `MaxFrame`, `MaxExtra` (the game makes up to seven extra
updates; one per frame here, two in the fast-forward run), `MaxAhead` (how far a
clock on a 60 Hz display, which takes a frame every iteration, gets ahead of time),
`Full` (3600000 ticks), `MaxRun` (255), `Slots` (64, 8 and 16 places of a probe), `SharedFor` (120), `StalePolls` (30), `MaxEntries` and `Budget` (the texture table), `MaxTextures` (how many textures the game has at a time), `Callers` (32), `Burst` (by how many units presentations come early or late in ordinary running), `MaxFF` (16), `Window` (0.25 s), `Slack` (60), `Hysteresis` (6),
`MaxCalls` (20000), `MaxPatches` (128), `MaxSize` (32).

Fairness. `WalkTick` is weakly fair because the walk is a `for` loop inside one call. The action `Presentation` of `FramePacing`
and the action `Frame` of the module `Presentation` are weakly fair: the game calls its frame function as
long as it runs, and each call's loops are inside the call; nothing obliges the menu, the display, the window or the
replay to do anything. In `LateEntry`, a thread inside `late_entry` goes on (`Inside`), and the main thread goes
on reading the clock, which is what the games' frame loops do (`entry.c:93-112`); nothing is
assumed of the other patch, the wrapper or the workers' calls. The other modules state
safety only and assume no fairness. `LateEntry` and `PatchTransaction` end, and a table of textures can be full, so these
three runs do not check for deadlock; the others do.

## 4. What the properties say

* `NoDrift`, `ImplementsClock`: the incremental schedule is the closed-form one; after any
  history of ticks, resets, resyncs and rate changes no fraction of a unit is lost.
* `WalkEnds`: a resync always finds the frame tick it looks for, so the 60000-turn guard is not what ends the loop.
* `PacingExact`: presentations get exactly the ticks that their time is worth.
* `NearTheClock`: stalls, bursts of presentations and changes of speed never leave the schedule further
  from the wall clock than the slack and one presentation: no debt is kept that would be worked off for minutes.
* `SettlesDown`: once presentations come at their slots, give or take a burst within the hysteresis, corrections
  stop: a debt is paid back without swinging to the other threshold. The bound on bursts is part of the
  statement. At several ticks a presentation (low display rates, high speeds) a burst of two or three presentations
  is more than six ticks, and corrections that cancel out do recur.
* `ForwardsWholeFrames`: fast forward begins exactly the frames asked for, up to the limit, wherever in a frame
  it began, and stops at a frame's end.
* `SlicedByFrame`, `StreamIsTheStage`, `PlaybackReadsOwnTick`: pauses, retries and sessions
  leave the stage's slicing a function of the replay frame; the stream has every tick of the
  stage once; a playback reads, on each tick, what was recorded on it.
* `PlaysAsRecorded`, `SettingsReturn`, `StreamsOfTheFile`: a stage plays back at the rate and under the settings each of its
  ticks was recorded with; the settings are the player's again whenever no playback has borrowed them, after a restart too; and the
  input read is the recorded stage's, run lengths and all, of this game and this file.
* `CutHolds`, `WholeSlices`, `WalksTheList`: minor ticks go as far as their frame tick and no further, whichever
  node stopped or paused it; every stepped node has its slice in every tick, and the frame's systems their frame, whatever
  callbacks do to the list; the walk is never at a node that has gone.
* `OwnMotion`, `SteadyMotion`: nothing is drawn on a motion that is not its own (a predecessor's at the address, another sprite's, across
  a teleport or a gap), and what moved on in an ordinary step is drawn on its way, whoever else wants the table's places.
* `InStep`, `SpeedAsSet`, `FieldAsStock`: at each frame's end a stepped system is where the unmodified game has it, where the rate
  cuts frames alike, and never a frame away where it does not, but for a promoted bullet's delay, which starts on a frame's tick, the
  unmodified game's frame or the one before; a node reads the game's speed times its factor, pauses included; TH08's
  bullets, items, lasers and player likewise, the timers in slow motion apart (section 3).
* `FrameWhole`, `MotionKept`: the slices of a frame add up to the frame; whatever is switched in the middle of it costs the bullets at
  most one frame of motion and the player none.
* `TexturesKept`, `PictureShown`, `SizeFollows`: no reset destroys what the game believes kept; what the game draws is what the presented
  chain shows; the patch's chain reaches the window's size, however that changed.
* `FreshBind`, `CopiesOwned`: a bind gives the texture or a copy of it as it is now; every copy belongs to one entry of
  a texture that exists, and the budget is charged for exactly those.
* `FadedApart`: a draw call with a quad of a dimmed class has quads of that class alone and is faded as that class, which has a percentage of
  its own, once; the veil lies over the background and nothing else, and no background is drawn after it; wrapped draws return where they
  were called from.
* `OnePressOneToggle`, `TypedStaysInMenu`: a press of the menu key toggles the menu exactly once, seen by messages, polls or both; a key typed
  into the menu is not read by the game until it has been released.
* `WindowAsAsked`: at the start of a frame the window and the pointer are as they were asked to be, whatever the game and the player did.
* `AllOrNothing`, `OnlyGameCodeReplaced`, `ProtectionsRestored`: a commit that fails anywhere
  writes nothing; another patch's code is never overwritten; pages get their protection back.
* `OthersStayCalled`, `HooksFollowCommit`, `StandsDownHolding`, `HookedForDirect3D`,
  `ClockGivenBack`: a patch that took an import goes on being called; no hook is in place
  before an installation has ended; late entry gives up only when it holds
  everything, the game asks for Direct3D through the hooks, and the clock is given back.

## 5. What is proved

Every theorem is about the specification of a module, for every value of its constants that satisfies the module's
`ASSUME`. A hypothesis beyond that is named in the theorem; each is the complement of a disagreement listed in section 6,
of a limit of the code or of a number the code fixes (a sharing distance above one), and the runs that check the same property make it too.

**`TickScheduleProofs`** (the constants are naturals, positive where they are divisors, with `Fps <= MaxRate` and the speed
range around full speed): `TypeCorrect`, `NeverDrifts` (`NoDrift`), `PacesExactly` (`PacingExact`) and `ClockImplemented`
(`ImplementsClock`). `NoDrift` is not inductive: that `unitsTotal` stays below the span after a tick needs to know how many
ticks are left in the period. `IInv == SliceInv /\ PaceInv`; `SliceInv` adds to the slices' types that there is an `n` below
`logicRate` with `unitsTotal * logicRate + unitsAcc = n * Span` (`OnGrid(n)`): position and remainder together are tick `n` of
the period. A tick takes `n` to `n + 1`, and the subtraction at the wrap takes `logicRate` to 0. `PaceInv` is the pacing
equation, where the remainder of a division by `Slot` must be shown to be in range. The refinement maps each action to one of
`CanonicalClock` or a stutter. It needs that the grid determines `n`, so that `NextIndex` is that `n`, that the remembered
frame is the frame of the tick before (`AtFrameZero`, a part of `Refines` with `SliceInv`), and lemmas by which a quotient with a
running remainder is the closed form of `TickPattern`.

**`FrameHookProofs`**, three components without shared state.
`KeepsNearTheClock` (`NearTheClock`) by `PaceInv == PaceTypes /\ Within /\ After`: a presentation starts within the slack of the
clock or anew, and is charged for the ticks it was worth. `FastForwardIsWhole` (`ForwardsWholeFrames`) by
`FFTypes /\ Accounted /\ Begun`: each frame asked for is waiting, begun or over the limit, and one that is begun is run to
its end. `PressTogglesOnce` (`OnePressOneToggle`, if no repeat comes between the messages and the poll: `~LateRepeats`) by
`KeyTypes`, `Reports` (a report of either kind finds a press that is owed) and `LateReports`. `TypedNeverReaches` (`TypedStaysInMenu`, for a game
that reads its keyboard in one way). `WindowIsAsAsked` (`WindowAsAsked`, with none of the two surprises of findings 20 and 21) by
`ShapeInv`, whose parts say which style and rectangle are the window's own and which the borderless one's (`Shaped`), and that the
count of the hidden pointer is what this patch has left in it (`Counted`).

**`UpdateListProofs`**: `CutsHold` (`CutHolds`), `SlicesWhole` (`WholeSlices`) and, for the games whose runner keeps a next node (`HasCell`),
`WalkOnTheList` (`WalksTheList`). The invariant says where the walk stands: it goes forward and passes over no node that was there all
along (`Walk`), it is not behind a node that will cut it and that stays (`Barred`), every node before it was called as often as it should
have been (`CallsRight`), and it is on the list (`OnList`).

For what is drawn between frames: `OwnWay` (`OwnMotion`) and `SteadyWay` (`SteadyMotion`), for any number of things, size of the table,
width of the line and distance of a teleport, and for all five keepers, under `Unforced`: the game gives the signs that the keepers read
(`Odd = {}`; findings 15 and 16 are what happens otherwise) and `SharedFor > 1`, the code's 120. Both properties speak of what one
presentation shows, so the invariant, `PoseInv`, is about the table between presentations. A history of thing 1 that can be read again
is of its own places: of this tick (`DrawnNow`: drawn once, its way; drawn twice, none), or of the last one, if it will be taken up at all
(`DrawnLast`, which is where a restarted script, a gap and a shared VM drop out). Enemies and options are `Settled` after the capture and
`LeftBehind` before it, the camera is `Filmed`. For `SteadyWay`, a remembered sprite has a history it will be drawn with (`Followed`). The
rest of the table is dealt with by one relation: whatever another thing does, however often, it `Spares` what is of thing 1, neither
taking its place nor giving it a second one. That all of them do so after each other is induction along the list.

**`SlicingProofs`**, for the stream: `FramesSliceAlike` (`SlicedByFrame`), `StreamsAreStages` (`StreamIsTheStage`) and `PlaybackIsTheRecording`
(`PlaybackReadsOwnTick`), for a display that keeps its rate (finding 4). The stream has no positions of its own, so all three rest on
`StreamInStep`: the number of ticks streamed is a function of the replay frame; while a frame runs, of the frame and the tick, and while the
stage is paused, of the frame that comes next, wherever the schedule has drifted to. That the two agree when a pause begins and ends is
arithmetic of `TickPattern`: the ticks of a frame are those from `FrameTick(f)` to the next frame's (`FrameSteps`, `FrameTickIs`).

For the stepped systems: `SpeedIsAsSet` (`SpeedAsSet`) and `StaysInStep` (`InStep`), with no hypothesis but the constants': every
rate has a unit or more to a tick (`MaxRate <= Span`; 1000 and 15360 in the code). `SpeedInv` says of an open menu which variable
has the speed of before, for each of the three ways in which the games' patches keep it. `InStep` is not inductive in any way,
since it speaks of frame ends only and not of the timers' values before the last call, on which the gates turn. `StepInv ==
SpeedInv /\ LifeInv /\ Alike(PairNow)` does it in three layers. `Past(n, R)` is where tick `n` starts, from the end of the last
frame that has begun: it moves on by each tick's length and back by a frame with each frame (`NextPast`), is within a frame
(`PastBounds`), and at even rates is 0 on each frame's tick (`EvenTicks`). What runs with the ticks moves by the same amounts, so
the distance between the two never changes (`Lagging`); it was less than a frame when the object was born, which is why nothing is
ever a frame away. And every one of the games' sites is of one of sixteen kinds (`EffectsAreKinds`, through the eight tables),
each of which keeps what it has done as a function of where the object's timer was at its last call (`Alike`): the frames its
timer has begun (`Counted`), the n-th frames among them (`Nths`), the amount spread over the ticks (`SpreadFrom`), `Velocity`
times the timer with the fraction carried (`Moves`), from which frame's tick a bullet's delay has run (`Promoted`), or how often the timer was set back (`Jumps`, where the time taken off is
counted in: `Turned`). Each kind's step lemma then needs only the call's arithmetic (`OnceIs`, `BackIs`, `MoveIs`).

For TH08's field: `FieldStaysStock` (`FieldAsStock`), again with no hypothesis but the constants', `MaxRate <= Span` among them. `FieldInv ==
FieldClock /\ Match(field, stock, multiplier, Upto, eased, bent)`: a pause leaves the last tick the player ran on just before a frame's, which
is why the tick a frame resumes on is always the one after it (`ResumedIs`), and the object and the stock game's are related by how far the ticks
have come from the end of the last frame (`Upto`, that is `Past` of the next tick). Where every frame is cut alike the relation is exact
(`Exact` state by state of a bullet, `Swept` of a laser, `Striding` of the player): velocities are whole pixels times the multiplier (`Baked`), so scaling
one to a tick and back loses nothing, and what a bullet is ahead or behind is its velocity times `Upto`, 0 at a frame's end. The case that needs care is the
bullet caught while it spawns: the stock game's is gone on the frame and the field's on the frame's last tick. At other rates it is a bound on the
timers (`Nearby`), with the states in which the two can be found beside each other (the field's bullet goes live up to a frame later), and for a laser the
number of its grazes as a function of its timer at the last call (`Grazing`).

**`ReplaySessionProofs`**: `SettingsComeBack` (`SettingsReturn`, unless the INI is saved during a playback, finding 8) by `Lent`, which says whose the
settings in force are. `PlaybackAsRecorded` (`PlaysAsRecorded`, with a replay manager, a display that keeps its rate and files that can be read again,
finding 7) by `Ruled`: a change that is not applied yet is one asked for at the title (`Applied`), the rate is what settings and playback
give (`InForce`), the stages kept so far were run under what is in force now (`KeptAlike`), the file's stages under the file's settings
(`OneRate`), and a playback runs under those it has borrowed (`Borrowed`). `ReadsItsStreams` (`StreamsOfTheFile`) has no hypothesis: any number of
stages, any room in a stream (`Full`), any longest run (`MaxRun`). The runs of a stream follow each other from its first tick to its
last (`PairsAre`), so that they add up to its length, none of them zero or longer than its byte (`PairsAddUp`), and expand to it (`PairsUnrun`).
What is saved is the streams of the stages the game keeps: with a replay manager these are asked for, and without one no other stage has
a stream, since a new game clears them (`OfTheGame`). The chunk therefore always passes the parser's checks, and gives those streams back
in whichever order the stages come (`InputRead`).

**`FixedFrameProofs`**: `TypeCorrect`, `KeepsMotion` (`MotionKept`) and `FramesAreWhole` (`FrameWhole`). That slices neither lose nor repeat motion rests on
the phase only growing within a frame (`Onward`), as long as the speed is not raised in it, and on each slice starting where the last
one ended (`Sliced`); a whole frame needs besides that the switch thrown when it began still stands (`Kept`).

**`PictureProofs`**: `ShowsThePicture` (`PictureShown`) and `KeepsTextures` (`TexturesKept`), if the patch's own chain can be made whenever it is
wanted (`"chain" \notin Faults`, finding 10), by `PictureInv`: a device always has its picture arranged, handed over or drawn on the target and
scaled to the chain decided on (`Arranges`), and 9Ex is used only where a chain of its own was decided on (`Decided`). `QuadsFadeApart` (`FadedApart`),
without the habits of findings 17 to 19 and with no nest deeper than the callers kept, by `DrawInv`: what may be drawn next is of the
batch's class (`OfItsClass`), since a VM that has drawn a child draws no more (`Nesting`), the veil is due as long as nothing of
the world is drawn, and once it is laid what waits is of the world (`LayersApart`).

The copies of textures are proved about for any number of textures and working textures, any budget and any size of the table, but not without a
hypothesis, since the code is wrong (findings 9 and 22). What is assumed is `Lapses = {}`: the calls that lose the entry they hold are left
out, and nothing else. `BindsFresh` (`FreshBind`) assumes besides that the working textures can be made; `OwnsCopies` (`CopiesOwned`) lets every call of a
generation fail. While one runs, the place it holds is that of the texture's entry, which has the copy that is being drawn
(`Holds`): dropping the entry of a working texture leaves it there unless it is the last (`HeldKept`). The table has no
texture twice and no copy with two owners (`Table`): dropping entries by moving the last one into the gap keeps all others, once each
(`Keeps`), in whichever order the copy's entry and its owner's go (`ForgetKeeps`). A copy that is not marked is of its texture
as it is, and a texture that is being written is marked (`UpToDate`). The budget is a sum over the table, a recursive function: a table
that differs in one entry differs in that entry's charge (`Differ`), and an entry that is dropped in its own (`ChargeForget`). The loop of
the reset keeps what is left of the copies beyond its index (`Passed`), so that none is left at its end (`LeavesNone`). Both need
induction up to a number, which `UpTo` and `Recursion` derive from the well-foundedness of the natural numbers: a set instead of
a predicate, and a step as a function.

**`InstallProofs`**, for the transaction: `PatchTypes`, `WritesAllOrNothing` (`AllOrNothing`), `LeavesOtherCode` (`OnlyGameCodeReplaced`) and
`GivesProtectionsBack` (`ProtectionsRestored`). `PatchInv == PatchShape /\ Outcome /\ Checked` says that nothing is written before
`WriteAll` and that what the preflight loop has found in the places it has passed is still there: this patch is the only writer once it
commits. For the protections it is joined by `Opened`: after the first `k` patches are open, a page is writable exactly if it is the
page of one of them, and what patch `k` saved is what its page was with `k - 1` open; undoing them from the last restores each page. That
holds only if no place lies across two pages (`OnePage`, an antecedent of the theorem). `patch.c` does not check this; the places of the
passing run satisfy it, and finding 5 is what happens without it.
For the late entry, with any number of threads and imports: `OneThreadWorks`, `HooksWaitForCommit` (`HooksFollowCommit`), `OthersAreKept`
(`OthersStayCalled`), `StandsDownSafely` (`StandsDownHolding`) and `AsksThroughHooks` (`HookedForDirect3D`). The argument is a chain, each
part preserved given those before it. `Exclusive`: one thread is past `busy`, and before the game runs only the main thread reads the
clock. `Installing`: a game that is identified and not installed is being installed by a thread, so no other thread can be at the pass
that would write uncommitted hooks. `OthersStayCalled` follows, a hook never being chained to itself. `Holding`: a pass covers every
import, and no import is taken after the main thread has entered the game. `Hooked`: the main thread has not read the clock without a
pass having been finished, or a thread being about to make one.

Only model-checked:

* `WalkEnds`, `ClockGivenBack`, `SettlesDown` and `SizeFollows` are liveness under fairness, which the prover cannot do;
* the bound on `calls` in `LateEntry`'s `TypeOK`, which the threads' number and `MaxCalls` give.

## 6. Where code and documents differ

Each has a configuration `X.cfg` beside the runs', or a constant of a run's configuration to change, under which TLC shows the
behaviour (`tlc -config X.cfg MCModule`; with `-continue` for the two that name several properties, `FixedFrameStated` of
`MCFixedFrame` and `SlicedSystemsStated` of `MCSlicedSystems`).

1. `FixedFrameStated`, `SlicesWithinFrame`: raising the game speed in the middle of a sliced frame
   moves the bullets more than "exactly one frame" (`hfr64.c:149-151`).
2. `FixedFrameStated`, `SwitchOnIsFree`: switching sub-stepping on moves the bullets twice in that frame
   when it still has two iterations or more to go; `overlay_fixed.c:45-47` and
   `TH06NC_DEVNOTES.md:848` say it costs nothing.
3. `FixedFrameStated`, `NativeCoversGap`: "the native tick will cover that" (`subtick.h:44-46`), but under
   sub-stepping the native tick moves no bullet, nor do the extra ones of a fast forward.
4. `ReplayStream` with `DisplayChanges = TRUE`, `SlicedByFrame`: a device reset at another display rate re-slices a stage that is being
   recorded, which the menu is locked to prevent (`d3d9.c:148`).
5. `PatchTransactionTh14`: a patch that straddles two pages restores the first page's protection
   on both; TH14's three speed sites (`games/th14.c:59-61`) leave page 0x449000 writable.
6. `LateEntryFailed`: after a failed commit the late entry point writes the import hooks one
   by one (`imports.c:66-69`, `install.c:336`).
7. `ReplaySession` with `HasManager = FALSE`, `PlaysAsRecorded`: TH08 names no replay manager, so the menu's simulation switches are not locked while
   a stage is recorded (`overlay.c:176`), as `menu.cpp:424-425` says they are. `ReloadFails = TRUE` (`replay.c:253`) and a display whose rate
   changes (`Displays = {144, 120}`) break the same property; a `failed` slot of another game's stage can also keep a file from being
   written (`replay.c:97-99`).
8. `ReplaySession` with `SavesInPlay = TRUE`, `SettingsReturn`: saving the menu's settings while a replay plays writes the borrowed ones to the INI
   (`overlay.c:223`; `ARCHITECTURE.md:140-141`).
9. `TextureCopies` with `Lapses = {"free"}`, `CopiesOwned` and `FreshBind`: releasing a copy can move its owner's own entry, and the wrong
   one is overwritten (`texscale.c:199`; "owned", `:30`). The owner's entry then goes on giving the released copy. Let one texture
   stay while another is drawn and freed: the working textures' entries follow the first one's. A third is created and drawn, and when the first is
   freed the third's copy takes its place, with the working textures between the copy and its owner, which is last: freeing the owner
   overwrites the wrong entry. With `Lapses = {"reset"}`
   the loop of `texscale_release` (`:237`) steps over a copy that is moved behind it (`CopiesOwned`).
10. `Presentation` with `Faults = {"chain"}`, `TexturesKept`: when `CreateAdditionalSwapChain` fails, 9Ex stays on a chain that is resized through a
    reset (`scaler.c:389-390`, `d3d9.c:440-442`). `PictureShown` fails as well: a rebuild that fails leaves the device's chain showing.
11. `SlicedSystemsStated`, `OnceAFrame`: gates on an object's timer fire every other frame in slow motion
    (`TH12_DEVNOTES.md:459-461`, `x86.c:24`).
12. `SlicedSystemsStated`, `AskedOncePerFrame`: between 60 and 120 Hz at rates like 75, a frame's ticks can add up to less than a
    frame and its hits are lost (`th20.c:84-91`).
13. `SlicedSystemsStated`, `MenuAtFullSpeed`: the pause menus of TH14, TH15 and TH18, opened in slow motion, run slow
    (`th14.c:57`, `speed.c:21`).
14. `SlicedSystemsStated`, `BulletsAsStated`: a TH08 bullet whose behaviour changes its velocity on the call in which it
    goes live has the rest of that move made up with the new one (`th08.c:269`, `:417`).
15. `UpdateList` with `Odd = {"shared"}`, `OwnMotion`: a VM that draws two sprites is drawn between them
    (`fixed_history.h:5`, `:45-46`).
16. `UpdateList` with `Odd = {"offOn"}`, `OwnMotion`: after interpolation was off, an enemy is drawn on the way from where it last
    was (`interpolation.c:2-3`, `:61`).
17. `TextureCopies` with `Habits = {"afterChild"}`, `FadedApart`: a parent's quads after a child of another class are
    faded by the child's (`dimming.c:275-278`, `:302`).
18. `TextureCopies` with `Habits = {"mixed"}`, `FadedApart`: a callback's own quads after a classified VM are not faded
    (`dimming.c:24-26`, `:302`).
19. `TextureCopies` with `AdditiveSource = "srcalpha"`, `FadedApart`: an additive draw is faded twice (`dimming.c:39-40`, `:184`).
20. `MenuInput` with `Surprises = {"resets"}`, `WindowAsAsked`: full screen keeps a frame that the game's reset gave back
    (`window.c:8-11`, `:324`).
21. `MenuInput` with `Surprises = {"switches"}`, `WindowAsAsked`: the style put back is of a mode the game has left
    (`window.c:249-250`, `:263`).
22. `TextureCopies` with `Lapses = {"bind"}`, `FreshBind`: a texture whose entry is the table's last is bound, and the working textures
    have another size: the first one released gives its place to that entry, and the next one made is registered in the place that
    `tex_substitute` holds. `dirty` is cleared on the working texture's entry and its `up`, NULL, is bound (`texscale.c:225`, `:232-234`).
23. `SlicedSystemsStated`, `PromotedAsStock`: a bullet's promotion, gated to frame ticks, does not get "the one stock gets"
    (`th14.c:200-204`): its delay has been measured to start a frame early (`TH14_DEVNOTES.md:976-981`; `th14.c:667-671`). The cause is
    not known, and the model takes the measurement without one.

Seen while modelling, without a run of its own: `hfr_frame` returns at `frame.c:87` when a catch-up
tick makes the game leave. A frame that a replay's fast forward asked for in such a tick stays in
`g_ff_frames`, which `timing.c:16-17` describes as what was asked for "on this presentation", and would
be run after the next one. In `FramePacing` the history variable `quit` sets these calls apart.

## 7. Abstractions, and what is not modelled

Floating point is replaced by exact fractions of a frame: `phase` and `dt` are multiples of
1/256 in the code and exact there; in `FixedFrame` every step divides `Grain`. `unsigned` widths
are left out where the values stay far below 2^32 (`g_lacc` is below `refresh * 100`, plus
1000 * 1600, and `g_units_acc` is below 1000 plus 15360); `g_tick` is only compared with 0. The wall clock
appears as time between calls, in whole units, in `FramePacing` and `FixedFrame`; `FramePacing` keeps no floating-point
rounding of `(now - g_t0) * tick_rate`.

Strings, files' bytes and addresses are abstracted everywhere: a chunk is a record, a size an element of a small set, a
texture or an enemy its address. What each module leaves out of its component is said in section 2.

Not modelled, because they compute a picture, encode instructions or call the system in a straight line and hold no
state whose order a model could check: the image processing of `texscale.c` and `scaler.c` and the shaders' text, the
vertices of internal scaling, diagnostics, launchers, the per-game tables of addresses, the arcs of a quad's corners and the
short way round of a turn (`fixed_quad.h`, `fixed_history.h`), and the Direct3D 8 bridge, which translates calls. The bullets' gates of the x64 runtime
(`hfr64.c:560-660`) depend on the game's own internals, which the repository does not hold, and so do the per-sprite fades of
TH08 and x64. `backends/substep.h` has tests and no user in the runtime. `PoseHistory` and `SlicedSystems` are about one thing at a time; what two
objects do to each other on ticks (collisions) is the game's. So is what reads a stepped timer in the middle of a frame other than at a
patched site: its integer lags there by a frame (`TH14_DEVNOTES.md`, section 8, hazard 10), the notes do not know who reads it (section
15), and `SlicedSystems` compares frame ends. The early promotion of finding 23 is thought to come of that; `InStep` and `StaysInStep` claim no
more than its bound.

Left for the plan below: the joystick's cache and the race of two threads in the DXGI proxy.

## 8. Plan

Done: the schedule with its abstract clock and first proofs; its pacing against the clock; the replay stream on top of it, and
the sessions it is part of; the walk over the update list; the stepped systems of TH10 to TH20 and TH08's field; the x64 frame and the
drawing between frames; the device, the chains, the textures and the dimming; the menu's keys and the window; the transaction and the
late entry, with the proofs of their safety properties.

Next:

1. `JoystickCache` (`input.c`: one word written by a thread and read by another) and `ProxyStart` (`proxy_dxgi.c`: two threads
   making the first factory).
2. The composition of `FramePacing` with `UpdateList`: a catch-up tick that ends in a cut.
3. In which orders of creation, binds and releases textures reach `Overwrites`, `MovesHeld` or `StepsOver` (findings 9 and 22), as a condition
   on the game's calls instead of on the table.
