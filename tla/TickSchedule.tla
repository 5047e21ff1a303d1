----------------------------- MODULE TickSchedule -----------------------------
(***************************************************************************)
(* The tick schedule of the x86 runtime (src/core/timing.c): which game    *)
(* frame a tick belongs to, how far into it the tick starts, how long it   *)
(* is, and how many ticks a presentation is given.                         *)
(*                                                                         *)
(* A tick is a fraction of a game frame, a whole number of 1/UnitsPerFrame *)
(* units.  advance_tick carries the remainder of Span / logicRate from     *)
(* tick to tick (Bresenham), so that a period of Fps frames is exactly     *)
(* logicRate ticks.  The state is g_units_acc (the remainder),             *)
(* g_units_total (where the next tick starts), g_prev_frame (the current   *)
(* tick's frame), g_major, g_phase (in units here), g_dt (a fraction here) *)
(* and g_tick, which the code only compares with 0.                        *)
(*                                                                         *)
(* Abstracted: the movement residuals and player timers the resets clear   *)
(* or keep, which no schedule decision reads; g_last_units, which is       *)
(* g_dt's numerator.  cfg.substep stands for cfg.substep && g_class_count: *)
(* every shipped profile has a class table.                                *)
(***************************************************************************)
EXTENDS Integers

CONSTANTS
    Fps,            \* game frames in a period (60)
    UnitsPerFrame,  \* dyadic units in a frame (256)
    MaxRate,        \* the highest tick rate (1000)
    FullSpeed,      \* the game speed that is real time (100 percent)
    SpeedMin,       \* lowest game speed (10)
    SpeedMax,       \* highest game speed (1600)
    RateInputs,     \* display and replay rates the schedule is asked for
    SpeedInputs,    \* game speeds the player asks for
    FrameInputs     \* replay frame numbers the schedule is moved to

ASSUME ScheduleConstants ==
    /\ Fps \in Nat \ {0}
    /\ UnitsPerFrame \in Nat \ {0}
    /\ MaxRate \in Nat
    /\ Fps <= MaxRate
    /\ FullSpeed \in Nat \ {0}
    /\ SpeedMin \in Nat \ {0}
    /\ SpeedMax \in Nat
    /\ SpeedMin <= FullSpeed
    /\ FullSpeed <= SpeedMax
    /\ RateInputs \subseteq Nat
    /\ SpeedInputs \subseteq Nat
    /\ FrameInputs \subseteq Nat

Span == Fps * UnitsPerFrame

VARIABLES
    substep,     \* cfg.substep
    refresh,     \* g_refresh: presents per second
    logicRate,   \* g_logic_rate: ticks per second
    ticked,      \* g_tick # 0
    major,       \* g_major: this tick is a frame boundary
    phase,       \* g_phase, in units: where in its frame this tick starts
    prevFrame,   \* g_prev_frame: this tick's frame within the period
    unitsAcc,    \* g_units_acc: Bresenham remainder
    unitsTotal,  \* g_units_total: where in the period the next tick starts
    dt,          \* g_dt: this tick's length, <<n, d>> for n/d of a frame
    walk,        \* the frame schedule_to_frame is walking to, or NoWalk
    speed,       \* g_speed_pct
    lacc,        \* g_lacc: ticks owed, in units of refresh * FullSpeed
    anchored,    \* g_t0 # 0: the long-term schedule has an origin
    slots,       \* history: presentations since lacc was last 0 ...
    granted      \* ... and the ticks they were given

sliceVars == <<substep, logicRate, ticked, major, phase, prevFrame,
               unitsAcc, unitsTotal, dt, walk>>
paceVars == <<refresh, speed, lacc, anchored, slots, granted>>
vars == <<sliceVars, paceVars>>

NoWalk == -1
Walking == walk # NoWalk

Clamp(x, lo, hi) == IF x < lo THEN lo ELSE IF x > hi THEN hi ELSE x

\* A tick is less than a frame (ticks_sliced, frame.c).
Sliced == substep /\ logicRate # Fps

Init ==
    /\ substep = TRUE /\ refresh = Fps /\ logicRate = Fps
    /\ ticked = FALSE /\ major = TRUE /\ phase = 0 /\ prevFrame = 0
    /\ unitsAcc = 0 /\ unitsTotal = 0 /\ dt = <<1, 1>> /\ walk = NoWalk
    /\ speed = FullSpeed /\ lacc = 0 /\ anchored = FALSE
    /\ slots = 0 /\ granted = 0
-------------------------------------------------------------------------------
(* Pacing: how many ticks a presentation is given. *)

\* Faulty: the ticks owed at the old rate are carried into the new one.
RestartKeepingLacc == lacc' = lacc /\ slots' = 0 /\ granted' = 0

\* g_lacc = 0: what the next slots are given is counted afresh.
RestartPacing == lacc' = 0 /\ slots' = 0 /\ granted' = 0

\* set_game_speed
SetGameSpeed(pct) ==
    /\ ~Walking
    /\ Clamp(pct, SpeedMin, SpeedMax) # speed
    /\ speed' = Clamp(pct, SpeedMin, SpeedMax)
    /\ anchored' = FALSE
    /\ RestartPacing
    /\ UNCHANGED <<sliceVars, refresh>>

Slot == refresh * FullSpeed
Owed == lacc + logicRate * speed

\* ticks_for_slot: the ticks due at this presentation.
TicksForSlot ==
    /\ ~Walking
    /\ lacc' = Owed - (Owed \div Slot) * Slot
    /\ slots' = IF lacc' = 0 THEN 0 ELSE slots + 1
    /\ granted' = IF lacc' = 0 THEN 0 ELSE granted + Owed \div Slot
    /\ UNCHANGED <<sliceVars, refresh, speed, anchored>>

\* hfr_frame dates the schedule when it has no origin (g_t0 == 0).
Anchor ==
    /\ ~Walking
    /\ ~anchored
    /\ anchored' = TRUE
    /\ UNCHANGED <<sliceVars, refresh, speed, lacc, slots, granted>>
-------------------------------------------------------------------------------
(* Rates. *)

\* set_logic_rate, cfg.substep being sub.
SetLogicRate(sub, rate) ==
    /\ substep' = sub
    /\ logicRate' = IF sub THEN Clamp(rate, Fps, MaxRate) ELSE Fps
    /\ ticked' = FALSE /\ major' = TRUE /\ phase' = 0 /\ prevFrame' = 0
    /\ unitsAcc' = 0 /\ unitsTotal' = 0
    /\ dt' = IF sub THEN <<Fps, logicRate'>> ELSE <<1, 1>>
    /\ anchored' = FALSE
    /\ RestartPacing
    /\ UNCHANGED <<walk, speed>>

\* recompute_rate: the display runs at hz, the menu has left cfg.substep at
\* sub (hfr_ui_set, applied before any tick by hfr_ui_apply_pending), and a
\* playback, if there is one, was recorded at the rate recorded (0: stock).
RecomputeRate(hz, sub, playing, recorded) ==
    LET want == IF ~sub THEN Fps
                ELSE IF ~playing THEN Clamp(hz, Fps, MaxRate)
                ELSE IF recorded = 0 THEN Fps ELSE recorded
    IN  /\ ~Walking
        /\ refresh' = Clamp(hz, Fps, MaxRate)
        /\ \/ /\ want # logicRate \/ ~ticked
              /\ SetLogicRate(sub, want)
           \/ /\ want = logicRate /\ ticked
              /\ substep' = sub
              /\ RestartPacing
              /\ UNCHANGED <<logicRate, ticked, major, phase, prevFrame, unitsAcc,
                             unitsTotal, dt, walk, speed, anchored>>

\* replay_check: a playback begins or ends, its settings come or go, and the
\* rate follows (replay.c).
ReplayRate(sub, rate) ==
    /\ ~Walking
    /\ SetLogicRate(sub, rate)
    /\ UNCHANGED refresh
-------------------------------------------------------------------------------
(* Slices. *)

\* The Bresenham step from a remainder of acc: the units of one tick ...
TickUnits(acc) == (acc + Span) \div logicRate
\* Faulty: the fraction of a unit a tick falls short is forgotten.
TickRestDropped(acc) == 0

\* ... the remainder it leaves ...
TickRest(acc) == acc + Span - TickUnits(acc) * logicRate
\* ... and where in the period the next tick starts.
TickEnd(acc, total) ==
    IF total + TickUnits(acc) >= Span THEN total + TickUnits(acc) - Span
                                      ELSE total + TickUnits(acc)

\* Faulty: the phase is read after the position has moved on.
AdvanceLatePhase ==
    LET cur == unitsTotal \div UnitsPerFrame
    IN  /\ Sliced
        /\ major' = (~ticked \/ cur # prevFrame)
        /\ prevFrame' = cur
        /\ unitsAcc' = TickRest(unitsAcc)
        /\ unitsTotal' = TickEnd(unitsAcc, unitsTotal)
        /\ phase' = unitsTotal' % UnitsPerFrame
        /\ dt' = <<TickUnits(unitsAcc), UnitsPerFrame>>
        /\ ticked' = TRUE
        /\ UNCHANGED <<substep, logicRate>>

\* advance_tick
AdvanceSliced ==
    LET cur == unitsTotal \div UnitsPerFrame
    IN  /\ Sliced
        /\ major' = (~ticked \/ cur # prevFrame)
        /\ prevFrame' = cur
        /\ phase' = unitsTotal % UnitsPerFrame
        /\ unitsAcc' = TickRest(unitsAcc)
        /\ unitsTotal' = TickEnd(unitsAcc, unitsTotal)
        /\ dt' = <<TickUnits(unitsAcc), UnitsPerFrame>>
        /\ ticked' = TRUE
        /\ UNCHANGED <<substep, logicRate>>

AdvanceWhole ==
    /\ ~Sliced
    /\ major' = TRUE /\ dt' = <<1, 1>> /\ phase' = 0 /\ ticked' = TRUE
    /\ UNCHANGED <<substep, logicRate, prevFrame, unitsAcc, unitsTotal>>

AdvanceTick ==
    /\ ~Walking
    /\ AdvanceSliced \/ AdvanceWhole
    /\ UNCHANGED <<walk, paceVars>>

\* The current tick becomes tick 0 of the canonical sequence.
ResetSlices ==
    /\ unitsAcc' = TickRest(0)
    /\ unitsTotal' = TickUnits(0)
    /\ prevFrame' = 0 /\ phase' = 0
    /\ dt' = <<TickUnits(0), UnitsPerFrame>>

\* schedule_reset_here, on the first frame tick of a stage.
ScheduleResetHere ==
    /\ ~Walking
    /\ Sliced /\ ticked /\ major
    /\ ResetSlices
    /\ UNCHANGED <<substep, logicRate, ticked, major, walk, paceVars>>

\* Faulty: the frame is not reduced to its place in the period.
ScheduleToFarFrame(f) ==
    /\ ~Walking
    /\ Sliced /\ ticked /\ major
    /\ ResetSlices
    /\ walk' = IF f = 0 THEN NoWalk ELSE f
    /\ UNCHANGED <<substep, logicRate, ticked, major, paceVars>>

\* schedule_to_frame: reset, then walk the canonical sequence tick by tick
\* to the frame tick of frame f.  Called on a frame tick.
ScheduleToFrame(f) ==
    /\ ~Walking
    /\ Sliced /\ ticked /\ major
    /\ ResetSlices
    /\ walk' = IF f % Fps = 0 THEN NoWalk ELSE f % Fps
    /\ UNCHANGED <<substep, logicRate, ticked, major, paceVars>>

WalkTick ==
    /\ Walking
    /\ AdvanceSliced
    /\ walk' = IF major' /\ prevFrame' = walk THEN NoWalk ELSE walk
    /\ UNCHANGED paceVars
-------------------------------------------------------------------------------
Next ==
    \/ \E pct \in SpeedInputs : SetGameSpeed(pct)
    \/ TicksForSlot
    \/ Anchor
    \/ \E hz \in RateInputs \ {0}, sub \in BOOLEAN, playing \in BOOLEAN,
          recorded \in RateInputs : RecomputeRate(hz, sub, playing, recorded)
    \/ \E sub \in BOOLEAN, rate \in RateInputs : ReplayRate(sub, rate)
    \/ AdvanceTick
    \/ ScheduleResetHere
    \/ \E f \in FrameInputs : ScheduleToFrame(f)
    \/ WalkTick

Spec == Init /\ [][Next]_vars

\* schedule_to_frame is a loop inside one call: nothing stops it half way.
FairSpec == Spec /\ WF_vars(WalkTick)
-------------------------------------------------------------------------------
(* Properties. *)

Fractions == (0 .. Span) \X (1 .. (MaxRate + UnitsPerFrame))

SliceType ==
    /\ substep \in BOOLEAN /\ ticked \in BOOLEAN /\ major \in BOOLEAN
    /\ logicRate \in Fps .. MaxRate
    /\ phase \in 0 .. UnitsPerFrame - 1
    /\ prevFrame \in 0 .. Fps - 1
    /\ unitsAcc \in 0 .. logicRate - 1
    /\ unitsTotal \in 0 .. Span - 1
    /\ dt \in Fractions
    /\ walk \in (0 .. Fps - 1) \cup {NoWalk}

PaceType ==
    /\ refresh \in Fps .. MaxRate
    /\ speed \in SpeedMin .. SpeedMax
    /\ lacc \in 0 .. Slot - 1
    /\ anchored \in BOOLEAN
    /\ slots \in Nat /\ granted \in Nat

TypeOK == SliceType /\ PaceType

\* The index in its period of the tick that comes next.
NextIndex == (unitsTotal * logicRate + unitsAcc) \div Span

Clock == INSTANCE CanonicalClock WITH
            rate <- logicRate, next <- NextIndex,
            frame <- IF ticked THEN prevFrame ELSE -1,
            len <- dt

\* timing.c:44-45, "exactly 60 frames elapse every R ticks": the position and
\* the remainder together are always a whole number of ticks into the
\* period, so no fraction of a unit is ever lost or gained, whatever
\* sequence of ticks, resets, resyncs and rate changes came before.
NoDrift ==
    /\ unitsTotal * logicRate + unitsAcc = NextIndex * Span
    /\ NextIndex < logicRate

\* timing.c:7-11 and 85-91: between two changes of the rates or the speed the
\* presentations are given exactly the ticks their time is worth, to within
\* the one being accumulated.
PacingExact ==
    /\ granted * Slot + lacc = slots * logicRate * speed
    /\ lacc < Slot

\* The incremental schedule is the closed-form one (CanonicalClock.tla): every
\* tick's frame, offset, length and frame-tick flag are functions of its
\* index in the period and of the rate.
ImplementsClock == Clock!Spec

\* The walk of schedule_to_frame always reaches the frame it looks for, so
\* its iteration guard (timing.c:136) is never what ends it.
WalkEnds == Walking ~> ~Walking
===============================================================================
