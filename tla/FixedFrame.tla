------------------------------ MODULE FixedFrame ------------------------------
(***************************************************************************)
(* One game frame of the x64 runtime (src/hfr64.c, src/backends/           *)
(* fixed_clock.h, src/backends/subtick.h, src/ui/overlay_fixed.c).         *)
(*                                                                         *)
(* The game's own update runs once per frame of a 60 Hz clock, at most     *)
(* once per iteration of its outer loop, and the iterations come as fast   *)
(* as the display.  With `substep` the native pass moves no bullet: the    *)
(* iterations move them slice by slice instead (projectiles_slice).  With  *)
(* `subtick` they move the player so (subtick_move).                       *)
(*                                                                         *)
(* Time.  The clock's `next` is kept as `due`, the time left until it, so  *)
(* that a run of any length has finitely many states; tau (completed ticks *)
(* plus phase) and each moved_to are kept relative to `ticks`, in units of *)
(* 1/Grain of a frame.  A moved_to three frames back or more stands for    *)
(* all earlier ones: the slice from it is dropped whatever it is.          *)
(*                                                                         *)
(* Abstracted: floating-point rounding (every step divides Grain), the     *)
(* input word and the direction the player moves in, diagnostics.          *)
(***************************************************************************)
EXTENDS Integers

CONSTANTS
    FrameTime,     \* time units in a frame at full speed
    FullSpeed,     \* the game speed that is real time (100 percent)
    Grain,         \* units a frame's phase is measured in
    WaitInputs,    \* times between two iterations
    MaxAhead,      \* how far a 60 Hz display's clock runs ahead of time
    SpeedInputs,   \* game speeds asked for
    RateInputs,    \* whether the rate asked for is above 60
    SubstepInputs, \* values the sub-step switch starts with and is set to
    SubtickInputs, \* values the sub-tick switch starts with and is set to
    MaxExtra,      \* extra native updates after one (seven in the game)
    GuardMayFail   \* the draw guard may see the draw change the game's state

Step(s) == (FrameTime * FullSpeed) \div s

ASSUME FixedConstants ==
    /\ FrameTime \in Nat \ {0} /\ FullSpeed \in Nat \ {0}
    /\ Grain \in Nat \ {0} /\ WaitInputs \subseteq Nat \ {0}
    /\ MaxAhead \in Nat /\ MaxExtra \in Nat
    /\ SpeedInputs \subseteq Nat \ {0}
    /\ \A s \in SpeedInputs \cup {FullSpeed} :
          Step(s) > 0 /\ Step(s) * s = FrameTime * FullSpeed /\ Grain % Step(s) = 0
    /\ RateInputs \subseteq BOOLEAN /\ SubstepInputs \subseteq BOOLEAN
    /\ SubtickInputs \subseteq BOOLEAN
    /\ GuardMayFail \in BOOLEAN

VARIABLES
    stage,        \* where the outer loop is: "loop" or "updated"
    major,        \* the last iteration ran the game's update
    due,          \* clock.next - now
    started,      \* clock.next # 0
    phase,        \* phase of the last iteration, in 1/Grain frames
    speed,        \* speed_pct
    fast,         \* rate > 60
    pendingRate,  \* pending_rate
    wantFast,     \* the rate set_rate will choose is above 60
    guardFailed,  \* guard_failed
    substep,      \* the sub-stepped projectiles switch
    subtick,      \* the sub-tick player switch
    projDt,       \* *proj_dt = 1 at the native pass: it moves the bullets
    projArmed,    \* proj_slice.armed
    projTo,       \* proj_slice.moved_to - ticks
    playerArmed,  \* subtick_player.armed
    playerTo,     \* subtick_player.moved_to - ticks
    extras,       \* update_extra calls since the native pass
    projMoved,    \* history: bullet motion since the native pass began
    playerLag,    \* history: player motion less time elapsed, this frame
    rushed,       \* history: this frame saw the speed raised, or an extra update
    switched,     \* history: who moves the bullets changed in this frame
    uncovered     \* history: the last slice was dropped and nothing makes it up

clockVars == <<due, started, phase, major>>
settings == <<speed, fast, pendingRate, wantFast, guardFailed, substep, subtick>>
sliceVars == <<projDt, projArmed, projTo, playerArmed, playerTo, extras>>
history == <<projMoved, playerLag, rushed, switched, uncovered>>
vars == <<stage, clockVars, settings, sliceVars, history>>

Far == -3 * Grain
Back(to) == IF to - Grain < Far THEN Far ELSE to - Grain
Bounded(x) == IF x < 0 THEN 0 ELSE IF x > Grain THEN Grain ELSE x

\* subtick_active and substep_active, the rate being above 60 or not.
SubtickActive(high) == subtick /\ high /\ ~guardFailed
SubstepActive(high) == substep /\ high /\ ~guardFailed

\* Faulty: a gap is applied however old its start is.
SliceOfAnyGap(to, tau, armed) == IF armed /\ tau > to THEN tau - to ELSE 0

\* Faulty: a gap of a whole frame is dropped.
SliceUnderFrame(to, tau, armed) ==
    IF armed /\ tau > to /\ tau - to < Grain THEN tau - to ELSE 0

\* subtick_slice: how much of a frame to apply when tau is reached.
Slice(to, tau, armed) ==
    IF armed /\ tau > to /\ tau - to <= 2 * Grain THEN tau - to ELSE 0

Init ==
    /\ stage = "loop" /\ major = FALSE
    /\ due = 0 /\ started = FALSE /\ phase = 0
    /\ speed = FullSpeed /\ pendingRate = FALSE
    /\ fast = TRUE /\ wantFast = TRUE /\ guardFailed = FALSE
    /\ substep \in SubstepInputs /\ subtick \in SubtickInputs
    /\ projDt = TRUE /\ projArmed = FALSE /\ projTo = 0
    /\ playerArmed = FALSE /\ playerTo = 0 /\ extras = 0
    /\ projMoved = 0 /\ playerLag = 0
    /\ rushed = FALSE /\ switched = "no" /\ uncovered = FALSE
-------------------------------------------------------------------------------
(* The outer loop. *)

\* set_rate, when one is pending, at the top of update_first.
RateNow == IF pendingRate THEN wantFast /\ ~guardFailed ELSE fast
TakeRate == fast' = RateNow /\ pendingRate' = FALSE

\* fixed_clock_step_at, d after the last iteration: a clock that is new, or
\* more than four frames behind, starts again from now.
DueAt(d) == IF ~started \/ d - due > 4 * Step(speed) THEN 0 ELSE due - d
IsMajor(d) == (~RateNow /\ speed = FullSpeed) \/ DueAt(d) <= 0

PhaseAt(left) == Bounded(((Step(speed) - left) * Grain) \div Step(speed))

\* A gap subtick_slice leaves to the native pass, while that pass moves nothing.
Dropped(tau) ==
    /\ SubstepActive(RateNow) /\ projArmed /\ extras > 0
    /\ tau - projTo > 2 * Grain
    /\ ~projDt

\* update_first when no frame is due: one slice each.
MinorUpdate(d) ==
    LET left == DueAt(d)
        tau == PhaseAt(left)
        playerOn == SubtickActive(RateNow) /\ playerArmed
    IN  /\ stage = "loop" /\ stage' = "updated"
        /\ ~IsMajor(d) /\ major' = FALSE
        /\ due' = left /\ phase' = tau
        /\ projMoved' =
              projMoved + Slice(projTo, tau, SubstepActive(RateNow) /\ projArmed)
        /\ projTo' = tau
        /\ playerTo' = tau
        /\ playerLag' = IF playerOn
                        THEN playerLag + Slice(playerTo, tau, TRUE) - (tau - phase)
                        ELSE 0
        /\ uncovered' = Dropped(tau)
        /\ TakeRate
        /\ UNCHANGED <<started, speed, wantFast, guardFailed, substep, subtick,
                       projDt, projArmed, playerArmed, extras, rushed, switched>>

\* The bullets' motion over the frame that ends when the native pass begins:
\* projectiles_slice finishes it first.
FrameMotion ==
    projMoved + Slice(projTo, Grain, SubstepActive(RateNow) /\ projArmed)

\* update_first when a frame is due: finish the outgoing frame's bullets, run
\* the game's update (in which the player, the bullets, both or neither move:
\* pauses, dialogue, menus), give the player the slice up to now.
MajorUpdate(d, playerRan, projRan) ==
    LET left == DueAt(d) + Step(speed)
        tau == PhaseAt(left)
        playerOn == SubtickActive(RateNow) /\ playerRan
    IN  /\ stage = "loop" /\ stage' = "updated"
        /\ IsMajor(d) /\ major' = TRUE
        /\ left <= MaxAhead
        /\ due' = left /\ phase' = tau /\ started' = TRUE
        /\ projDt' = ~SubstepActive(RateNow)
        /\ projArmed' = projRan
        /\ projTo' = 0
        /\ projMoved' = IF projRan /\ projDt' THEN Grain ELSE 0
        /\ playerArmed' = playerRan
        /\ playerTo' = tau
        /\ playerLag' = IF playerOn /\ ~rushed
                        THEN Slice(Back(playerTo), tau, TRUE) - (Grain + tau - phase)
                        ELSE 0
        /\ extras' = 0
        /\ uncovered' = Dropped(Grain)
        /\ rushed' = FALSE /\ switched' = "no"
        /\ TakeRate
        /\ UNCHANGED <<speed, wantFast, guardFailed, substep, subtick>>

\* update_extra: the game's own fast-forward runs its update again.
UpdateExtra ==
    /\ stage = "updated" /\ major
    /\ extras < MaxExtra
    /\ extras' = extras + 1
    /\ projTo' = Back(projTo) /\ playerTo' = Back(playerTo)
    /\ projMoved' = IF projArmed /\ projDt THEN Grain ELSE 0
    /\ playerLag' = IF playerArmed /\ SubtickActive(fast) THEN playerLag - Grain ELSE 0
    /\ rushed' = TRUE
    /\ UNCHANGED <<stage, clockVars, settings, projDt, projArmed, playerArmed,
                   switched, uncovered>>

\* draw_frame, draw_check: the iteration is drawn, and its guard may fail,
\* which puts the rate at 60 for good.
DrawFrame(fails) ==
    /\ stage = "updated" /\ stage' = "loop"
    /\ guardFailed' = (guardFailed \/ fails)
    /\ fast' = (fast /\ ~guardFailed')
    /\ switched' = IF guardFailed' # guardFailed THEN "other" ELSE switched
    /\ UNCHANGED <<clockVars, speed, pendingRate, wantFast, substep, subtick,
                   sliceVars, projMoved, playerLag, rushed, uncovered>>
-------------------------------------------------------------------------------
(* hfr_ui_set, from the menu drawn with the frame. *)

UiGameSpeed(s) ==
    /\ stage = "loop" /\ s # speed
    /\ speed' = s
    /\ rushed' = (rushed \/ s > speed)
    /\ UNCHANGED <<stage, clockVars, fast, pendingRate, wantFast, guardFailed, substep,
                   subtick, sliceVars, projMoved, playerLag, switched, uncovered>>

UiFps(high) ==
    /\ stage = "loop"
    /\ wantFast' = high /\ pendingRate' = TRUE
    /\ switched' = IF (high /\ ~guardFailed) = fast THEN switched ELSE "other"
    /\ UNCHANGED <<stage, clockVars, speed, fast, guardFailed, substep, subtick,
                   sliceVars, projMoved, playerLag, rushed, uncovered>>

\* The projectiles' moved_to is forgotten: the next slice from it is dropped.
UiSubstep(on) ==
    /\ stage = "loop"
    /\ substep' = on /\ projTo' = Far
    /\ switched' = IF on /\ ~substep /\ switched = "no" THEN "on" ELSE "other"
    /\ UNCHANGED <<stage, clockVars, speed, fast, pendingRate, wantFast, guardFailed,
                   subtick, projDt, projArmed, playerArmed, playerTo, extras,
                   projMoved, playerLag, rushed, uncovered>>

UiSubtick(on) ==
    /\ stage = "loop"
    /\ subtick' = on
    /\ UNCHANGED <<stage, clockVars, speed, fast, pendingRate, wantFast, guardFailed,
                   substep, sliceVars, history>>
-------------------------------------------------------------------------------
UpdateFirst ==
    \E d \in WaitInputs :
        \/ MinorUpdate(d)
        \/ \E playerRan, projRan \in BOOLEAN : MajorUpdate(d, playerRan, projRan)

Draw == \E fails \in {FALSE, GuardMayFail} : DrawFrame(fails)

Next ==
    \/ UpdateFirst
    \/ UpdateExtra
    \/ Draw
    \/ \E s \in SpeedInputs : UiGameSpeed(s)
    \/ \E high \in RateInputs : UiFps(high)
    \/ \E on \in SubstepInputs \ {substep} : UiSubstep(on)
    \/ \E on \in SubtickInputs \ {subtick} : UiSubtick(on)

Spec == Init /\ [][Next]_vars
-------------------------------------------------------------------------------
(* Properties. *)

TypeOK ==
    /\ stage \in {"loop", "updated"} /\ major \in BOOLEAN
    /\ due \in Int /\ due <= MaxAhead
    /\ phase \in 0 .. Grain
    /\ speed \in SpeedInputs \cup {FullSpeed}
    /\ {started, fast, pendingRate, wantFast, guardFailed, substep, subtick, projDt,
        projArmed, playerArmed, rushed, uncovered} \subseteq BOOLEAN
    /\ projTo \in Far .. Grain /\ playerTo \in Far .. Grain
    /\ extras \in 0 .. MaxExtra
    /\ projMoved \in Nat /\ playerLag \in Int
    /\ switched \in {"no", "on", "other"}

NativePass == stage = "loop" /\ stage' = "updated" /\ major'

\* hfr64.c:149-151, "the slices of a frame sum to exactly one frame ... at
\* every native tick the bullets are where the unmodified game would have put
\* them": at any display rate, through stalls, lowered speeds and switches
\* thrown in earlier frames, unless this very frame was rushed or switched.
FrameWhole ==
    [][NativePass /\ projArmed /\ ~rushed /\ switched = "no"
          => FrameMotion = Grain]_vars

\* Whatever the player of the menu does in the middle of a frame, that frame
\* moves the bullets at most one frame too far (TH06NC_DEVNOTES, "at most one
\* extra frame of bullet travel").
ExtraMotionBounded == FrameMotion <= 2 * Grain

\* subtick.h:9-10, "the player still travels one frame's distance": the player's
\* motion keeps up with the clock exactly, through stalls up to the longest
\* gap that is attributed to the frame, pauses and switches.
PlayerKeepsTime == playerLag = 0

\* Unless the speed is raised or the game fast forwards, switches, stalls and
\* failures in the middle of a frame cost the player nothing and the bullets a
\* frame at most (hfr64.c:152-216).
MotionKept == ~rushed => ExtraMotionBounded /\ PlayerKeepsTime

\* hfr64.c:149-151 without the exceptions of FrameWhole: however the speed is
\* set in the middle of a frame, its slices move the bullets one frame at most.
SlicesWithinFrame == FrameMotion <= Grain

\* overlay_fixed.c:45-47, "the frame the switch is thrown in keeps the whole-frame
\* step the native pass already gave it": switching sub-stepping on costs
\* nothing.
SwitchOnIsFree == switched = "on" => FrameMotion <= Grain

\* subtick.h:44-46, a gap too large to attribute to the current frame is
\* dropped because "the native tick will cover that".
NativeCoversGap == ~uncovered
===============================================================================
