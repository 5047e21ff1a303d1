----------------------------- MODULE FramePacing ------------------------------
(***************************************************************************)
(* One presentation of the x86 runtime (hfr_frame and run_ff_frames,       *)
(* src/core/frame.c): how many ticks it runs, against the wall clock, and  *)
(* the frames a replay's own fast forward asks for in them.                *)
(*                                                                         *)
(* Time is counted in units of 1/Grain of a presentation slot.  What       *)
(* g_t0 and g_ticks_run stand for is kept as their difference, `behind`:   *)
(* the ticks that should have run by now less those that have, in units    *)
(* of 1/Tick.  The wall clock is read once a call, and after the wait; an  *)
(* abandoned call (hfr_housekeeping) changes nothing but the time, and is  *)
(* part of the time to the next.  The tick in progress is its index cur    *)
(* in the canonical sequence (CanonicalClock.tla).                         *)
(*                                                                         *)
(* Every profile with a frame hook can run a tick without drawing it       *)
(* (catchup_available), so the two caps at one tick are left out.          *)
(***************************************************************************)
EXTENDS TickPattern

CONSTANTS
    Refresh,      \* g_refresh
    FullSpeed,    \* the game speed that is real time (100)
    RateInputs,   \* tick rates: the display's, or a recording's
    SpeedInputs,  \* game speeds
    Grain,        \* units of time in a presentation slot
    Elapses,      \* units of time that may pass between two calls
    Window,       \* how far g_next may be off (0.25 s)
    Slack,        \* ticks behind or ahead that count as a stall (60)
    Hysteresis,   \* ticks behind or ahead that are left alone (6)
    MaxFF,        \* frames of fast forward a presentation (16)
    Burst         \* how far presentations come early or late in ordinary
                  \* running: the compositor's queue (a bound)

ASSUME PacingConstants ==
    /\ {Refresh, FullSpeed, Grain} \subseteq Nat \ {0}
    /\ RateInputs \subseteq Rates /\ SpeedInputs \subseteq Nat \ {0}
    /\ Elapses \subseteq Nat
    /\ {Window, Slack, Hysteresis, MaxFF, Burst} \subseteq Nat /\ MaxFF > 0

VARIABLES
    rate,       \* g_logic_rate
    speed,      \* g_speed_pct
    lacc,       \* g_lacc
    anchored,   \* g_t0 # 0
    behind,     \* (now - g_t0) * tick_rate - g_ticks_run
    vsync,      \* cfg.vsync && g_vsync_effective
    wait,       \* g_next - now; beyond Window if it is unset
    ticked,     \* g_tick # 0
    cur,        \* the current tick's index in its period
    pc,         \* "game", or where in hfr_frame: "catching" up, "drawing" the
                \* game's frame, "forward" in run_ff_frames
    due,        \* n: the ticks of this presentation ...
    left,       \* ... and those still to run before the one that is drawn
    ffFrames,   \* g_ff_frames
    ffDone,     \* run_ff_frames' done and majors
    majors,
    asked,      \* history: frames asked for and not yet forgotten ...
    extra,      \* ... and frames begun by run_ff_frames
    quit,       \* history: a tick has made the game leave before it was drawn
    slip,       \* history: how late the last presentation was for its slot
    disturbed,  \* history: a stall or a setting came before this presentation
    corrected   \* history: it was given a tick more or less than its slot's

clockVars == <<lacc, anchored, behind, wait>>
setVars == <<rate, speed, vsync>>
tickVars == <<ticked, cur>>
callVars == <<due, left>>
ffVars == <<ffFrames, ffDone, majors, asked, extra>>
slotVars == <<slip, disturbed, corrected>>
vars == <<clockVars, setVars, tickVars, pc, callVars, ffVars, quit, slotVars>>

Slot == Refresh * FullSpeed
Tick == Slot * Grain
Worth == rate * speed     \* of a unit of time, in the units of `behind`
Unset == -(Window + 1)

Sliced == rate # Fps

Init ==
    /\ rate \in RateInputs /\ speed = FullSpeed /\ vsync \in BOOLEAN
    /\ lacc = 0 /\ anchored = FALSE /\ behind = 0 /\ wait = Unset
    /\ ticked = FALSE /\ cur = 0
    /\ pc = "game" /\ due = 0 /\ left = 0
    /\ ffFrames = 0 /\ ffDone = 0 /\ majors = 0 /\ asked = 0 /\ extra = 0
    /\ quit = FALSE
    /\ slip = 0 /\ disturbed = FALSE /\ corrected = FALSE
-------------------------------------------------------------------------------
(* Ticks. *)

\* advance_tick: the index it moves to, and whether that is a frame tick.
Advanced == IF ~Sliced THEN cur ELSE IF ~ticked THEN 0 ELSE (cur + 1) % rate
AdvancesFrame ==
    ~Sliced \/ ~ticked \/ FrameAt(Advanced, rate) # FrameAt(cur, rate)

\* advance_tick and a pass over the update list, in which the node that fast
\* forwards a replay asks for another frame or does not.  An unsliced tick
\* runs the frame in the pass itself.
RunTick(asks) ==
    /\ asks => Sliced /\ AdvancesFrame
    /\ cur' = Advanced /\ ticked' = TRUE

\* Counts of frames beyond MaxFF are alike.
Count(k) == IF k > MaxFF THEN k ELSE k + 1

CountRequest(asks) ==
    /\ ffFrames' = IF asks THEN Count(ffFrames) ELSE ffFrames
    /\ asked' = IF asks THEN Count(asked) ELSE asked
-------------------------------------------------------------------------------
(* How many ticks a presentation runs. *)

SlackNow == Slack * (IF speed > FullSpeed THEN speed \div FullSpeed ELSE 1)

\* Faulty: only a schedule that has fallen behind is dated again.
StalledBehind(deficit) == deficit > SlackNow

\* A stall, a clock that jumped, or a machine that cannot keep up.
Stalled(deficit) == deficit > SlackNow \/ deficit < -SlackNow

\* Faulty: every tick the clock is off is taken for a missed frame.
CorrectionAtOnce(deficit, n) ==
    IF deficit > 0 THEN 1 ELSE IF deficit < 0 /\ n > 0 THEN -1 ELSE 0

\* A tick more or less than the slot's, beyond the hysteresis.
Correction(deficit, n) ==
    IF deficit > Hysteresis THEN 1
    ELSE IF deficit < -Hysteresis /\ n > 0 THEN -1 ELSE 0

\* How late the presentation is, time having passed; a slip beyond Burst is
\* a disturbance and later ones are counted from it.
Slips(time) == slip + time - Grain
InBurst(s) == -Burst <= s /\ s <= Burst

\* hfr_frame up to its ticks, e units of time after the last.
Frame(e) ==
    LET dated == IF anchored THEN behind + e * Worth ELSE 0
        from == IF Stalled(dated \div Tick) THEN 0 ELSE dated
        next == IF wait - e < -Window \/ wait - e > Window THEN 0 ELSE wait - e
        hold == IF ~vsync /\ next > 0 THEN next ELSE 0
        now == from + hold * Worth
        n == (lacc + Worth) \div Slot
        c == Correction(now \div Tick, n)
        late == Slips(e + hold)
    IN  /\ pc = "game"
        /\ anchored' = TRUE
        /\ behind' = now
        /\ wait' = IF ~vsync THEN next - hold + Grain
                   ELSE IF wait - e < Unset THEN Unset ELSE wait - e
        /\ lacc' = lacc + Worth - n * Slot
        /\ due' = n + c
        /\ left' = IF n + c > 1 THEN n + c - 1 ELSE 0
        /\ pc' = IF n + c > 1 THEN "catching" ELSE "drawing"
        /\ corrected' = (c # 0)
        /\ slip' = IF InBurst(late) THEN late ELSE 0
        /\ disturbed' = ~InBurst(late)
        /\ quit' = (quit /\ ffFrames > 0)
        /\ UNCHANGED <<setVars, tickVars, ffVars>>

\* A tick that is not drawn.  If it makes the game leave, the call returns.
CatchUp(asks, leaves) ==
    /\ pc = "catching"
    /\ RunTick(asks) /\ CountRequest(asks)
    /\ left' = IF leaves THEN 0 ELSE left - 1
    /\ due' = IF leaves THEN 0 ELSE due
    /\ pc' = IF leaves THEN "game" ELSE IF left = 1 THEN "drawing" ELSE "catching"
    /\ quit' = (quit \/ leaves)
    /\ disturbed' = (disturbed \/ leaves)
    /\ UNCHANGED <<clockVars, setVars, ffDone, majors, extra, slip, corrected>>

\* The game's own frame: the last tick, if one is due, and the drawing.
Draw(asks) ==
    /\ pc = "drawing"
    /\ IF due >= 1 THEN RunTick(asks) /\ CountRequest(asks)
                   ELSE ~asks /\ UNCHANGED <<tickVars, asked, ffFrames>>
    /\ behind' = behind - due * Tick
    /\ due' = 0
    /\ pc' = IF ffFrames' > 0 THEN "forward" ELSE "game"
    /\ UNCHANGED <<lacc, anchored, wait, setVars, left, ffDone, majors, extra,
                   quit, slotVars>>
-------------------------------------------------------------------------------
(* run_ff_frames. *)

\* Faulty: a frame of fast forward ends with the frame in progress.
FrameRunToBoundary == ffDone > 0 /\ AdvancesFrame

\* A frame asked for is the rest of the one in progress and the next one
\* whole: the tick to come is a second frame tick.
FrameRun == ffDone > 0 /\ majors > 0 /\ AdvancesFrame

MayForward == ffFrames > 0 /\ ffDone < MaxFF

ForwardOver ==
    /\ ffFrames' = 0 /\ ffDone' = 0 /\ majors' = 0 /\ asked' = 0 /\ extra' = 0
    /\ pc' = "game"

\* The next frame asked for.
ForwardFrame ==
    /\ pc = "forward" /\ (ffDone = 0 \/ FrameRun) /\ MayForward
    /\ ffFrames' = ffFrames - 1 /\ ffDone' = Count(ffDone) /\ majors' = 0
    /\ UNCHANGED <<clockVars, setVars, tickVars, pc, callVars, asked, extra, quit,
                   slotVars>>

ForwardTick(asks, leaves) ==
    /\ pc = "forward" /\ ffDone > 0 /\ ~FrameRun
    /\ RunTick(asks)
    /\ IF leaves
       THEN ForwardOver
       ELSE /\ CountRequest(asks)
            /\ majors' = IF AdvancesFrame THEN majors + 1 ELSE majors
            /\ extra' = IF AdvancesFrame THEN Count(extra) ELSE extra
            /\ UNCHANGED <<ffDone, pc>>
    /\ quit' = (quit \/ leaves)
    /\ UNCHANGED <<clockVars, setVars, callVars, slotVars>>

\* None is left, or as many have been run as a presentation may.
ForwardEnds ==
    /\ pc = "forward" /\ (ffDone = 0 \/ FrameRun) /\ ~MayForward
    /\ ForwardOver
    /\ UNCHANGED <<clockVars, setVars, tickVars, callVars, quit, slotVars>>
-------------------------------------------------------------------------------
(* What changes between two presentations. *)

\* set_game_speed
SetGameSpeed(s) ==
    /\ pc = "game" /\ s # speed
    /\ speed' = s /\ lacc' = 0
    /\ anchored' = FALSE /\ behind' = 0
    /\ disturbed' = TRUE
    /\ UNCHANGED <<wait, rate, vsync, tickVars, pc, callVars, ffVars, quit, slip,
                   corrected>>

SetLogicRate(r) ==
    /\ rate' = r /\ lacc' = 0
    /\ anchored' = FALSE /\ behind' = 0 /\ ticked' = FALSE /\ cur' = 0

\* recompute_rate, from the menu or a device that is created again.
RecomputeRate(r) ==
    /\ pc = "game"
    /\ IF r # rate \/ ~ticked
       THEN SetLogicRate(r)
       ELSE lacc' = 0 /\ UNCHANGED <<rate, anchored, behind, tickVars>>
    /\ disturbed' = TRUE
    /\ UNCHANGED <<wait, speed, vsync, pc, callVars, ffVars, quit, slip, corrected>>

\* replay_check: a playback has begun or ended.
ReplayRate(r) ==
    /\ pc = "game"
    /\ SetLogicRate(r)
    /\ disturbed' = TRUE
    /\ UNCHANGED <<wait, speed, vsync, pc, callVars, ffVars, quit, slip, corrected>>

\* The menu's switch, and limiter_stats when vsync turns out not to pace.
SetVSync ==
    /\ pc = "game"
    /\ vsync' = ~vsync
    /\ disturbed' = TRUE
    /\ UNCHANGED <<clockVars, rate, speed, tickVars, pc, callVars, ffVars, quit, slip,
                   corrected>>

Forward ==
    \/ ForwardFrame
    \/ ForwardEnds
    \/ \E asks, leaves \in BOOLEAN : ForwardTick(asks, leaves)

Presentation ==
    \/ \E e \in Elapses : Frame(e)
    \/ \E asks, leaves \in BOOLEAN : CatchUp(asks, leaves)
    \/ \E asks \in BOOLEAN : Draw(asks)
    \/ Forward

Next ==
    \/ Presentation
    \/ \E s \in SpeedInputs : SetGameSpeed(s)
    \/ \E r \in RateInputs : RecomputeRate(r) \/ ReplayRate(r)
    \/ SetVSync

Spec == Init /\ [][Next]_vars

\* The game calls the frame function for as long as it runs.
FairSpec == Spec /\ WF_vars(Presentation)
-------------------------------------------------------------------------------
(* Properties. *)

\* Ticks of the longest slot there is, and one to catch up.
MaxDue == 1 + (MaxRate * speed + Slot - 1) \div Slot

TypeOK ==
    /\ rate \in RateInputs /\ speed \in SpeedInputs \cup {FullSpeed}
    /\ {anchored, vsync, ticked, quit, disturbed, corrected} \subseteq BOOLEAN
    /\ lacc \in 0 .. Slot - 1
    /\ behind \in Int /\ wait \in Unset .. Window + Grain
    /\ cur \in 0 .. rate - 1
    /\ pc \in {"game", "catching", "drawing", "forward"}
    /\ due \in 0 .. MaxDue /\ left \in 0 .. MaxDue
    /\ {ffFrames, ffDone, asked, extra} \subseteq 0 .. MaxFF + 1
    /\ majors \in 0 .. 1
    /\ slip \in -Burst .. Burst

\* frame.c:58-64: the schedule is never further from the wall clock than the
\* slack and the presentation in progress, whatever stalls, bursts of
\* presentations and changes of speed there are: neither an unpaid debt nor
\* an advance is kept that would be worked off for longer.
NearTheClock ==
    anchored /\ pc = "game" =>
        /\ behind <= (SlackNow + 1) * Tick + Grain * Worth
        /\ behind >= -(SlackNow + MaxDue) * Tick

\* TH12_DEVNOTES.md 4.4 (frame.c:84-85): presentations that come in bursts are
\* not missed frames.  Once nothing disturbs the game, the slots' own ticks
\* are all it is given: what a stall left is worked off without swinging to
\* the other side, and no correction follows for ever.
SettlesDown == <>[]~disturbed => <>[]~corrected

\* frame.c:18-23: each frame a replay's fast forward asks for is run whole, up to
\* the limit, and no other: fast forward begins as many frames as it was
\* asked for and ends where one ends, wherever in a frame it began.
ForwardsWholeFrames ==
    [][ForwardEnds /\ ~quit
          => /\ extra = (IF asked < MaxFF THEN asked ELSE MaxFF)
             /\ AdvancesFrame]_vars
===============================================================================
