----------------------------- MODULE ReplayStream -----------------------------
(***************************************************************************)
(* Recording and playing back the input of every tick (src/core/input.c,   *)
(* src/backends/update_runner.c, src/core/replay.c).                       *)
(*                                                                         *)
(* While ticks are sliced, the movement bits of every tick of an active    *)
(* frame -- one on whose frame tick the game's record or playback node     *)
(* advanced the replay -- are pushed to a stream without any position of   *)
(* their own.  A playback reads entry i on its i-th tick.  So the two      *)
(* agree only if both cut every frame into the same ticks, although each   *)
(* pauses where it likes and pauses let ticks go by that are no frame's.   *)
(*                                                                         *)
(* The schedule is CanonicalClock's, by the index cur of the current tick  *)
(* in its period.  An entry of a stream is abstracted to the tick it was   *)
(* recorded on, <<replay frame, index>>: a playback is right when it reads *)
(* its own.  One stage is modelled; cfg.substep and cfg.subtick_input are  *)
(* on; fast forward runs the same ticks (run_ff_frames), sooner.           *)
(***************************************************************************)
EXTENDS TickPattern, Sequences

CONSTANTS
    MaxFrame,        \* frames a stage lasts (a bound)
    RateInputs,      \* rates the display or the menu asks for
    DisplayChanges   \* the display's rate may change while a stage is recorded

ASSUME StreamConstants ==
    /\ Fps > 1
    /\ MaxFrame \in Nat
    /\ RateInputs \subseteq Rates
    /\ DisplayChanges \in BOOLEAN

VARIABLES
    rate,         \* g_logic_rate
    ticked,       \* g_tick # 0
    cur,          \* the current tick's index in its period
    major,        \* g_major
    replayFrame,  \* the replay manager's frame counter; NoManager without one
    playing,      \* REPLAY_MODE(rm) = 1
    active,       \* g_frame_active
    streaming,    \* g_stream_stage >= 0
    streamTick,   \* g_stream_tick
    rec,          \* g_rec[stage]
    saved,        \* the stream in the replay file ...
    savedRate,    \* ... and its rate
    frameNo       \* history: the replay frame the current frame is

streamVars == <<active, streaming, streamTick, rec>>
fileVars == <<saved, savedRate>>
vars == <<rate, ticked, cur, major, replayFrame, playing, streamVars, fileVars, frameNo>>

NoManager == -1
Sliced == rate # Fps

Init ==
    /\ rate = Fps /\ ticked = FALSE /\ cur = 0 /\ major = TRUE
    /\ replayFrame = NoManager /\ playing = FALSE
    /\ active = FALSE /\ streaming = FALSE /\ streamTick = 0 /\ rec = <<>>
    /\ saved = <<>> /\ savedRate = Fps
    /\ frameNo = 0
-------------------------------------------------------------------------------
(* Ticks. *)

\* advance_tick: the index it moves to, and whether that is a frame tick.
Advanced == IF ~Sliced THEN cur ELSE IF ~ticked THEN 0 ELSE (cur + 1) % rate
AdvancesFrame ==
    ~Sliced \/ ~ticked \/ FrameAt(Advanced, rate) # FrameAt(cur, rate)

\* Faulty: the ticks of a pause count as the stage's.
SubtickInPause(inFrame, inStage) ==
    Sliced /\ replayFrame # NoManager /\ inStage

\* subtick_active
SubtickActive(inFrame, inStage) ==
    Sliced /\ replayFrame # NoManager /\ inFrame /\ inStage

\* subtick_input_end: the tick's bits go to the stream of a recording.
EndOfTick(tick) ==
    /\ streamTick' = streamTick + 1
    /\ rec' = IF playing THEN rec ELSE Append(rec, tick)

\* Faulty: a pause leaves the schedule where it drifted to.
NeverResyncs == FALSE

\* pause_resync_begin moves the schedule on this frame tick.
Resyncs == ~active /\ Sliced /\ streaming /\ replayFrame > 0

\* A frame tick on which the game advances the replay.  replay_stage_start
\* restarts the schedule and the stream on the stage's first.
FrameTickRuns ==
    /\ AdvancesFrame
    /\ replayFrame \in 0 .. MaxFrame - 1
    /\ cur' = IF replayFrame = 0 THEN 0
              ELSE IF Resyncs THEN FrameTick(replayFrame % Fps, rate)
              ELSE Advanced
    /\ ticked' = TRUE /\ major' = TRUE /\ active' = TRUE
    /\ frameNo' = replayFrame /\ replayFrame' = replayFrame + 1
    /\ streaming' = (streaming \/ replayFrame = 0)
    /\ IF replayFrame = 0
       THEN /\ streamTick' = IF Sliced THEN 1 ELSE 0
            /\ rec' = IF playing THEN rec ELSE IF Sliced THEN <<<<0, 0>>>> ELSE <<>>
       ELSE IF SubtickActive(TRUE, streaming)
       THEN EndOfTick(<<replayFrame, cur'>>)
       ELSE UNCHANGED <<streamTick, rec>>
    /\ UNCHANGED <<rate, playing, fileVars>>

\* A frame tick on which it does not: a pause, a menu, no stage.  What
\* pause_resync_begin moved, pause_resync_end takes back.
FrameTickIdle ==
    /\ AdvancesFrame
    /\ cur' = Advanced
    /\ ticked' = TRUE /\ major' = TRUE /\ active' = FALSE
    /\ UNCHANGED <<rate, replayFrame, playing, streaming, streamTick, rec, fileVars,
                   frameNo>>

\* A tick inside a frame.
MinorTick ==
    /\ ~AdvancesFrame
    /\ cur' = Advanced
    /\ ticked' = TRUE /\ major' = FALSE
    /\ IF SubtickActive(active, streaming)
       THEN EndOfTick(<<frameNo, cur'>>)
       ELSE UNCHANGED <<streamTick, rec>>
    /\ UNCHANGED <<rate, replayFrame, playing, active, streaming, fileVars, frameNo>>

\* What subtick_input_begin feeds a playback on a minor tick: its stream's
\* entry, or nothing when the stream is over.
Fed == IF streamTick < Len(saved) THEN {saved[streamTick + 1]} ELSE {}
-------------------------------------------------------------------------------
(* Sessions. *)

\* set_logic_rate
SetLogicRate(r) ==
    /\ rate' = r /\ ticked' = FALSE /\ cur' = 0 /\ major' = TRUE

\* recompute_rate, when the wanted rate is r.
Recompute(r) == IF r # rate \/ ~ticked THEN SetLogicRate(r)
                                       ELSE UNCHANGED <<rate, ticked, cur, major>>

\* The menu sets the rate; hfr_ui_simulation_locked keeps it from doing so
\* while a stage is running.
UiRate(r) ==
    /\ replayFrame = NoManager /\ ~playing
    /\ Recompute(r)
    /\ UNCHANGED <<replayFrame, playing, streamVars, fileVars, frameNo>>

\* after_device: the device is reset or created again, at the display's rate,
\* which while a stage is recorded is a new one only if DisplayChanges.
DeviceReset(r) ==
    /\ replayFrame # NoManager /\ ~playing /\ r # rate => DisplayChanges
    /\ Recompute(IF playing THEN savedRate ELSE r)
    /\ UNCHANGED <<replayFrame, playing, streamVars, fileVars, frameNo>>

\* The game starts the stage, or starts it again, to record it.
BeginStage ==
    /\ ~playing /\ replayFrame # 0
    /\ replayFrame' = 0
    /\ UNCHANGED <<rate, ticked, cur, major, playing, streamVars, fileVars, frameNo>>

\* Faulty: the recorded rate is not taken.
BeginPlaybackAtOwnRate ==
    /\ replayFrame = NoManager /\ saved # <<>>
    /\ playing' = TRUE /\ replayFrame' = 0
    /\ UNCHANGED <<rate, ticked, cur, major, streamVars, fileVars, frameNo>>

\* hfr_replay_load, and replay_check on the playback it begins.
BeginPlayback ==
    /\ replayFrame = NoManager /\ saved # <<>>
    /\ playing' = TRUE /\ replayFrame' = 0
    /\ SetLogicRate(savedRate)
    /\ UNCHANGED <<streamVars, fileVars, frameNo>>

\* hfr_replay_save: the rate written is the one at that time.
SaveReplay ==
    /\ ~playing /\ replayFrame > 0 /\ Sliced
    /\ saved # rec
    /\ saved' = rec /\ savedRate' = rate
    /\ UNCHANGED <<rate, ticked, cur, major, replayFrame, playing, streamVars, frameNo>>

\* The stage is left, and replay_check ends the playback if it was one.
LeaveStage(r) ==
    /\ replayFrame # NoManager
    /\ replayFrame' = NoManager /\ playing' = FALSE
    /\ IF playing THEN SetLogicRate(r) ELSE UNCHANGED <<rate, ticked, cur, major>>
    /\ UNCHANGED <<streamVars, fileVars, frameNo>>

Next ==
    \/ FrameTickRuns
    \/ FrameTickIdle
    \/ MinorTick
    \/ BeginStage
    \/ BeginPlayback
    \/ SaveReplay
    \/ \E r \in RateInputs : UiRate(r) \/ DeviceReset(r) \/ LeaveStage(r)

Spec == Init /\ [][Next]_vars
-------------------------------------------------------------------------------
(* Properties. *)

TypeOK ==
    /\ rate \in Rates /\ savedRate \in Rates
    /\ cur \in 0 .. rate - 1
    /\ replayFrame \in NoManager .. MaxFrame
    /\ {ticked, major, playing, active, streaming} \subseteq BOOLEAN
    /\ streamTick \in Nat /\ frameNo \in 0 .. MaxFrame
    /\ rec \in Seq(Nat \X Nat) /\ saved \in Seq(Nat \X Nat)

\* timing.c:110-112 and REPLAYS.md, "pausing, while recording or watching, does
\* not change how the rest of the stage is sliced at any rate": while a frame of
\* the stage runs, the current tick is the one the canonical sequence has in
\* that replay frame, and as many ticks have been streamed as it has before
\* that -- whatever pauses, retries and sessions went before.
SlicedByFrame ==
    active /\ Sliced /\ replayFrame > 0
       => /\ FrameAt(cur, rate) = frameNo % Fps
          /\ streamTick = (frameNo \div Fps) * rate + cur + 1

\* A playback of the stage reads, on every tick, the bits recorded on that very
\* tick (input.c, subtick_input_begin), for as long as the recording lasted.
PlaybackReadsOwnTick ==
    [][MinorTick /\ playing /\ replayFrame > 0 /\ SubtickActive(active, streaming)
          => Fed \subseteq {<<frameNo, cur'>>}]_vars

\* A saved stream is the ticks of the stage from the first, none missing and
\* none twice: entry i was recorded on tick i of the stage.
StreamIsTheStage ==
    \A i \in 1 .. Len(saved) :
        (saved[i][1] \div Fps) * savedRate + saved[i][2] = i - 1
===============================================================================
