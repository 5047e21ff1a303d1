----------------------------- MODULE ReplaySession ----------------------------
(***************************************************************************)
(* Replays across a session (src/core/replay.c, the stage streams of       *)
(* src/core/input.c, the menu's settings in src/ui/overlay.c, and TH08's   *)
(* own hooks in src/games/th08.c).                                         *)
(*                                                                         *)
(* A game is recorded stage by stage, each with the input of its ticks;    *)
(* the save appends the rate, the settings and the streams in force then.  *)
(* A playback reads them back, borrows the settings while the game plays,  *)
(* and gives the player's own back when it ends.  The menu changes the     *)
(* settings, but not in a stage, and writes them to the INI.               *)
(*                                                                         *)
(* One thread.  What a stage's ticks do is in ReplayStream; here a tick    *)
(* records its input bits under the settings of that moment.  The chunks   *)
(* are fields of a record; the run lengths of the input are kept.          *)
(***************************************************************************)
EXTENDS Integers, SequencesExt

CONSTANTS
    Stages,     \* stage numbers
    Bits,       \* values of a tick's input bits
    Settings,    \* settings the player may choose: [substep, subtick, nodes]
    Rates,      \* values of [hfr] fps; 0 follows the display
    Display,    \* the display's rate when the game starts
    Displays,   \* and those a device reset may find
    HasManager, \* the profile names the replay manager (TH08's does not)
    SavesInPlay,\* the player may save the INI while a replay plays
    ReloadFails,\* a file that was playing may be refused when it is started over
    MaxRun,     \* longest run of a pair (255)
    Full        \* ticks a stream holds (3600000)

Nowhere == 0

ASSUME SessionConstants ==
    /\ \A c \in Settings : c.substep \in BOOLEAN
    /\ IsFiniteSet(Stages) /\ Nowhere \notin Stages
    /\ Rates \subseteq Nat /\ Display \in Displays /\ Displays \subseteq Nat
    /\ HasManager \in BOOLEAN /\ SavesInPlay \in BOOLEAN /\ ReloadFails \in BOOLEAN
    /\ MaxRun \in Nat \ {0} /\ Full \in Nat \ {0}

VARIABLES
    cfg,        \* substep, subtick_input and g_sub_enabled
    fps, display, ratePending, refresh, rate,
                \* cfg.fps, g_display_hz, g_pending_rate, g_refresh, g_logic_rate
    borrowed,   \* g_settings_active; when it is set, g_saved_settings in a set
    playing,    \* g_replay_playing
    loaded,     \* what the last load left: g_replay_metadata, g_replay_settings,
                \* g_replay_rate and g_play
    rec,        \* g_rec: the ticks of each stage, and whether it failed
    game,       \* what the game does, in which stage, and the stages it has kept
    ini,        \* settings in the INI
    file,       \* the replay on disk
    ran,        \* history: settings and rates each stage's ticks were run with
    chosen      \* history: the player's settings, now and in the INI

vars == <<cfg, fps, display, ratePending, refresh, rate, borrowed, playing, loaded,
          rec, game, ini, file, ran, chosen>>

Unran == [s \in Stages |-> {}]
Empty == [s \in Stages |-> <<>>]
\* A file of the game without an extension: rate 0, no metadata, no input.
Stock == [rate |-> 0, meta |-> "none", settings |-> <<>>, input |-> <<>>,
          ran |-> Unran, bits |-> Empty]

\* Files of other builds: rate and no metadata, and metadata not understood.
Others == {Stock, [Stock EXCEPT !.rate = 120], [Stock EXCEPT !.rate = 120, !.meta = "bad"]}

Unloaded == [meta |-> "none", settings |-> <<>>, rate |-> 0, play |-> Empty]
Unrecorded == [s \in Stages |-> [d |-> <<>>, failed |-> FALSE]]
Title == [mode |-> "title", stage |-> Nowhere, kept |-> {}]

\* set_logic_rate, recompute_rate: a rate is between 60 and 1000.
Clamp(r) == IF r < 60 THEN 60 ELSE IF r > 1000 THEN 1000 ELSE r

LogicRate(c, want) == IF c.substep THEN Clamp(want) ELSE 60

\* The presentation's rate, of a setting and a display.
RefreshOf(f, hz) == Clamp(IF f > 0 THEN f ELSE hz)

Init ==
    /\ cfg \in Settings /\ fps \in Rates /\ ini = [cfg |-> cfg, fps |-> fps]
    /\ display = Display /\ ratePending = FALSE
    /\ refresh = RefreshOf(fps, Display) /\ rate = LogicRate(cfg, refresh)
    /\ borrowed = {} /\ playing = FALSE
    /\ loaded = Unloaded /\ rec = Unrecorded /\ game = Title
    /\ ran = Unran
    /\ file \in Others /\ chosen = [now |-> cfg, ini |-> cfg]
-------------------------------------------------------------------------------
(* The input chunk. *)

\* A pair's run is a byte.
Byte(n) == n % (MaxRun + 1)

\* Faulty: a run is as long as it is.
RunOfAnyLength(d, i) == CHOOSE j \in i + 1..Len(d) + 1 :
    /\ \A k \in i..j - 1 : d[k] = d[i]
    /\ j = Len(d) + 1 \/ d[j] # d[i]

\* Where the run that begins at i ends.
RunEnd(d, i) == CHOOSE j \in i + 1..Len(d) + 1 :
    /\ j - i <= MaxRun /\ \A k \in i..j - 1 : d[k] = d[i]
    /\ j - i = MaxRun \/ j = Len(d) + 1 \/ d[j] # d[i]

\* Where the runs end, one after the other: the k-th at Bounds(d)[k].
Bounds(d) ==
    LET end[k \in 0..Len(d)] ==
            IF k = 0 THEN 1
            ELSE IF end[k - 1] > Len(d) THEN end[k - 1] ELSE RunEnd(d, end[k - 1])
    IN end

\* replay_build_extension: the pairs of a stage.
Pairs(d) ==
    LET end == Bounds(d)
        n == CHOOSE k \in 0..Len(d) : end[k] > Len(d) /\ \A i \in 0..k - 1 : end[i] <= Len(d)
    IN [k \in 1..n |-> [bits |-> d[end[k - 1]], run |-> Byte(end[k] - end[k - 1])]]

RunsSum(pairs) ==
    LET sum[k \in 0..Len(pairs)] == IF k = 0 THEN 0 ELSE sum[k - 1] + pairs[k].run
    IN sum[Len(pairs)]

\* replay_parse_input_chunk: every stage is validated before one is taken.
Valid(input) ==
    /\ \A k \in DOMAIN input : /\ input[k].n <= Full
                               /\ \A p \in DOMAIN input[k].pairs : input[k].pairs[p].run > 0
                               /\ RunsSum(input[k].pairs) = input[k].n
    /\ \A k, l \in DOMAIN input : input[k].stage = input[l].stage => k = l

Unrun(pairs) ==
    LET ticks[k \in 0..Len(pairs)] ==
            IF k = 0 THEN <<>> ELSE ticks[k - 1] \o [i \in 1..pairs[k].run |-> pairs[k].bits]
    IN ticks[Len(pairs)]

ChunksOf(input, s) == {k \in DOMAIN input : input[k].stage = s}

ParseInput(input) ==
    IF ~Valid(input) THEN Empty
    ELSE [s \in Stages |->
            IF ChunksOf(input, s) = {} THEN <<>>
            ELSE Unrun(input[CHOOSE k \in ChunksOf(input, s) : TRUE].pairs)]
-------------------------------------------------------------------------------
(* Rate and settings. *)

InRange(r) == IF r >= 60 /\ r <= 1000 THEN r ELSE 0

\* hfr_ui_apply_pending, recompute_rate
Recompute ==
    /\ refresh' = IF ratePending THEN RefreshOf(fps, display) ELSE refresh
    /\ ratePending' = FALSE

\* recompute_rate
RateAt(hz) == LogicRate(cfg, IF ~playing THEN hz
                             ELSE IF loaded.rate > 0 THEN loaded.rate ELSE 60)

Recomputed == IF ratePending THEN RateAt(refresh') ELSE rate

\* restore_replay_settings
Restored == IF borrowed # {} THEN CHOOSE c \in borrowed : TRUE ELSE cfg

\* Faulty: the flag is left, so that the settings are not borrowed again.
LoadKeepingFlag == playing

\* hfr_replay_load, th08_register_chain: the next frame decides again.
PlayingAfterLoad == FALSE

\* Faulty: an ended playback keeps what it borrowed.
KeepBorrowed == cfg' = cfg /\ borrowed' = borrowed

GiveBack == cfg' = Restored /\ borrowed' = {}

\* replay_check, once a frame: on a change of the game's mode only.
ReplayCheck(rateNow) ==
    LET now == game.mode = "play" IN
    IF now = playing THEN
        /\ rate' = rateNow
        /\ UNCHANGED <<cfg, borrowed, playing>>
    ELSE
        /\ playing' = now
        /\ IF now /\ loaded.meta = "good"
           THEN borrowed' = {cfg} /\ cfg' = loaded.settings
           ELSE IF now THEN UNCHANGED <<cfg, borrowed>> ELSE GiveBack
        /\ rate' = LogicRate(cfg', IF now THEN IF loaded.rate > 0 THEN loaded.rate ELSE 60
                                   ELSE IF fps > 0 THEN fps ELSE refresh')

Frame ==
    /\ Recompute /\ ReplayCheck(Recomputed)
    /\ UNCHANGED <<fps, display, loaded, rec, game, ini, file, ran, chosen>>
-------------------------------------------------------------------------------
(* The device and the menu. *)

\* after_device, at a reset of the device: the display is looked at again.
DeviceReset(hz) ==
    /\ display' = hz /\ refresh' = RefreshOf(fps, hz)
    /\ rate' = RateAt(refresh')
    /\ UNCHANGED <<cfg, fps, ratePending, borrowed, playing, loaded, rec,
                   game, ini, file, ran, chosen>>


\* hfr_ui_simulation_locked
Locked == playing \/ (HasManager /\ game.mode # "title")

\* hfr_ui_set: UI_SUBSTEP, UI_SUBTICK_INPUT, UI_FPS and the systems.
UiSet(c, f) ==
    /\ ~Locked /\ c \in Settings
    /\ cfg' = c /\ fps' = f /\ chosen' = [chosen EXCEPT !.now = c]
    /\ ratePending' = (ratePending \/ c.substep # cfg.substep \/ f # fps)
    /\ UNCHANGED <<display, refresh, rate, borrowed, playing, loaded, rec, game, ini, file, ran>>

\* hfr_ui_save
UiSave ==
    /\ borrowed # {} => SavesInPlay
    /\ ini' = [cfg |-> cfg, fps |-> fps] /\ chosen' = [chosen EXCEPT !.ini = chosen.now]
    /\ UNCHANGED <<cfg, fps, display, ratePending, refresh, rate, borrowed, playing,
                   loaded, rec, game, file, ran>>

\* The game is started again.
Restart ==
    /\ game.mode # "result"
    /\ cfg' = ini.cfg /\ fps' = ini.fps /\ display' = Display /\ ratePending' = FALSE
    /\ refresh' = RefreshOf(ini.fps, Display)
    /\ rate' = LogicRate(ini.cfg, refresh')
    /\ borrowed' = {} /\ playing' = FALSE
    /\ loaded' = Unloaded /\ rec' = Unrecorded
    /\ game' = Title /\ ran' = Unran
    /\ chosen' = [chosen EXCEPT !.now = chosen.ini]
    /\ UNCHANGED <<ini, file>>
-------------------------------------------------------------------------------
(* Recording. *)

\* The game runs in a frame's ticks, after the pending settings are applied.
InFrame == ~ratePending

SettingsOf == UNCHANGED <<cfg, fps, display, ratePending, refresh, rate, borrowed, playing>>

\* th08_register_chain: a new game clears the streams; the others keep them.
NewGame ==
    /\ InFrame /\ game.mode = "title"
    /\ game' = [game EXCEPT !.mode = "record", !.kept = {}]
    /\ rec' = IF HasManager THEN rec ELSE Unrecorded
    /\ SettingsOf /\ UNCHANGED <<loaded, ini, file, ran, chosen>>

\* replay_stage_start, recording: frames after the game was begun.
StageStart(s) ==
    /\ InFrame /\ ~playing /\ game.mode = "record" /\ s \notin game.kept
    /\ game' = [game EXCEPT !.stage = s, !.kept = @ \cup {s}]
    /\ rec' = [rec EXCEPT ![s] = [d |-> <<>>, failed |-> FALSE]]
    /\ ran' = [ran EXCEPT ![s] = {}]
    /\ SettingsOf /\ UNCHANGED <<loaded, ini, file, chosen>>

SubtickActive == cfg.subtick /\ cfg.substep /\ rate # 60

\* tickbuf_push
Push(b, v) ==
    IF b.failed THEN b
    ELSE IF Len(b.d) >= Full THEN [b EXCEPT !.failed = TRUE]
    ELSE [b EXCEPT !.d = Append(@, v)]

\* A tick of the stage, through subtick_input_end.
RecordTick(v) ==
    /\ InFrame /\ game.mode = "record" /\ game.stage # Nowhere
    /\ ran' = [ran EXCEPT ![game.stage] = @ \cup {<<cfg, rate>>}]
    /\ rec' = IF SubtickActive THEN [rec EXCEPT ![game.stage] = Push(@, v)] ELSE rec
    /\ SettingsOf /\ UNCHANGED <<loaded, game, ini, file, chosen>>

GameOver ==
    /\ InFrame /\ game.mode = "record" /\ game.stage # Nowhere
    /\ game' = [game EXCEPT !.mode = "result", !.stage = Nowhere]
    /\ SettingsOf /\ UNCHANGED <<loaded, rec, ini, file, ran, chosen>>

\* Faulty: every stream of the session is written.
StageHasInput(s) == rec[s].d # <<>>

\* replay_stage_recorded
StageRecorded(s) == rec[s].d # <<>> /\ (HasManager => s \in game.kept)

InputOf(s) == [stage |-> s, n |-> Len(rec[s].d), pairs |-> Pairs(rec[s].d)]

\* replay_build_extension, as fields of the file.
Extension ==
    [rate |-> rate, meta |-> "good", settings |-> cfg,
     input |-> IF SubtickActive
               THEN SetToSeq({InputOf(s) : s \in {x \in Stages : StageRecorded(x)}})
               ELSE <<>>,
     ran |-> [s \in Stages |-> IF s \in game.kept THEN ran[s] ELSE {}],
     bits |-> [s \in Stages |-> IF SubtickActive /\ s \in game.kept THEN rec[s].d ELSE <<>>]]

\* A stream that has failed leaves the whole extension out.
Buildable == cfg.subtick => \A s \in Stages : ~rec[s].failed

\* hfr_replay_save, replay_append_chunk_path: a failed write is cut off again.
SaveReplay ==
    /\ InFrame /\ game.mode = "result"
    /\ file' \in {Stock} \cup {Extension : x \in {y \in {TRUE} : Buildable}}
    /\ game' = Title /\ ran' = Unran
    /\ SettingsOf /\ UNCHANGED <<loaded, rec, ini, chosen>>
-------------------------------------------------------------------------------
(* Playback. *)

\* replay_read_chunk_path, replay_parse_metadata, replay_loaded_rate
ReadChunks(f) ==
    [meta |-> f.meta, settings |-> f.settings,
     rate |-> InRange(f.rate), play |-> ParseInput(f.input)]

\* hfr_replay_load, from the title or, to start over, from the playback; a
\* file the game refuses leaves it at the title.
LoadReplay(r) ==
    /\ InFrame /\ game.mode \in {"title", "play"} /\ r \in {"title", "play"}
    /\ game.mode = "title" => ~playing
    /\ game.mode = "play" /\ r = "title" => ReloadFails
    /\ cfg' = Restored /\ borrowed' = {} /\ playing' = PlayingAfterLoad
    /\ loaded' = ReadChunks(file)
    /\ game' = [mode |-> r, stage |-> Nowhere, kept |-> {}]
    /\ UNCHANGED <<fps, display, ratePending, refresh, rate, rec, ini, file, ran, chosen>>

\* The first frame of a stage comes frames after the load.
PlayStage(s) ==
    /\ InFrame /\ game.mode = "play" /\ playing /\ file.ran[s] # {}
    /\ game' = [game EXCEPT !.stage = s]
    /\ SettingsOf /\ UNCHANGED <<loaded, rec, ini, file, ran, chosen>>

\* A menu leaves the game, frames after a load.
Leave ==
    /\ InFrame /\ game.mode \in {"play", "record", "result"}
    /\ game.mode = "play" => playing
    /\ game' = Title /\ ran' = Unran
    /\ SettingsOf /\ UNCHANGED <<loaded, rec, ini, file, chosen>>

\* The player gets another file.
OtherFile ==
    /\ game.mode = "title" /\ file' \in Others
    /\ SettingsOf /\ UNCHANGED <<loaded, rec, game, ini, ran, chosen>>

Next ==
    \/ Frame
    \/ \E c \in Settings, f \in Rates : UiSet(c, f)
    \/ \E hz \in Displays : DeviceReset(hz)
    \/ UiSave \/ Restart
    \/ NewGame \/ \E s \in Stages : StageStart(s) \/ PlayStage(s)
    \/ \E v \in Bits : RecordTick(v)
    \/ GameOver \/ SaveReplay
    \/ \E r \in {"title", "play"} : LoadReplay(r)
    \/ Leave \/ OtherFile

Spec == Init /\ [][Next]_vars
-------------------------------------------------------------------------------
(* Properties. *)

\* A stage of a replay with metadata plays back at the rate and under the
\* settings its ticks were recorded with, all of them, whatever was changed,
\* played, loaded or restarted in between (replay.c:12-63; menu.cpp:424: "the
\* replay being recorded describes the settings it started with").
PlaysAsRecorded ==
    game.mode = "play" /\ game.stage # Nowhere /\ loaded.meta = "good"
    => file.ran[game.stage] = {<<cfg, rate>>}

\* The settings are the player's whenever no playback has borrowed them
\* (ARCHITECTURE.md:140-141), after a restart too.
SettingsReturn ==
    /\ borrowed = {} => cfg = chosen.now
    /\ ~playing => borrowed = {}

\* A playback reads the input its stages were recorded with, run lengths and
\* all, and no stage's of another game or file (replay.c:86-94, 113-131, 154-190).
StreamsOfTheFile ==
    game.mode = "play" => loaded.play = file.bits
===============================================================================
