-------------------------- MODULE ReplaySessionProofs -------------------------
(***************************************************************************)
(* Proofs about ReplaySession, for any stages, settings, rates, and file   *)
(* the game may find.                                                      *)
(*                                                                         *)
(* Three invariants, each inductive with the types.  Lent says whose the   *)
(* settings in force are, which gives SettingsReturn.  Ruled says which    *)
(* rate is in force, outside the frames between a change and the frame     *)
(* that applies it, and what the stages kept so far, and those of the file *)
(* saved from them, were run with; that gives PlaysAsRecorded.             *)
(* StreamInv says what the streams recorded and written are, which with    *)
(* the coding of their runs (PairsUnrun) gives StreamsOfTheFile.           *)
(***************************************************************************)
EXTENDS ReplaySession, FiniteSetTheorems, WellFoundedInduction, TLAPS

USE DEF Nowhere

Modes == {"title", "record", "result", "play"}

\* Rates set_logic_rate and recompute_rate leave.
Legal == 60 .. 1000

Types ==
    /\ cfg \in Settings /\ fps \in Rates
    /\ display \in Displays /\ refresh \in Legal /\ rate \in Legal
    /\ ratePending \in BOOLEAN /\ playing \in BOOLEAN
    /\ borrowed = {} \/ \E c \in Settings : borrowed = {c}
    /\ ini \in [cfg : Settings, fps : Rates]
    /\ chosen \in [now : Settings, ini : Settings]
    /\ game \in [mode : Modes, stage : Stages \cup {Nowhere}, kept : SUBSET Stages]

\* What a loaded file may hold, and so what a playback may borrow.
FileKnown ==
    /\ file.rate \in Nat
    /\ file.meta = "good" => file.settings \in Settings

LoadKnown ==
    /\ loaded.rate \in Nat
    /\ loaded.meta = "good" => loaded.settings \in Settings

\* Whose settings are in force.
Lent ==
    /\ borrowed = {} \/ borrowed = {chosen.now}
    /\ borrowed = {} => cfg = chosen.now
    /\ ~playing => borrowed = {}
    /\ ini.cfg = chosen.ini

\* A rate asked for and not yet applied is asked for at the title, and the
\* presentation follows the setting or the display it started with.
Applied ==
    /\ ratePending => game.mode = "title" /\ ~playing
    /\ display = Display
    /\ ~ratePending => refresh = RefreshOf(fps, Display)

\* The rate is the one the settings and the playback give, but between a load
\* and the first frame that sees it.
InForce == ~ratePending /\ (game.mode = "play" => playing) => rate = RateAt(refresh)

\* The stages of a game have been run under what is in force now.
KeptAlike ==
    /\ ran \in [Stages -> SUBSET (Settings \X Legal)]
    /\ game.mode \in {"title", "play"} => game.kept = {}
    /\ game.mode = "title" => game.stage = Nowhere
    /\ game.kept # {} => ~playing
    /\ \A s \in game.kept : ran[s] \subseteq {<<cfg, rate>>}

\* A file of this build holds stages of one rate, that of its settings.
OneRate ==
    file.meta = "good" =>
        /\ file.rate \in Legal
        /\ ~file.settings.substep => file.rate = 60
        /\ \A s \in Stages : file.ran[s] \subseteq {<<file.settings, file.rate>>}

\* A playback runs under the settings of the file it has loaded.
Borrowed ==
    /\ ~playing => borrowed = {}
    /\ game.mode = "play" =>
        /\ loaded.meta = file.meta /\ loaded.settings = file.settings
        /\ loaded.rate = InRange(file.rate)
        /\ game.stage # Nowhere => playing /\ file.ran[game.stage] # {}
        /\ playing /\ loaded.meta = "good" => cfg = loaded.settings

Ruled == Applied /\ InForce /\ KeptAlike /\ OneRate /\ Borrowed

RuledInv == Types /\ FileKnown /\ LoadKnown /\ Ruled

LentInv == Types /\ FileKnown /\ LoadKnown /\ Lent

-------------------------------------------------------------------------------
(* The rates. *)

\* A rate is a number.
LEMMA LegalIsNat == \A r \in Legal : r \in Nat /\ r > 0
  BY DEF Legal

\* Rates lie between 60 and 1000.
LEMMA Clamped ==
    ASSUME NEW r \in Nat
    PROVE  Clamp(r) \in Legal /\ (r \in Legal => Clamp(r) = r)
  BY DEF Clamp, Legal

\* set_logic_rate: the rate is clamped, and 60 without sub-stepping.
LEMMA LogicRated ==
    ASSUME NEW c \in Settings, NEW r \in Nat
    PROVE  /\ LogicRate(c, r) \in Legal
           /\ ~c.substep => LogicRate(c, r) = 60
           /\ c.substep /\ r \in Legal => LogicRate(c, r) = r
  <1>1. 60 \in Legal
    BY DEF Legal
  <1>2. Clamp(r) \in Legal /\ (r \in Legal => Clamp(r) = r)
    BY Clamped
  <1>3. c.substep \in BOOLEAN
    BY SessionConstants
  <1> QED BY <1>1, <1>2, <1>3 DEF LogicRate

\* The rate the menu or the display asks for is in range.
LEMMA Refreshed ==
    ASSUME NEW f \in Rates, NEW hz \in Displays
    PROVE  RefreshOf(f, hz) \in Legal
  <1> DEFINE r == IF f > 0 THEN f ELSE hz
  <1>1. r \in Nat
    BY SessionConstants
  <1>2. RefreshOf(f, hz) = Clamp(r)
    BY DEF RefreshOf
  <1> HIDE DEF r
  <1> QED BY <1>1, <1>2, Clamped

-------------------------------------------------------------------------------
(* The types, and what is borrowed. *)

\* Files of other programs have no metadata of this patch's.
LEMMA StockKnown == \A f \in Others : f.rate \in Nat /\ f.meta # "good"
  <1> DEFINE rated == [Stock EXCEPT !.rate = 120]
             bad   == [Stock EXCEPT !.rate = 120, !.meta = "bad"]
  <1>1. Stock.rate = 0 /\ Stock.meta = "none"
    BY DEF Stock
  <1>2. rated.rate = 120 /\ rated.meta = "none"
    BY DEF Stock
  <1>3. bad.rate = 120 /\ bad.meta = "bad"
    BY DEF Stock
  <1>4. Others = {Stock, rated, bad}
    BY DEF Others
  <1> HIDE DEF rated, bad
  <1> QED BY <1>1, <1>2, <1>3, <1>4

\* A rate looked up again is a rate.
LEMMA RateLooked ==
    ASSUME Types, LoadKnown, NEW hz \in Legal
    PROVE  RateAt(hz) \in Legal
  <1> DEFINE r == IF ~playing THEN hz ELSE IF loaded.rate > 0 THEN loaded.rate ELSE 60
  <1>1. r \in Nat /\ cfg \in Settings
    BY LegalIsNat DEF Types, LoadKnown
  <1>2. RateAt(hz) = LogicRate(cfg, r)
    BY DEF RateAt
  <1> HIDE DEF r
  <1> QED BY <1>1, <1>2, LogicRated

\* A fresh process satisfies the types and what is known of the files,
LEMMA TypesInit == Init => Types /\ FileKnown /\ LoadKnown
  <1> SUFFICES ASSUME Init PROVE Types /\ FileKnown /\ LoadKnown
    OBVIOUS
  <1>1. display \in Displays /\ refresh \in Legal
    BY SessionConstants, Refreshed DEF Init
  <1>2. rate \in Legal
    <2>1. cfg \in Settings /\ refresh \in Nat /\ rate = LogicRate(cfg, refresh)
      BY LegalIsNat, <1>1 DEF Init
    <2> QED BY <2>1, LogicRated
  <1>3. Types
    BY <1>1, <1>2 DEF Init, Types, Title, Modes
  <1>4. FileKnown
    BY StockKnown DEF Init, FileKnown
  <1>5. LoadKnown
    BY DEF Init, LoadKnown, Unloaded
  <1> QED BY <1>3, <1>4, <1>5

\* Giving back puts a setting in force.
LEMMA RestoredTyped ==
    ASSUME Types
    PROVE  Restored \in Settings
  BY DEF Types, Restored

\* and every step keeps them.
LEMMA TypesNext == Types /\ FileKnown /\ LoadKnown /\ [Next]_vars => (Types /\ FileKnown /\ LoadKnown)'
  <1> SUFFICES ASSUME Types, FileKnown, LoadKnown, [Next]_vars
               PROVE  (Types /\ FileKnown /\ LoadKnown)'
    OBVIOUS
  <1>1. CASE Frame
    <2>1. refresh' \in Legal
      BY <1>1, Refreshed DEF Frame, Recompute, Types
    <2>2. Recomputed \in Legal
      <3>1. RateAt(refresh') \in Legal
        BY <2>1, RateLooked
      <3> QED BY <3>1 DEF Recomputed, Types
    <2>3. cfg' \in Settings /\ playing' \in BOOLEAN
          /\ (borrowed' = {} \/ \E c \in Settings : borrowed' = {c})
      BY <1>1, RestoredTyped DEF Frame, ReplayCheck, GiveBack, Types, LoadKnown
    <2>4. rate' \in Legal
      <3>1. CASE (game.mode = "play") = playing
        BY <1>1, <2>2, <3>1 DEF Frame, ReplayCheck
      <3>2. CASE (game.mode = "play") # playing
        <4> DEFINE want == IF game.mode = "play" THEN IF loaded.rate > 0 THEN loaded.rate ELSE 60
                           ELSE IF fps > 0 THEN fps ELSE refresh'
        <4>1. want \in Nat
          BY LegalIsNat, <2>1, SessionConstants DEF Types, LoadKnown
        <4>2. rate' = LogicRate(cfg', want)
          BY <1>1, <3>2 DEF Frame, ReplayCheck
        <4> QED BY <2>3, <4>1, <4>2, LogicRated
      <3> QED BY <3>1, <3>2
    <2> QED BY <1>1, <2>1, <2>3, <2>4 DEF Frame, Recompute, Types, FileKnown, LoadKnown
  <1>2. ASSUME NEW c \in Settings, NEW f \in Rates, UiSet(c, f)
        PROVE  (Types /\ FileKnown /\ LoadKnown)'
    BY <1>2 DEF UiSet, Types, FileKnown, LoadKnown
  <1>3. ASSUME NEW hz \in Displays, DeviceReset(hz)
        PROVE  (Types /\ FileKnown /\ LoadKnown)'
    <2>1. refresh' \in Legal
      <3>1. fps \in Rates /\ refresh' = RefreshOf(fps, hz)
        BY <1>3 DEF DeviceReset, Types
      <3> QED BY <3>1, Refreshed
    <2>2. rate' \in Legal
      <3>1. rate' = RateAt(refresh')
        BY <1>3 DEF DeviceReset
      <3> QED BY <3>1, <2>1, RateLooked
    <2> QED BY <1>3, <2>1, <2>2 DEF DeviceReset, Types, FileKnown, LoadKnown
  <1>4. CASE UiSave
    BY <1>4 DEF UiSave, Types, FileKnown, LoadKnown
  <1>5. CASE Restart
    <2>1. refresh' \in Legal
      BY <1>5, Refreshed, SessionConstants DEF Restart, Types
    <2>2. rate' \in Legal
      <3>1. ini.cfg \in Settings /\ refresh' \in Nat /\ rate' = LogicRate(ini.cfg, refresh')
        BY LegalIsNat, <1>5, <2>1 DEF Restart, Types
      <3>2. PICK c \in Settings : c = ini.cfg
        BY <3>1
      <3>3. rate' = LogicRate(c, refresh') /\ refresh' \in Nat
        BY <3>1, <3>2
      <3> QED BY <3>3, LogicRated
    <2>3. game' \in [mode : Modes, stage : Stages \cup {Nowhere}, kept : SUBSET Stages]
      BY <1>5 DEF Restart, Title, Modes
    <2>4. display' \in Displays /\ borrowed' = {} /\ playing' = FALSE /\ ratePending' = FALSE
      BY <1>5, SessionConstants DEF Restart
    <2>5. chosen' \in [now : Settings, ini : Settings] /\ cfg' \in Settings /\ fps' \in Rates
      BY <1>5 DEF Restart, Types
    <2>6. FileKnown' /\ LoadKnown' /\ ini' \in [cfg : Settings, fps : Rates]
      BY <1>5 DEF Restart, FileKnown, LoadKnown, Unloaded, Types
    <2> QED BY <2>1, <2>2, <2>3, <2>4, <2>5, <2>6 DEF Types
  <1>6. CASE NewGame
    BY <1>6 DEF NewGame, SettingsOf, Types, FileKnown, LoadKnown, Modes
  <1>7. ASSUME NEW s \in Stages, StageStart(s) \/ PlayStage(s)
        PROVE  (Types /\ FileKnown /\ LoadKnown)'
    <2>1. game' \in [mode : Modes, stage : Stages \cup {Nowhere}, kept : SUBSET Stages]
      <3>1. CASE StageStart(s)
        <4>1. game.kept \cup {s} \in SUBSET Stages
          BY DEF Types
        <4> QED BY <3>1, <4>1 DEF StageStart, Types
      <3>2. CASE PlayStage(s)
        BY <3>2 DEF PlayStage, Types
      <3> QED BY <1>7, <3>1, <3>2
    <2>2. SettingsOf /\ UNCHANGED <<loaded, ini, file, chosen>>
      BY <1>7 DEF StageStart, PlayStage
    <2> QED BY <2>1, <2>2 DEF SettingsOf, Types, FileKnown, LoadKnown
  <1>8. ASSUME NEW v \in Bits, RecordTick(v)
        PROVE  (Types /\ FileKnown /\ LoadKnown)'
    BY <1>8 DEF RecordTick, SettingsOf, Types, FileKnown, LoadKnown
  <1>9. CASE GameOver \/ Leave
    <2>1. game' \in [mode : Modes, stage : Stages \cup {Nowhere}, kept : SUBSET Stages]
      <3>1. CASE GameOver
        BY <3>1 DEF GameOver, Types, Modes
      <3>2. CASE Leave
        BY <3>2 DEF Leave, Title, Modes
      <3> QED BY <1>9, <3>1, <3>2
    <2>2. SettingsOf /\ UNCHANGED <<loaded, ini, file, chosen>>
      BY <1>9 DEF GameOver, Leave
    <2> QED BY <2>1, <2>2 DEF SettingsOf, Types, FileKnown, LoadKnown
  <1>10. CASE SaveReplay
    <2>1. FileKnown'
      <3>1. file' = Stock \/ file' = Extension
        BY <1>10 DEF SaveReplay
      <3>2. Stock.rate = 0 /\ Stock.meta = "none"
        BY DEF Stock
      <3>3. Extension.rate = rate /\ Extension.settings = cfg
        BY DEF Extension
      <3> QED BY LegalIsNat, <3>1, <3>2, <3>3 DEF Types, FileKnown
    <2> QED BY <1>10, <2>1 DEF SaveReplay, Title, SettingsOf, Types, LoadKnown, Modes
  <1>11. ASSUME NEW r \in {"title", "play"}, LoadReplay(r)
         PROVE  (Types /\ FileKnown /\ LoadKnown)'
    <2>1. LoadKnown'
      BY <1>11 DEF LoadReplay, ReadChunks, InRange, FileKnown, LoadKnown
    <2> QED BY <1>11, <2>1, RestoredTyped
            DEF LoadReplay, PlayingAfterLoad, Types, FileKnown, Modes
  <1>12. CASE OtherFile
    BY <1>12, StockKnown DEF OtherFile, SettingsOf, Types, FileKnown, LoadKnown
  <1>13. CASE UNCHANGED vars
    BY <1>13 DEF vars, Types, FileKnown, LoadKnown
  <1> QED BY <1>1, <1>2, <1>3, <1>4, <1>5, <1>6, <1>7, <1>8, <1>9, <1>10, <1>11, <1>12, <1>13 DEF Next

\* Whose the settings are, at every step, as long as the player does not save
\* them while a playback has borrowed them.
LEMMA LentNext ==
    ASSUME ~SavesInPlay
    PROVE  LentInv /\ [Next]_vars => Lent'
  <1> SUFFICES ASSUME LentInv, [Next]_vars PROVE Lent'
    OBVIOUS
  <1> USE DEF LentInv
  <1>1. CASE Frame
    <2>1. chosen' = chosen /\ ini' = ini
      BY <1>1 DEF Frame
    <2>2. CASE (game.mode = "play") = playing
      BY <1>1, <2>1, <2>2 DEF Frame, ReplayCheck, Lent
    <2>3. CASE (game.mode = "play") # playing /\ game.mode = "play"
      <3>1. ~playing /\ borrowed = {} /\ cfg = chosen.now
        BY <2>3 DEF Types, Lent
      <3>2. /\ playing' = TRUE
            /\ borrowed' = {cfg} \/ (borrowed' = borrowed /\ cfg' = cfg)
        BY <1>1, <2>3 DEF Frame, ReplayCheck
      <3> QED BY <2>1, <3>1, <3>2 DEF Lent
    <2>4. CASE (game.mode = "play") # playing /\ game.mode # "play"
      <3>1. cfg' = Restored /\ borrowed' = {}
        BY <1>1, <2>4 DEF Frame, ReplayCheck, GiveBack
      <3>2. Restored = chosen.now
        BY DEF Lent, Restored
      <3> QED BY <2>1, <3>1, <3>2 DEF Lent
    <2> QED BY <2>2, <2>3, <2>4
  <1>2. ASSUME NEW c \in Settings, NEW f \in Rates, UiSet(c, f)
        PROVE  Lent'
    <2>1. borrowed = {} /\ borrowed' = {} /\ cfg' = c /\ chosen'.now = c /\ chosen'.ini = chosen.ini
      BY <1>2 DEF UiSet, Locked, Lent, Types
    <2> QED BY <1>2, <2>1 DEF UiSet, Lent
  <1>3. ASSUME NEW hz \in Displays, DeviceReset(hz)
        PROVE  Lent'
    BY <1>3 DEF DeviceReset, Lent
  <1>4. CASE UiSave
    BY <1>4 DEF UiSave, Lent, Types
  <1>5. CASE Restart
    BY <1>5 DEF Restart, Lent, Types
  <1>6. CASE NewGame
    BY <1>6 DEF NewGame, SettingsOf, Lent
  <1>7. ASSUME NEW s \in Stages, StageStart(s) \/ PlayStage(s)
        PROVE  Lent'
    BY <1>7 DEF StageStart, PlayStage, SettingsOf, Lent
  <1>8. ASSUME NEW v \in Bits, RecordTick(v)
        PROVE  Lent'
    BY <1>8 DEF RecordTick, SettingsOf, Lent
  <1>9. CASE GameOver \/ Leave
    BY <1>9 DEF GameOver, Leave, SettingsOf, Lent
  <1>10. CASE SaveReplay
    BY <1>10 DEF SaveReplay, SettingsOf, Lent
  <1>11. ASSUME NEW r \in {"title", "play"}, LoadReplay(r)
         PROVE  Lent'
    <2>1. Restored = chosen.now
      BY DEF Lent, Restored
    <2> QED BY <1>11, <2>1 DEF LoadReplay, Lent
  <1>12. CASE OtherFile
    BY <1>12 DEF OtherFile, SettingsOf, Lent
  <1>13. CASE UNCHANGED vars
    BY <1>13 DEF vars, Lent
  <1> QED BY <1>1, <1>2, <1>3, <1>4, <1>5, <1>6, <1>7, <1>8, <1>9, <1>10, <1>11, <1>12, <1>13 DEF Next

\* The settings in force are the player's whenever no playback has borrowed
\* them, whatever was recorded, played, loaded or started over in between
\* (replay.c:9-23, 45-49, 252-257).
THEOREM SettingsComeBack ==
    ASSUME ~SavesInPlay
    PROVE  Spec => []SettingsReturn
  <1>1. Init => LentInv
    <2>1. Init => Lent
      BY DEF Init, Lent
    <2> QED BY <2>1, TypesInit DEF LentInv
  <1>2. LentInv /\ [Next]_vars => LentInv'
    BY LentNext, TypesNext DEF LentInv
  <1>3. LentInv => SettingsReturn
    BY DEF LentInv, Lent, SettingsReturn
  <1> QED BY <1>1, <1>2, <1>3, PTL DEF Spec

-------------------------------------------------------------------------------
(* The rate a recording names and its playback runs at. *)

\* Following a setting and following the presentation's rate are the same.
LEMMA FollowsSetting ==
    ASSUME NEW c \in Settings, NEW f \in Rates, NEW hz \in Displays
    PROVE  LogicRate(c, IF f > 0 THEN f ELSE RefreshOf(f, hz)) = LogicRate(c, RefreshOf(f, hz))
  <1>1. f \in Nat /\ hz \in Nat
    BY SessionConstants
  <1>2. CASE f > 0
    <2>1. RefreshOf(f, hz) = Clamp(f)
      BY <1>2 DEF RefreshOf
    <2>2. Clamp(f) \in Legal
      BY <1>1, Clamped
    <2>3. Clamp(f) \in Nat
      BY <2>2, LegalIsNat
    <2>4. Clamp(Clamp(f)) = Clamp(f)
      BY <2>2, <2>3, Clamped
    <2> QED BY <1>2, <2>1, <2>4 DEF LogicRate
  <1>3. CASE ~(f > 0)
    BY <1>3
  <1> QED BY <1>2, <1>3

\* Nothing is in force at first.
LEMMA RuledInit == Init => Ruled
  <1> SUFFICES ASSUME Init PROVE Ruled
    OBVIOUS
  <1>1. Applied
    BY DEF Init, Applied, Title
  <1>2. InForce
    BY DEF Init, InForce, RateAt
  <1>3. KeptAlike
    BY DEF Init, KeptAlike, Title, Unran
  <1>4. OneRate
    BY StockKnown DEF Init, OneRate
  <1>5. Borrowed
    BY DEF Init, Borrowed, Title
  <1> QED BY <1>1, <1>2, <1>3, <1>4, <1>5 DEF Ruled

\* A frame: the pending rate is applied, and then the game's mode looked at.
LEMMA RuledFrame ==
    ASSUME RuledInv, Types', Frame, Displays = {Display}
    PROVE  Ruled'
  <1> USE DEF RuledInv
  <1> DEFINE now == game.mode = "play"
  <1>1. /\ ratePending' = FALSE /\ refresh' = RefreshOf(fps, Display)
        /\ fps' = fps /\ display' = Display
    BY DEF Frame, Recompute, Types, Ruled, Applied
  <1>2. loaded' = loaded /\ game' = game /\ file' = file /\ ran' = ran
    BY DEF Frame
  <1>3. Applied'
    BY <1>1, <1>2 DEF Applied
  <1>4. OneRate'
    BY <1>2 DEF Ruled, OneRate
  <1>5. CASE now = playing
    <2>1. rate' = Recomputed /\ cfg' = cfg /\ borrowed' = borrowed /\ playing' = playing
      BY <1>5 DEF Frame, ReplayCheck
    <2>2. rate' = RateAt(refresh')
      <3>1. CASE ratePending
        BY <2>1, <3>1 DEF Recomputed
      <3>2. CASE ~ratePending
        BY <1>1, <1>5, <2>1, <3>2 DEF Recomputed, Ruled, Applied, InForce
      <3> QED BY <3>1, <3>2
    <2>3. InForce'
      BY <1>2, <2>1, <2>2 DEF InForce, RateAt
    <2>4. game.kept # {} => rate' = rate
      BY <2>1 DEF Recomputed, Ruled, Applied, KeptAlike
    <2>5. KeptAlike'
      BY <1>2, <2>1, <2>4 DEF Ruled, KeptAlike
    <2>6. Borrowed'
      BY <1>2, <2>1 DEF Ruled, Borrowed
    <2> QED BY <1>3, <1>4, <2>3, <2>5, <2>6 DEF Ruled
  <1>6. CASE now /\ ~playing
    <2>1. /\ playing' = TRUE
          /\ cfg' = IF loaded.meta = "good" THEN loaded.settings ELSE cfg
          /\ rate' = LogicRate(cfg', IF loaded.rate > 0 THEN loaded.rate ELSE 60)
      BY <1>6 DEF Frame, ReplayCheck
    <2>2. InForce'
      BY <1>2, <2>1 DEF InForce, RateAt
    <2>3. KeptAlike'
      BY <1>2, <1>6 DEF Ruled, KeptAlike
    <2>4. Borrowed'
      BY <1>2, <2>1 DEF Ruled, Borrowed
    <2> QED BY <1>3, <1>4, <2>2, <2>3, <2>4 DEF Ruled
  <1>7. CASE ~now /\ playing
    <2>1. playing' = FALSE /\ borrowed' = {}
          /\ rate' = LogicRate(cfg', IF fps > 0 THEN fps ELSE refresh')
      BY <1>7 DEF Frame, ReplayCheck, GiveBack
    <2>2. cfg' \in Settings /\ fps \in Rates
      BY DEF Types
    <2>3. rate' = LogicRate(cfg', refresh')
      BY <1>1, <2>1, <2>2, FollowsSetting, SessionConstants
    <2>4. InForce'
      BY <2>1, <2>3 DEF InForce, RateAt
    <2>5. KeptAlike'
      BY <1>2, <1>7 DEF Ruled, KeptAlike
    <2>6. Borrowed'
      BY <1>2, <1>7, <2>1 DEF Ruled, Borrowed
    <2> QED BY <1>3, <1>4, <2>4, <2>5, <2>6 DEF Ruled
  <1> QED BY <1>5, <1>6, <1>7 DEF Types

\* The device reset, the menu and the game's start, outside a stage.
LEMMA RuledReset ==
    ASSUME RuledInv, DeviceReset(Display)
    PROVE  Ruled'
  <1> USE DEF RuledInv
  <1>1. /\ display' = Display /\ refresh' = RefreshOf(fps, Display)
        /\ rate' = RateAt(refresh')
        /\ UNCHANGED <<cfg, fps, ratePending, borrowed, playing, loaded, game, file, ran>>
    BY DEF DeviceReset, RefreshOf
  <1>2. Applied'
    BY <1>1 DEF Ruled, Applied
  <1>3. InForce'
    BY <1>1 DEF InForce, RateAt
  <1>4. game.kept # {} => rate' = rate
    BY <1>1 DEF Ruled, Applied, InForce, KeptAlike, Types, Modes
  <1>5. KeptAlike'
    BY <1>1, <1>4 DEF Ruled, KeptAlike
  <1>6. OneRate' /\ Borrowed'
    BY <1>1 DEF Ruled, OneRate, Borrowed
  <1> QED BY <1>2, <1>3, <1>5, <1>6 DEF Ruled

\* The menu changes the simulation only while no stage runs.
LEMMA RuledUiSet ==
    ASSUME RuledInv, HasManager, NEW c \in Settings, NEW f \in Rates, UiSet(c, f)
    PROVE  Ruled'
  <1> USE DEF RuledInv
  <1>1. /\ ~playing /\ game.mode = "title" /\ cfg' = c /\ fps' = f
        /\ ratePending' = (ratePending \/ c.substep # cfg.substep \/ f # fps)
        /\ UNCHANGED <<display, refresh, rate, borrowed, playing, loaded, game, file, ran>>
    BY DEF UiSet, Locked
  <1>2. Applied'
    BY <1>1 DEF Ruled, Applied
  <1>3. InForce'
    <2>1. CASE ratePending'
      BY <2>1 DEF InForce
    <2>2. CASE ~ratePending'
      <3>1. ~ratePending /\ c.substep = cfg.substep
        BY <1>1, <2>2
      <3>2. RateAt(refresh)' = RateAt(refresh)
        BY <1>1, <3>1 DEF RateAt, LogicRate
      <3> QED BY <1>1, <3>1, <3>2 DEF Ruled, InForce
    <2> QED BY <2>1, <2>2
  <1>4. KeptAlike'
    BY <1>1 DEF Ruled, KeptAlike
  <1>5. OneRate' /\ Borrowed'
    BY <1>1 DEF Ruled, OneRate, Borrowed
  <1> QED BY <1>2, <1>3, <1>4, <1>5 DEF Ruled

\* A new process has the INI's settings.
LEMMA RuledRestart ==
    ASSUME RuledInv, Restart
    PROVE  Ruled'
  <1> USE DEF RuledInv
  <1>1. /\ ratePending' = FALSE /\ playing' = FALSE /\ borrowed' = {} /\ display' = Display
        /\ refresh' = RefreshOf(fps', Display) /\ rate' = LogicRate(cfg', refresh')
        /\ game' = Title /\ ran' = Unran /\ file' = file
    BY DEF Restart
  <1>2. Applied'
    BY <1>1 DEF Applied
  <1>3. InForce'
    BY <1>1 DEF InForce, RateAt
  <1>4. KeptAlike'
    BY <1>1 DEF KeptAlike, Title, Unran
  <1>5. OneRate' /\ Borrowed'
    BY <1>1 DEF Ruled, OneRate, Borrowed, Title
  <1> QED BY <1>2, <1>3, <1>4, <1>5 DEF Ruled

\* What the game does leaves the rate and the settings alone.
LEMMA SettingsStay ==
    ASSUME RuledInv, SettingsOf, ~ratePending,
           game.mode = "play" => playing, UNCHANGED loaded
    PROVE  Applied' /\ InForce'
  <1> USE DEF RuledInv, SettingsOf
  <1>1. Applied'
    BY DEF Ruled, Applied
  <1>2. RateAt(refresh)' = RateAt(refresh)
    BY DEF RateAt
  <1>3. InForce'
    <2>1. UNCHANGED <<ratePending, playing, rate, refresh>>
      OBVIOUS
    <2>2. rate = RateAt(refresh)
      BY DEF Ruled, InForce
    <2> QED BY <1>2, <2>1, <2>2 DEF InForce
  <1> QED BY <1>1, <1>3

\* Stages and ticks are recorded, and played, at what is in force.
LEMMA RuledRecording ==
    ASSUME RuledInv,
           \/ NewGame \/ GameOver
           \/ \E s \in Stages : StageStart(s) \/ PlayStage(s)
           \/ \E v \in Bits : RecordTick(v)
    PROVE  Ruled'
  <1> USE DEF RuledInv
  <1>1. CASE NewGame
    <2>1. Applied' /\ InForce'
      BY <1>1, SettingsStay DEF NewGame, InFrame, Types
    <2>2. game'.mode = "record" /\ game'.kept = {}
      BY <1>1 DEF NewGame, Types
    <2>3. KeptAlike' /\ OneRate' /\ Borrowed'
      BY <1>1, <2>2 DEF NewGame, SettingsOf, Ruled, KeptAlike, OneRate, Borrowed
    <2> QED BY <2>1, <2>3 DEF Ruled
  <1>2. CASE GameOver
    <2>1. game'.mode = "result" /\ game'.kept = game.kept /\ game.mode = "record"
      BY <1>2 DEF GameOver, Types
    <2>2. Applied' /\ InForce'
      BY <1>2, <2>1, SettingsStay DEF GameOver, InFrame
    <2>3. KeptAlike' /\ OneRate' /\ Borrowed'
      BY <1>2, <2>1 DEF GameOver, SettingsOf, Ruled, KeptAlike, OneRate, Borrowed
    <2> QED BY <2>2, <2>3 DEF Ruled
  <1>3. ASSUME NEW s \in Stages, StageStart(s)
        PROVE  Ruled'
    <2>1. /\ game'.mode = "record" /\ game'.kept = game.kept \cup {s} /\ game.mode = "record"
          /\ ~playing
      BY <1>3 DEF StageStart, Types
    <2>2. Applied' /\ InForce'
      BY <1>3, <2>1, SettingsStay DEF StageStart, InFrame
    <2>3. ran' = [ran EXCEPT ![s] = {}] /\ UNCHANGED <<cfg, rate, playing>>
      BY <1>3 DEF StageStart, SettingsOf
    <2>4. /\ ran' \in [Stages -> SUBSET (Settings \X Legal)]
          /\ ran'[s] = {} /\ \A x \in Stages \ {s} : ran'[x] = ran[x]
      BY <2>3 DEF Ruled, KeptAlike
    <2>5. \A x \in game'.kept : ran'[x] \subseteq {<<cfg, rate>>}
      BY <2>1, <2>4 DEF Ruled, KeptAlike, Types
    <2>6. KeptAlike'
      BY <2>1, <2>3, <2>4, <2>5 DEF KeptAlike
    <2>7. OneRate' /\ Borrowed'
      BY <1>3, <2>1 DEF StageStart, SettingsOf, Ruled, OneRate, Borrowed
    <2> QED BY <2>2, <2>6, <2>7 DEF Ruled
  <1>4. ASSUME NEW s \in Stages, PlayStage(s)
        PROVE  Ruled'
    <2>1. /\ game'.mode = "play" /\ game'.kept = game.kept /\ game'.stage = s /\ game.mode = "play"
          /\ playing /\ file.ran[s] # {}
      BY <1>4 DEF PlayStage, Types
    <2>2. Applied' /\ InForce'
      BY <1>4, <2>1, SettingsStay DEF PlayStage, InFrame
    <2>3. KeptAlike' /\ OneRate' /\ Borrowed'
      BY <1>4, <2>1 DEF PlayStage, SettingsOf, Ruled, KeptAlike, OneRate, Borrowed
    <2> QED BY <2>2, <2>3 DEF Ruled
  <1>5. ASSUME NEW v \in Bits, RecordTick(v)
        PROVE  Ruled'
    <2>1. Applied' /\ InForce'
      BY <1>5, SettingsStay DEF RecordTick, InFrame
    <2>2. /\ ran' = [ran EXCEPT ![game.stage] = @ \cup {<<cfg, rate>>}]
          /\ game.stage \in Stages /\ UNCHANGED <<cfg, rate, playing, game, file, loaded, borrowed>>
      BY <1>5 DEF RecordTick, SettingsOf, Types
    <2>3. /\ ran' \in [Stages -> SUBSET (Settings \X Legal)]
          /\ \A x \in Stages : ran'[x] = ran[x] \/ ran'[x] = ran[x] \cup {<<cfg, rate>>}
      <3>1. ran[game.stage] \cup {<<cfg, rate>>} \in SUBSET (Settings \X Legal)
        BY <2>2 DEF Types, Ruled, KeptAlike
      <3> QED BY <2>2, <3>1 DEF Ruled, KeptAlike
    <2>4. KeptAlike'
      <3>1. \A x \in game.kept : ran'[x] \subseteq {<<cfg, rate>>}
        BY <2>3 DEF Ruled, KeptAlike, Types
      <3> QED BY <2>2, <2>3, <3>1 DEF Ruled, KeptAlike
    <2>5. OneRate' /\ Borrowed'
      BY <2>2 DEF Ruled, OneRate, Borrowed
    <2> QED BY <2>1, <2>4, <2>5 DEF Ruled
  <1> QED BY <1>1, <1>2, <1>3, <1>4, <1>5

\* Back at the title, with the file saved or as it was.
LEMMA RuledTitle ==
    ASSUME RuledInv, InFrame, SettingsOf, UNCHANGED loaded, game' = Title, ran' = Unran,
           game.mode = "play" => playing, OneRate'
    PROVE  Ruled'
  <1> USE DEF RuledInv
  <1>1. game'.mode = "title" /\ game'.kept = {} /\ game'.stage = Nowhere
    BY DEF Title
  <1>2. Applied' /\ InForce'
    BY <1>1, SettingsStay DEF InFrame
  <1>3. KeptAlike'
    BY <1>1 DEF KeptAlike, Unran
  <1>4. Borrowed'
    BY <1>1 DEF Ruled, Borrowed, SettingsOf
  <1> QED BY <1>2, <1>3, <1>4 DEF Ruled

\* A file saved from the results names the rate and the settings of its stages.
LEMMA SavedAlike ==
    ASSUME RuledInv, SaveReplay
    PROVE  OneRate'
  <1> USE DEF RuledInv
  <1>1. CASE file' = Stock
    BY <1>1 DEF OneRate, Stock
  <1>2. CASE file' = Extension
    <2>1. /\ file'.rate = rate /\ file'.settings = cfg
          /\ \A s \in Stages : file'.ran[s] = IF s \in game.kept THEN ran[s] ELSE {}
      BY <1>2 DEF Extension
    <2>2. rate = RateAt(refresh)
      BY DEF SaveReplay, InFrame, Ruled, InForce
    <2>3. ~cfg.substep => rate = 60
      BY <2>2 DEF RateAt, LogicRate
    <2>4. \A s \in Stages : file'.ran[s] \subseteq {<<cfg, rate>>}
      BY <2>1 DEF Ruled, KeptAlike
    <2> QED BY <2>1, <2>3, <2>4 DEF Types, OneRate
  <1> QED BY <1>1, <1>2 DEF SaveReplay

\* Loading a replay gives back what another had borrowed.
LEMMA RuledLoad ==
    ASSUME RuledInv, ~ReloadFails, NEW r \in {"title", "play"}, LoadReplay(r)
    PROVE  Ruled'
  <1> USE DEF RuledInv
  <1>1. /\ ~ratePending /\ borrowed' = {} /\ playing' = FALSE /\ cfg' = Restored
        /\ loaded' = ReadChunks(file) /\ game' = [mode |-> r, stage |-> Nowhere, kept |-> {}]
        /\ UNCHANGED <<fps, display, ratePending, refresh, rate, file, ran>>
    BY DEF LoadReplay, InFrame, PlayingAfterLoad
  <1>2. r = "title" => game.mode = "title" /\ ~playing
    BY DEF LoadReplay
  <1>3. Applied'
    BY <1>1 DEF Ruled, Applied
  <1>4. InForce'
    <2>1. CASE r = "play"
      BY <1>1, <2>1 DEF InForce
    <2>2. CASE r = "title"
      <3>1. cfg' = cfg
        BY <1>1, <1>2, <2>2 DEF Ruled, Borrowed, Restored
      <3>2. RateAt(refresh)' = RateAt(refresh)
        BY <1>1, <1>2, <2>2, <3>1 DEF RateAt
      <3> QED BY <1>1, <1>2, <2>2, <3>2 DEF Ruled, InForce
    <2> QED BY <2>1, <2>2
  <1>5. KeptAlike'
    BY <1>1 DEF Ruled, KeptAlike
  <1>6. OneRate'
    BY <1>1 DEF Ruled, OneRate
  <1>7. Borrowed'
    BY <1>1 DEF Borrowed, ReadChunks
  <1> QED BY <1>3, <1>4, <1>5, <1>6, <1>7 DEF Ruled

\* Every step keeps what is in force.
LEMMA RuledNext ==
    ASSUME HasManager, Displays = {Display}, ~ReloadFails
    PROVE  RuledInv /\ [Next]_vars => RuledInv'
  <1> SUFFICES ASSUME RuledInv, [Next]_vars PROVE Ruled'
    BY TypesNext DEF RuledInv
  <1>1. CASE Frame
    <2>1. Types'
      BY TypesNext DEF RuledInv
    <2> QED BY <1>1, <2>1, RuledFrame
  <1>2. ASSUME NEW c \in Settings, NEW f \in Rates, UiSet(c, f)
        PROVE  Ruled'
    BY <1>2, RuledUiSet
  <1>3. ASSUME NEW hz \in Displays, DeviceReset(hz)
        PROVE  Ruled'
    <2>1. DeviceReset(Display)
      BY <1>3
    <2> QED BY <2>1, RuledReset
  <1>4. CASE UiSave
    BY <1>4 DEF UiSave, RuledInv, Ruled, Applied, InForce, RateAt, KeptAlike, OneRate, Borrowed
  <1>5. CASE Restart
    BY <1>5, RuledRestart
  <1>6. CASE \/ NewGame \/ GameOver
             \/ \E s \in Stages : StageStart(s) \/ PlayStage(s)
             \/ \E v \in Bits : RecordTick(v)
    BY <1>6, RuledRecording
  <1>7. CASE SaveReplay
    BY <1>7, SavedAlike, RuledTitle DEF SaveReplay
  <1>8. CASE Leave
    <2>1. OneRate'
      BY <1>8 DEF Leave, RuledInv, Ruled, OneRate
    <2> QED BY <1>8, <2>1, RuledTitle DEF Leave
  <1>9. ASSUME NEW r \in {"title", "play"}, LoadReplay(r)
        PROVE  Ruled'
    BY <1>9, RuledLoad
  <1>10. CASE OtherFile
    <2>1. OneRate'
      BY <1>10, StockKnown DEF OtherFile, OneRate
    <2>2. Applied' /\ InForce' /\ KeptAlike' /\ Borrowed'
      BY <1>10 DEF OtherFile, SettingsOf, RuledInv, Ruled, Applied, InForce, RateAt, KeptAlike, Borrowed
    <2> QED BY <2>1, <2>2 DEF Ruled
  <1>11. CASE UNCHANGED vars
    BY <1>11 DEF vars, RuledInv, Ruled, Applied, InForce, RateAt, KeptAlike, OneRate, Borrowed
  <1> QED BY <1>1, <1>2, <1>3, <1>4, <1>5, <1>6, <1>7, <1>8, <1>9, <1>10, <1>11 DEF Next

\* A stage in play was run, all of it, under the rate and the settings in force.
LEMMA RuledPlays == RuledInv => PlaysAsRecorded
  <1> SUFFICES ASSUME RuledInv, game.mode = "play", game.stage # Nowhere, loaded.meta = "good"
               PROVE  file.ran[game.stage] = {<<cfg, rate>>}
    BY DEF PlaysAsRecorded
  <1> USE DEF RuledInv
  <1>1. /\ playing /\ ~ratePending /\ game.stage \in Stages /\ file.meta = "good"
        /\ cfg = file.settings /\ loaded.rate = InRange(file.rate)
        /\ file.ran[game.stage] # {}
    BY DEF Types, Ruled, Applied, Borrowed
  <1>2. /\ file.rate \in Legal
        /\ ~file.settings.substep => file.rate = 60
        /\ file.ran[game.stage] \subseteq {<<file.settings, file.rate>>}
    BY <1>1 DEF Ruled, OneRate
  <1>3. loaded.rate = file.rate
    <2>1. \A r \in Legal : InRange(r) = r
      BY DEF InRange, Legal
    <2> QED BY <1>1, <1>2, <2>1
  <1>4. rate = LogicRate(cfg, loaded.rate)
    BY <1>1, <1>2, <1>3, LegalIsNat DEF Ruled, InForce, RateAt
  <1>5. rate = file.rate
    <2>1. cfg \in Settings /\ loaded.rate \in Nat
      BY DEF Types, LoadKnown
    <2>2. /\ ~cfg.substep => rate = 60
          /\ cfg.substep /\ loaded.rate \in Legal => rate = loaded.rate
      <3>1. PICK c \in Settings : c = cfg
        BY <2>1
      <3>2. PICK want \in Nat : want = loaded.rate
        BY <2>1
      <3>3. /\ ~c.substep => LogicRate(c, want) = 60
            /\ c.substep /\ want \in Legal => LogicRate(c, want) = want
        BY LogicRated
      <3> QED BY <1>4, <3>1, <3>2, <3>3
    <2> QED BY <1>1, <1>2, <1>3, <2>2, <2>1, SessionConstants
  <1> QED BY <1>1, <1>2, <1>5

\* A stage of a replay plays back at the rate and under the settings all its
\* ticks were recorded with (replay.c:12-63), in a game whose profile names the
\* replay manager, as long as the display keeps its rate and a file that was
\* playing can be started over.
THEOREM PlaybackAsRecorded ==
    ASSUME HasManager, Displays = {Display}, ~ReloadFails
    PROVE  Spec => []PlaysAsRecorded
  <1>1. Init => RuledInv
    BY TypesInit, RuledInit DEF RuledInv
  <1>2. RuledInv /\ [Next]_vars => RuledInv'
    BY RuledNext
  <1>3. RuledInv => PlaysAsRecorded
    BY RuledPlays
  <1> QED BY <1>1, <1>2, <1>3, PTL DEF Spec

-------------------------------------------------------------------------------
(* Induction up to a number, and what it gives. *)

\* A set of natural numbers has a least element.
LEMMA LeastOf ==
    ASSUME NEW S, S \subseteq Nat, S # {}
    PROVE  \E x \in S : \A y \in S : x <= y
  <1> DEFINE R == OpToRel(<, Nat)
  <1>1. IsWellFoundedOn(R, Nat)
    BY NatLessThanWellFounded
  <1>2. PICK x \in S : \A y \in S : <<y, x>> \notin R
    <2> HIDE DEF R
    <2> QED BY <1>1, WFMin
  <1>3. \A y \in S : ~(y < x)
    BY <1>2 DEF OpToRel
  <1> QED BY <1>3

\* What holds of 0, and of i + 1 where it holds of i, holds up to m.
LEMMA UpTo ==
    ASSUME NEW m \in Nat, NEW T, 0 \in T, \A i \in 0..m - 1 : i \in T => i + 1 \in T
    PROVE  \A i \in 0..m : i \in T
  <1> SUFFICES ASSUME (0..m) \ T # {} PROVE FALSE
    OBVIOUS
  <1>1. PICK x \in (0..m) \ T : \A y \in (0..m) \ T : x <= y
    <2>1. (0..m) \ T \subseteq Nat
      OBVIOUS
    <2> QED BY <2>1, LeastOf
  <1>2. x # 0 /\ x - 1 \in 0..m - 1 /\ x - 1 + 1 = x
    BY <1>1
  <1>3. x - 1 \in T
    BY <1>1, <1>2
  <1> QED BY <1>1, <1>2, <1>3

\* A function that is defined by its value at 0 and a step exists.
Iterates(g, m, A, base, step) ==
    g \in [0..m -> A] /\ g[0] = base /\ \A i \in 1..m : g[i] = step[i][g[i - 1]]

LEMMA Recursion ==
    ASSUME NEW m \in Nat, NEW A, NEW base \in A, NEW step \in [1..m -> [A -> A]]
    PROVE  \E g : Iterates(g, m, A, base, step)
  <1> DEFINE Steps(k, g) == g[0] = base /\ \A i \in 1..k : g[i] = step[i][g[i - 1]]
             T == {k \in 0..m : \E g \in [0..k -> A] : Steps(k, g)}
  <1>1. 0 \in T
    <2>1. [i \in 0..0 |-> base] \in [0..0 -> A] /\ Steps(0, [i \in 0..0 |-> base])
      OBVIOUS
    <2>2. 0 \in 0..m
      OBVIOUS
    <2> QED BY <2>1, <2>2
  <1>2. \A i \in 0..m - 1 : i \in T => i + 1 \in T
    <2> SUFFICES ASSUME NEW k \in 0..m - 1, k \in T PROVE k + 1 \in T
      OBVIOUS
    <2>1. PICK g \in [0..k -> A] : Steps(k, g)
      OBVIOUS
    <2> DEFINE h == [i \in 0..k + 1 |-> IF i = k + 1 THEN step[k + 1][g[k]] ELSE g[i]]
    <2>2. h \in [0..k + 1 -> A]
      <3>1. g[k] \in A /\ k + 1 \in 1..m
        OBVIOUS
      <3>2. step[k + 1][g[k]] \in A
        BY <3>1
      <3> QED BY <3>2
    <2>3. Steps(k + 1, h)
      <3>1. h[0] = base
        BY <2>1
      <3>2. ASSUME NEW i \in 1..k + 1 PROVE h[i] = step[i][h[i - 1]]
        BY <2>1
      <3> QED BY <3>1, <3>2
    <2>4. k + 1 \in 0..m
      OBVIOUS
    <2> QED BY <2>2, <2>3, <2>4
  <1>3. m \in T
    <2>1. m \in 0..m
      OBVIOUS
    <2> HIDE DEF T
    <2> QED BY <1>1, <1>2, <2>1, UpTo
  <1> QED BY <1>3 DEF Iterates

-------------------------------------------------------------------------------
(* The runs of a stream. *)

\* The run of a pair fits its byte.
LEMMA FitsByte ==
    ASSUME NEW x \in Nat, x <= MaxRun
    PROVE  Byte(x) = x
  <1>1. MaxRun \in Nat
    BY SessionConstants
  <1>2. PICK b \in Nat : b = MaxRun + 1 /\ x < b
    BY <1>1
  <1>3. x % b = x
    BY <1>2
  <1> QED BY <1>2, <1>3 DEF Byte

\* A run is at least a tick and at most MaxRun, and of one value.
RunFrom(d, i, j) ==
    /\ j \in i + 1..Len(d) + 1 /\ j - i <= MaxRun
    /\ \A k \in i..j - 1 : d[k] = d[i]

LEMMA RunEndIs ==
    ASSUME NEW d \in Seq(Bits), NEW i \in 1..Len(d)
    PROVE  RunFrom(d, i, RunEnd(d, i))
  <1> DEFINE Ends(j) == j - i = MaxRun \/ j = Len(d) + 1 \/ d[j] # d[i]
             S == {j \in i + 1..Len(d) + 1 : Ends(j)}
  <1>1. MaxRun \in Nat /\ MaxRun >= 1 /\ Len(d) \in Nat
    BY SessionConstants
  <1>2. PICK j \in S : \A y \in S : j <= y
    <2>1. Len(d) + 1 \in S /\ S \subseteq Nat
      BY <1>1
    <2> HIDE DEF S
    <2> QED BY <2>1, LeastOf
  <1>3. j \in i + 1..Len(d) + 1 /\ Ends(j) /\ \A k \in i + 1..j - 1 : ~Ends(k)
    <2> SUFFICES ASSUME NEW k \in i + 1..j - 1, Ends(k) PROVE FALSE
      BY <1>2
    <2>1. k \in S /\ k < j
      BY <1>1, <1>2
    <2> QED BY <1>1, <1>2, <2>1
  <1>4. j - i <= MaxRun
    <2> SUFFICES ASSUME j - i > MaxRun PROVE FALSE
      BY <1>1, <1>3
    <2>1. PICK k : k = i + MaxRun
      OBVIOUS
    <2>3. k \in i + 1..j - 1 /\ k - i = MaxRun
      BY <1>1, <1>3, <2>1
    <2>2. Ends(k)
      BY <2>3
    <2> HIDE DEF Ends
    <2> QED BY <1>3, <2>3, <2>2
  <1>5. \A k \in i..j - 1 : d[k] = d[i]
    BY <1>1, <1>3
  <1>6. \E y \in i + 1..Len(d) + 1 :
            /\ y - i <= MaxRun /\ \A k \in i..y - 1 : d[k] = d[i]
            /\ y - i = MaxRun \/ y = Len(d) + 1 \/ d[y] # d[i]
    BY <1>3, <1>4, <1>5
  <1> QED BY <1>6 DEF RunEnd, RunFrom

\* Where the runs of a stream end.
LEMMA BoundsAre ==
    ASSUME NEW d \in Seq(Bits)
    PROVE  /\ Bounds(d) \in [0..Len(d) -> 1..Len(d) + 1] /\ Bounds(d)[0] = 1
           /\ \A k \in 1..Len(d) :
                 IF Bounds(d)[k - 1] > Len(d) THEN Bounds(d)[k] = Bounds(d)[k - 1]
                 ELSE RunFrom(d, Bounds(d)[k - 1], Bounds(d)[k])
  <1> DEFINE m == Len(d)
             A == 1..m + 1
             Eq(g) == g = [k \in 0..m |-> IF k = 0 THEN 1
                                          ELSE IF g[k - 1] > m THEN g[k - 1] ELSE RunEnd(d, g[k - 1])]
             step == [k \in 1..m |-> [a \in A |-> IF a > m THEN a ELSE RunEnd(d, a)]]
  <1>1. m \in Nat /\ 1 \in A
    OBVIOUS
  <1>2. ASSUME NEW a \in A, ~(a > m) PROVE RunFrom(d, a, RunEnd(d, a)) /\ RunEnd(d, a) \in A
    <2>1. a \in 1..Len(d)
      BY <1>2
    <2>2. RunFrom(d, a, RunEnd(d, a))
      BY <2>1, RunEndIs
    <2> QED BY <2>1, <2>2 DEF RunFrom
  <1>3. step \in [1..m -> [A -> A]]
    <2>1. ASSUME NEW a \in A PROVE (IF a > m THEN a ELSE RunEnd(d, a)) \in A
      BY <1>2
    <2> QED BY <2>1
  <1>4. \E g : Iterates(g, m, A, 1, step)
    <2>1. PICK s, B : s = step /\ B = A
      OBVIOUS
    <2>2. s \in [1..m -> [B -> B]] /\ 1 \in B
      BY <1>1, <1>3, <2>1
    <2>3. \E g : Iterates(g, m, B, 1, s)
      <3> HIDE DEF step, m, A
      <3> QED BY <1>1, <2>2, Recursion
    <2> QED BY <2>1, <2>3
  <1>5. \E g : Eq(g)
    <2>1. PICK g \in [0..m -> A] : g[0] = 1 /\ \A k \in 1..m : g[k] = step[k][g[k - 1]]
      BY <1>4 DEF Iterates
    <2>2. ASSUME NEW k \in 1..m
          PROVE  g[k] = IF g[k - 1] > m THEN g[k - 1] ELSE RunEnd(d, g[k - 1])
      <3>1. k - 1 \in 0..m /\ g[k - 1] \in A
        BY <1>1, <2>1
      <3>2. step[k] = [a \in A |-> IF a > m THEN a ELSE RunEnd(d, a)]
        OBVIOUS
      <3>3. g[k] = step[k][g[k - 1]]
        BY <2>1
      <3> HIDE DEF step, A, m
      <3> QED BY <3>1, <3>2, <3>3
    <2>3. Eq(g)
      BY <1>1, <2>1, <2>2
    <2> QED BY <2>3
  <1>6. PICK c : c = CHOOSE g : Eq(g)
    OBVIOUS
  <1>7. Eq(c)
    BY <1>5, <1>6
  <1>8. Bounds(d) = c
    BY <1>6 DEF Bounds
  <1>9. \A k \in 0..m : c[k] \in A
    <2> DEFINE T == {k \in 0..m : c[k] \in A}
    <2>1. 0 \in T
      BY <1>1, <1>7
    <2>2. \A k \in 0..m - 1 : k \in T => k + 1 \in T
      <3> SUFFICES ASSUME NEW k \in 0..m - 1, k \in T PROVE k + 1 \in T
        OBVIOUS
      <3>1. k + 1 \in 0..m /\ c[k] \in A
            /\ c[k + 1] = IF c[k] > m THEN c[k] ELSE RunEnd(d, c[k])
        BY <1>1, <1>7
      <3> QED BY <1>2, <3>1
    <2>3. \A k \in 0..m : k \in T
      <3> HIDE DEF T
      <3> QED BY <1>1, <2>1, <2>2, UpTo
    <2> QED BY <2>3
  <1>10. c \in [0..m -> A] /\ c[0] = 1
    BY <1>1, <1>7, <1>9
  <1>11. ASSUME NEW k \in 1..m
         PROVE  IF c[k - 1] > m THEN c[k] = c[k - 1] ELSE RunFrom(d, c[k - 1], c[k])
    <2>1. k - 1 \in 0..m /\ c[k - 1] \in A
          /\ c[k] = IF c[k - 1] > m THEN c[k - 1] ELSE RunEnd(d, c[k - 1])
      BY <1>1, <1>7, <1>9
    <2> QED BY <1>2, <2>1
  <1> QED BY <1>8, <1>10, <1>11

\* The runs of a stream, the k-th from end[k - 1] to before end[k], and all its
\* ticks are in one.
RunsOf(d, n, end) ==
    /\ n \in 0..Len(d) /\ end \in [0..n -> 1..Len(d) + 1]
    /\ end[0] = 1 /\ end[n] = Len(d) + 1
    /\ \A k \in 1..n : end[k - 1] <= Len(d) /\ RunFrom(d, end[k - 1], end[k])

PairsOf(d, n, end) == [k \in 1..n |-> [bits |-> d[end[k - 1]], run |-> end[k] - end[k - 1]]]

LEMMA PairsAre ==
    ASSUME NEW d \in Seq(Bits)
    PROVE  \E n, end : RunsOf(d, n, end) /\ Pairs(d) = PairsOf(d, n, end)
  <1> DEFINE m == Len(d)
  <1>1. PICK c \in [0..m -> 1..m + 1] :
            /\ Bounds(d) = c /\ c[0] = 1
            /\ \A k \in 1..m : IF c[k - 1] > m THEN c[k] = c[k - 1] ELSE RunFrom(d, c[k - 1], c[k])
    BY BoundsAre
  <1>2. m \in Nat /\ MaxRun \in Nat
    BY SessionConstants
  <1>3. c[m] > m
    <2> DEFINE T == {k \in 0..m : c[k] > k}
    <2>1. 0 \in T
      BY <1>1, <1>2
    <2>2. \A k \in 0..m - 1 : k \in T => k + 1 \in T
      <3> SUFFICES ASSUME NEW k \in 0..m - 1, c[k] > k PROVE c[k + 1] > k + 1
        BY <1>2
      <3>1. k + 1 \in 1..m /\ k + 1 - 1 = k /\ c[k] \in 1..m + 1
        BY <1>1, <1>2
      <3>2. CASE c[k] > m
        <4>1. c[k + 1] = c[k]
          BY <1>1, <3>1, <3>2
        <4> QED BY <1>2, <3>1, <3>2, <4>1
      <3>3. CASE ~(c[k] > m)
        <4>1. RunFrom(d, c[k], c[k + 1])
          BY <1>1, <3>1, <3>3
        <4>2. c[k + 1] \in c[k] + 1..m + 1
          BY <4>1 DEF RunFrom
        <4> QED BY <1>2, <3>1, <4>2
      <3> QED BY <3>2, <3>3
    <2>3. \A k \in 0..m : k \in T
      <3> HIDE DEF T
      <3> QED BY <1>2, <2>1, <2>2, UpTo
    <2>4. m \in T
      <3>1. m \in 0..m
        BY <1>2
      <3> HIDE DEF T
      <3> QED BY <2>3, <3>1
    <2> QED BY <2>4
  <1> DEFINE IsLast(k) == c[k] > m /\ \A i \in 0..k - 1 : c[i] <= m
             S == {k \in 0..m : c[k] > m}
  <1>4. PICK k \in S : \A y \in S : k <= y
    <2>1. m \in S /\ S \subseteq Nat
      BY <1>2, <1>3
    <2> HIDE DEF S
    <2> QED BY <2>1, LeastOf
  <1>5. IsLast(k) /\ k \in 0..m
    <2>1. ASSUME NEW i \in 0..k - 1 PROVE c[i] <= m
      <3> SUFFICES ASSUME ~(c[i] <= m) PROVE FALSE
        OBVIOUS
      <3>1. i \in 0..m /\ i < k
        BY <1>2, <1>4
      <3>2. c[i] \in 1..m + 1
        BY <1>1, <3>1
      <3>3. i \in S
        BY <1>2, <3>1, <3>2
      <3> HIDE DEF S
      <3> QED BY <1>4, <3>1, <3>3
    <2> QED BY <1>4, <2>1
  <1>6. PICK n : n = CHOOSE j \in 0..m : IsLast(j)
    OBVIOUS
  <1>7. n \in 0..m /\ IsLast(n)
    BY <1>5, <1>6
  <1>8. Pairs(d) = [j \in 1..n |-> [bits |-> d[c[j - 1]], run |-> Byte(c[j] - c[j - 1])]]
    BY <1>1, <1>6 DEF Pairs
  <1> DEFINE end == [j \in 0..n |-> c[j]]
  <1>9. ASSUME NEW j \in 1..n
        PROVE  /\ c[j - 1] <= m /\ RunFrom(d, c[j - 1], c[j])
               /\ Byte(c[j] - c[j - 1]) = c[j] - c[j - 1]
               /\ end[j] = c[j] /\ end[j - 1] = c[j - 1]
    <2>1. j - 1 \in 0..n - 1 /\ j \in 1..m /\ j \in 0..n /\ j - 1 \in 0..n /\ j - 1 \in 0..m
      BY <1>2, <1>7
    <2>2. c[j - 1] <= m /\ c[j - 1] \in 1..m + 1
      BY <1>1, <1>7, <2>1
    <2>3. RunFrom(d, c[j - 1], c[j])
      BY <1>1, <1>2, <2>1, <2>2
    <2>4. PICK x \in Nat : x = c[j] - c[j - 1] /\ x <= MaxRun
      BY <1>2, <2>2, <2>3 DEF RunFrom
    <2>5. Byte(x) = x
      BY <2>4, FitsByte
    <2> QED BY <2>1, <2>2, <2>3, <2>4, <2>5
  <1>10. RunsOf(d, n, end)
    <2>1. n \in 0..m /\ end \in [0..n -> 1..m + 1]
      <3>1. \A j \in 0..n : j \in 0..m
        BY <1>2, <1>7
      <3>2. \A j \in 0..n : c[j] \in 1..m + 1
        BY <1>1, <3>1
      <3> QED BY <1>7, <3>2
    <2>2. end[0] = 1 /\ end[n] = m + 1
      <3>1. c[n] \in 1..m + 1 /\ c[n] > m /\ n \in 0..n /\ 0 \in 0..n
        BY <1>1, <1>2, <1>7
      <3>2. end[0] = c[0] /\ end[n] = c[n]
        BY <3>1
      <3>3. \A x \in 1..m + 1 : x > m => x = m + 1
        BY <1>2
      <3> HIDE DEF end
      <3> QED BY <1>1, <3>1, <3>2, <3>3
    <2> HIDE DEF end
    <2> QED BY <1>9, <2>1, <2>2 DEF RunsOf
  <1>11. Pairs(d) = PairsOf(d, n, end)
    <2> HIDE DEF end
    <2> QED BY <1>8, <1>9 DEF PairsOf
  <1> QED BY <1>10, <1>11

\* The ticks of its pairs are those of the stream,
LEMMA PairsAddUp ==
    ASSUME NEW d \in Seq(Bits)
    PROVE  /\ RunsSum(Pairs(d)) = Len(d)
           /\ \A p \in DOMAIN Pairs(d) : Pairs(d)[p].run > 0
  <1>1. PICK n, end : RunsOf(d, n, end) /\ Pairs(d) = PairsOf(d, n, end)
    BY PairsAre
  <1>2. PICK q : q = PairsOf(d, n, end)
    OBVIOUS
  <1> DEFINE Eq(g) == g = [k \in 0..n |-> IF k = 0 THEN 0 ELSE g[k - 1] + q[k].run]
  <1>3. n \in Nat /\ Len(q) = n /\ DOMAIN q = 1..n /\ Len(d) \in Nat
    BY <1>1, <1>2 DEF RunsOf, PairsOf
  <1>4. ASSUME NEW k \in 1..n
        PROVE  q[k].run = end[k] - end[k - 1] /\ q[k].run > 0
               /\ end[k] \in Nat /\ end[k - 1] \in Nat
    <2>1. k - 1 \in 0..n /\ k \in 0..n
      BY <1>3
    <2>2. end[k] \in Nat /\ end[k - 1] \in Nat
      BY <1>1, <2>1 DEF RunsOf
    <2>3. RunFrom(d, end[k - 1], end[k])
      BY <1>1 DEF RunsOf
    <2>4. q[k].run = end[k] - end[k - 1]
      BY <1>2 DEF PairsOf
    <2> QED BY <1>3, <2>2, <2>3, <2>4 DEF RunFrom
  <1>5. \E g : Eq(g)
    <2>0. PICK sum \in [0..n -> Int] : \A k \in 0..n : sum[k] = end[k] - 1
      <3>1. \A k \in 0..n : end[k] - 1 \in Int
        BY <1>1 DEF RunsOf
      <3>2. [k \in 0..n |-> end[k] - 1] \in [0..n -> Int]
        BY <3>1
      <3> QED BY <3>2
    <2>1. sum[0] = 0
      BY <1>1, <1>3, <2>0 DEF RunsOf
    <2>2. ASSUME NEW k \in 1..n PROVE sum[k] = sum[k - 1] + q[k].run
      <3>1. k - 1 \in 0..n /\ k \in 0..n
        BY <1>3
      <3>2. sum[k] = end[k] - 1 /\ sum[k - 1] = end[k - 1] - 1
        BY <2>0, <3>1
      <3> QED BY <1>4, <3>2
    <2>3. Eq(sum)
      BY <1>3, <2>1, <2>2
    <2> QED BY <2>3
  <1>6. PICK c : c = CHOOSE g : Eq(g)
    OBVIOUS
  <1>7. Eq(c)
    <2> HIDE DEF Eq
    <2> QED BY <1>5, <1>6
  <1>8. RunsSum(q) = c[n]
    BY <1>3, <1>6 DEF RunsSum
  <1>9. \A k \in 0..n : c[k] = end[k] - 1
    <2> DEFINE T == {k \in 0..n : c[k] = end[k] - 1}
    <2>1. 0 \in T
      BY <1>1, <1>3, <1>7 DEF RunsOf
    <2>2. \A k \in 0..n - 1 : k \in T => k + 1 \in T
      <3> SUFFICES ASSUME NEW k \in 0..n - 1, k \in T PROVE k + 1 \in T
        OBVIOUS
      <3>1. k + 1 \in 1..n /\ k + 1 \in 0..n /\ k + 1 - 1 = k
        BY <1>3
      <3>2. c[k + 1] = c[k] + q[k + 1].run
        BY <1>7, <1>3, <3>1
      <3>3. q[k + 1].run = end[k + 1] - end[k] /\ end[k + 1] \in Nat /\ end[k] \in Nat
        BY <1>4, <3>1
      <3> QED BY <3>1, <3>2, <3>3
    <2>3. \A k \in 0..n : k \in T
      <3> HIDE DEF T
      <3> QED BY <1>3, <2>1, <2>2, UpTo
    <2> QED BY <2>3
  <1>10. c[n] = Len(d)
    <2>1. n \in 0..n /\ end[n] = Len(d) + 1
      BY <1>1, <1>3 DEF RunsOf
    <2> QED BY <1>3, <1>9, <2>1
  <1> QED BY <1>1, <1>2, <1>3, <1>4, <1>8, <1>10

\* in their order.
LEMMA PairsUnrun ==
    ASSUME NEW d \in Seq(Bits)
    PROVE  Unrun(Pairs(d)) = d
  <1>1. PICK n, end : RunsOf(d, n, end) /\ Pairs(d) = PairsOf(d, n, end)
    BY PairsAre
  <1>2. PICK q : q = PairsOf(d, n, end)
    OBVIOUS
  <1> DEFINE Run(k) == [i \in 1..q[k].run |-> q[k].bits]
             Eq(g) == g = [k \in 0..n |-> IF k = 0 THEN <<>> ELSE g[k - 1] \o Run(k)]
  <1>3. n \in Nat /\ Len(q) = n /\ Len(d) \in Nat
    BY <1>1, <1>2 DEF RunsOf, PairsOf
  <1>4. ASSUME NEW k \in 1..n
        PROVE  SubSeq(d, 1, end[k] - 1) = SubSeq(d, 1, end[k - 1] - 1) \o Run(k)
    <2>1. k - 1 \in 0..n /\ k \in 0..n
      BY <1>3
    <2>2. PICK x, y \in 1..Len(d) + 1 : x = end[k - 1] /\ y = end[k]
      BY <1>1, <2>1 DEF RunsOf
    <2>3. RunFrom(d, x, y) /\ x <= Len(d)
      BY <1>1, <2>2 DEF RunsOf
    <2>4. q[k].run = y - x /\ q[k].bits = d[x]
      BY <1>2, <2>2 DEF PairsOf
    <2>5. Run(k) = [i \in 1..y - x |-> d[x]]
      BY <2>4
    <2>6. SubSeq(d, 1, y - 1) = SubSeq(d, 1, x - 1) \o [i \in 1..y - x |-> d[x]]
      <3> DEFINE a == SubSeq(d, 1, x - 1)
                 b == [i \in 1..y - x |-> d[x]]
      <3>1. y - x \in Nat /\ x - 1 \in 0..Len(d) /\ y - 1 \in 0..Len(d)
        BY <1>3, <2>3 DEF RunFrom
      <3>2. d[x] \in Bits
        BY <1>3, <2>3
      <3>3. b \in Seq(Bits) /\ Len(b) = y - x
        BY <3>1, <3>2
      <3>4. a \in Seq(Bits) /\ Len(a) = x - 1 /\ \A i \in 1..x - 1 : a[i] = d[i]
        BY <1>3, <3>1
      <3>5. SubSeq(d, 1, y - 1) \in Seq(Bits) /\ Len(SubSeq(d, 1, y - 1)) = y - 1
            /\ \A i \in 1..y - 1 : SubSeq(d, 1, y - 1)[i] = d[i]
        BY <1>3, <3>1
      <3>6. a \o b \in Seq(Bits) /\ Len(a \o b) = y - 1
        <4>1. (x - 1) + (y - x) = y - 1
          BY <1>3
        <4> HIDE DEF a, b
        <4>2. a \o b \in Seq(Bits) /\ Len(a \o b) = Len(a) + Len(b)
          BY <3>3, <3>4
        <4> QED BY <3>3, <3>4, <4>1, <4>2
      <3>7. ASSUME NEW i \in 1..y - 1 PROVE (a \o b)[i] = d[i]
        <4>1. CASE i <= x - 1
          <5>1. i \in 1..x - 1
            BY <1>3, <4>1
          <5>2. (a \o b)[i] = a[i]
            <6> HIDE DEF a, b
            <6> QED BY <3>3, <3>4, <5>1
          <5> HIDE DEF a, b
          <5> QED BY <3>4, <5>1, <5>2
        <4>2. CASE ~(i <= x - 1)
          <5>1. i - (x - 1) \in 1..y - x /\ i \in x..y - 1
            BY <1>3, <4>2, <2>3 DEF RunFrom
          <5>2. (a \o b)[i] = b[i - (x - 1)]
            <6> HIDE DEF a, b
            <6> QED BY <1>3, <3>1, <3>3, <3>4, <4>2, <5>1
          <5>3. b[i - (x - 1)] = d[x]
            BY <5>1
          <5>4. d[i] = d[x]
            BY <2>3, <5>1 DEF RunFrom
          <5> HIDE DEF a, b
          <5> QED BY <5>2, <5>3, <5>4
        <4> QED BY <4>1, <4>2
      <3> DEFINE whole == SubSeq(d, 1, y - 1)
      <3>8. whole = a \o b
        <4>1. whole \in Seq(Bits) /\ Len(whole) = y - 1 /\ \A i \in 1..y - 1 : whole[i] = d[i]
          BY <3>5
        <4> HIDE DEF whole, a, b
        <4>2. PICK v, w : v = whole /\ w = a \o b
          OBVIOUS
        <4>3. /\ v \in Seq(Bits) /\ w \in Seq(Bits) /\ Len(v) = Len(w)
              /\ \A i \in 1..Len(v) : v[i] = w[i]
          BY <3>6, <3>7, <4>1, <4>2
        <4>4. v = w
          BY ONLY <4>3
        <4> QED BY <4>2, <4>4
      <3> QED BY <3>8
    <2> HIDE DEF Run
    <2> QED BY <2>2, <2>5, <2>6
  <1>4a. PICK R : R = [k \in 1..n |-> Run(k)]
    OBVIOUS
  <1>4b. \A k \in 1..n : R[k] = Run(k)
    BY <1>4a
  <1>5. PICK ticks : ticks = [k \in 0..n |-> SubSeq(d, 1, end[k] - 1)]
    OBVIOUS
  <1>5a. \A k \in 0..n : ticks[k] = SubSeq(d, 1, end[k] - 1)
    BY <1>5
  <1>5b. ticks[0] = <<>>
    <2>1. ticks[0] = SubSeq(d, 1, 0)
      BY <1>1, <1>3, <1>5a DEF RunsOf
    <2> QED BY <2>1
  <1>5c. ASSUME NEW k \in 1..n PROVE ticks[k] = ticks[k - 1] \o R[k]
    <2>1. k - 1 \in 0..n /\ k \in 0..n
      BY <1>3
    <2>2. ticks[k] = SubSeq(d, 1, end[k] - 1) /\ ticks[k - 1] = SubSeq(d, 1, end[k - 1] - 1)
      BY <1>5a, <2>1
    <2> HIDE DEF Run
    <2> QED BY <1>4, <1>4b, <2>2
  <1>5d. Eq(ticks)
    <2>1. \A k \in 0..n : ticks[k] = IF k = 0 THEN <<>> ELSE ticks[k - 1] \o Run(k)
      <3> SUFFICES ASSUME NEW k \in 0..n
                   PROVE  ticks[k] = IF k = 0 THEN <<>> ELSE ticks[k - 1] \o Run(k)
        OBVIOUS
      <3>1. CASE k = 0
        BY <1>5b, <3>1
      <3>2. CASE k # 0
        <4>1. k \in 1..n
          BY <1>3, <3>2
        <4>2. ticks[k] = ticks[k - 1] \o R[k] /\ R[k] = Run(k)
          BY <1>4b, <1>5c, <4>1
        <4> HIDE DEF Run
        <4> QED BY <3>2, <4>2
      <3> QED BY <3>1, <3>2
    <2>2. ticks = [k \in 0..n |-> ticks[k]]
      BY <1>5
    <2> QED BY <2>1, <2>2
  <1>6. PICK c : c = CHOOSE g : Eq(g)
    OBVIOUS
  <1>7. Eq(c)
    <2> HIDE DEF Eq
    <2> QED BY <1>5d, <1>6
  <1>7a. \A k \in 1..n : c[k] = c[k - 1] \o R[k]
    <2> SUFFICES ASSUME NEW k \in 1..n PROVE c[k] = c[k - 1] \o R[k]
      OBVIOUS
    <2>1. k \in 0..n /\ k # 0
      BY <1>3
    <2>2. c[k] = c[k - 1] \o Run(k)
      BY <1>7, <2>1
    <2> HIDE DEF Run, Eq
    <2> QED BY <1>4b, <2>2
  <1>8. Unrun(q) = c[n]
    BY <1>3, <1>6 DEF Unrun
  <1>9. \A k \in 0..n : c[k] = ticks[k]
    <2> DEFINE T == {k \in 0..n : c[k] = ticks[k]}
    <2>1. 0 \in T
      BY <1>3, <1>5b, <1>7
    <2>2. \A k \in 0..n - 1 : k \in T => k + 1 \in T
      <3> SUFFICES ASSUME NEW k \in 0..n - 1, k \in T PROVE k + 1 \in T
        OBVIOUS
      <3>1. PICK j : j = k + 1
        OBVIOUS
      <3>2. j \in 1..n /\ j \in 0..n /\ j - 1 = k
        BY <1>3, <3>1
      <3>3. c[k] = ticks[k]
        OBVIOUS
      <3> HIDE DEF Eq
      <3>4. c[j] = c[j - 1] \o R[j]
        BY <1>7a, <3>2
      <3>5. ticks[j] = ticks[j - 1] \o R[j]
        BY <1>5c, <3>2
      <3> QED BY <3>1, <3>2, <3>3, <3>4, <3>5
    <2>3. \A k \in 0..n : k \in T
      <3> HIDE DEF T
      <3> QED BY <1>3, <2>1, <2>2, UpTo
    <2> QED BY <2>3
  <1>10. c[n] = d
    <2>1. n \in 0..n /\ end[n] = Len(d) + 1
      BY <1>1, <1>3 DEF RunsOf
    <2>2. c[n] = SubSeq(d, 1, end[n] - 1)
      BY <1>5a, <1>9, <2>1
    <2>3. end[n] - 1 = Len(d)
      BY <1>3, <2>1
    <2>4. SubSeq(d, 1, Len(d)) = d
      OBVIOUS
    <2> HIDE DEF Eq
    <2> QED BY <2>2, <2>3, <2>4
  <1> QED BY <1>1, <1>2, <1>8, <1>10

-------------------------------------------------------------------------------
(* The chunk of a file. *)

\* A set in a sequence: every element is once in it.
Enumerates(q, S) ==
    /\ q \in Seq(S)
    /\ \A k, l \in 1..Len(q) : q[k] = q[l] => k = l
    /\ \A x \in S : \E k \in 1..Len(q) : q[k] = x

LEMMA SetInSeq ==
    ASSUME NEW S, IsFiniteSet(S)
    PROVE  Enumerates(SetToSeq(S), S)
  <1> DEFINE n == Cardinality(S)
  <1>1. n \in Nat /\ ExistsBijection(1..n, S)
    BY FS_CardinalityType
  <1>2. PICK f \in Bijection(1..n, S) : TRUE
    BY <1>1 DEF ExistsBijection
  <1>3. f \in [1..n -> S] /\ IsInjective(f)
    BY <1>2 DEF Bijection, Injection
  <1>4. PICK q : q = SetToSeq(S)
    OBVIOUS
  <1>5. q \in [1..n -> S] /\ IsInjective(q)
    BY <1>3, <1>4 DEF SetToSeq
  <1>6. q \in Injection(1..n, S)
    BY <1>5 DEF Injection
  <1>7. IsFiniteSet(1..n) /\ Cardinality(1..n) = n
    BY <1>1, FS_Interval
  <1>8. q \in Surjection(1..n, S)
    BY <1>6, <1>7, FS_Injection
  <1>9. q \in Seq(S) /\ Len(q) = n
    BY <1>1, <1>5
  <1>10. \A x \in S : \E k \in 1..n : q[k] = x
    BY <1>8 DEF Surjection
  <1> QED BY <1>4, <1>5, <1>9, <1>10 DEF Enumerates, IsInjective

\* The streams of a set of stages are read as they were, and no other.
LEMMA InputRead ==
    ASSUME NEW R \in SUBSET Stages, \A s \in R : rec[s].d \in Seq(Bits) /\ Len(rec[s].d) <= Full
    PROVE  ParseInput(SetToSeq({InputOf(s) : s \in R})) =
             [s \in Stages |-> IF s \in R THEN rec[s].d ELSE <<>>]
  <1> DEFINE S == {InputOf(s) : s \in R}
  <1>1. PICK q : q = SetToSeq(S)
    OBVIOUS
  <1>2. Enumerates(q, S)
    <2>1. IsFiniteSet(R)
      BY FS_Subset, SessionConstants
    <2>2. PICK f : f = [s \in R |-> InputOf(s)]
      OBVIOUS
    <2>3. f \in Surjection(R, S)
      BY <2>2 DEF Surjection
    <2>4. IsFiniteSet(S)
      <3> HIDE DEF S
      <3> QED BY <2>1, <2>3, FS_Surjection
    <2> HIDE DEF S
    <2> QED BY <1>1, <2>4, SetInSeq
  <1>3. ASSUME NEW s \in R
        PROVE  /\ InputOf(s).stage = s /\ InputOf(s).n = Len(rec[s].d)
               /\ InputOf(s).pairs = Pairs(rec[s].d)
    BY DEF InputOf
  <1>4. ASSUME NEW k \in 1..Len(q)
        PROVE  q[k].stage \in R /\ q[k] = InputOf(q[k].stage)
    <2>1. q[k] \in S
      BY <1>2 DEF Enumerates
    <2> QED BY <1>3, <2>1
  <1>5. DOMAIN q = 1..Len(q)
    BY <1>2 DEF Enumerates
  <1>6. ASSUME NEW k \in 1..Len(q), NEW l \in 1..Len(q), q[k].stage = q[l].stage
        PROVE  k = l
    BY <1>2, <1>4, <1>6 DEF Enumerates
  <1>7. Valid(q)
    <2>1. ASSUME NEW k \in DOMAIN q
          PROVE  /\ q[k].n <= Full
                 /\ \A p \in DOMAIN q[k].pairs : q[k].pairs[p].run > 0
                 /\ RunsSum(q[k].pairs) = q[k].n
      <3>1. PICK s \in R : q[k].n = Len(rec[s].d) /\ q[k].pairs = Pairs(rec[s].d)
        BY <1>3, <1>4, <1>5
      <3>2. PICK d \in Seq(Bits) : d = rec[s].d
        OBVIOUS
      <3>3. /\ RunsSum(Pairs(d)) = Len(d)
            /\ \A p \in DOMAIN Pairs(d) : Pairs(d)[p].run > 0
        BY PairsAddUp
      <3> QED BY <3>1, <3>2, <3>3
    <2> QED BY <1>5, <1>6, <2>1 DEF Valid
  <1>8. ASSUME NEW s \in Stages
        PROVE  ParseInput(q)[s] = IF s \in R THEN rec[s].d ELSE <<>>
    <2>1. ParseInput(q)[s] = IF ChunksOf(q, s) = {} THEN <<>>
                             ELSE Unrun(q[CHOOSE k \in ChunksOf(q, s) : TRUE].pairs)
      BY <1>7 DEF ParseInput
    <2>2. CASE s \notin R
      <3>1. ChunksOf(q, s) = {}
        BY <1>4, <1>5, <2>2 DEF ChunksOf
      <3> QED BY <2>1, <2>2, <3>1
    <2>3. CASE s \in R
      <3>1. PICK k \in 1..Len(q) : q[k] = InputOf(s)
        <4>1. InputOf(s) \in S
          BY <2>3
        <4> HIDE DEF S
        <4> QED BY <1>2, <4>1 DEF Enumerates
      <3>2. ChunksOf(q, s) = {k}
        BY <1>3, <1>5, <1>6, <2>3, <3>1 DEF ChunksOf
      <3>3. (CHOOSE j \in ChunksOf(q, s) : TRUE) = k
        BY <3>2
      <3>4. ParseInput(q)[s] = Unrun(q[k].pairs)
        BY <2>1, <3>2, <3>3
      <3>5. PICK d \in Seq(Bits) : d = rec[s].d
        BY <2>3
      <3>6. Unrun(Pairs(d)) = d
        BY PairsUnrun
      <3> QED BY <1>3, <2>3, <3>1, <3>4, <3>5, <3>6
    <2> QED BY <2>2, <2>3
  <1>9. ParseInput(q) = [s \in Stages |-> ParseInput(q)[s]]
    BY <1>7 DEF ParseInput
  <1> QED BY <1>1, <1>8, <1>9

\* No input is read as no streams.
LEMMA NothingRead == ParseInput(<<>>) = Empty
  <1>1. \A s : ChunksOf(<<>>, s) = {}
    BY DEF ChunksOf
  <1> QED BY <1>1 DEF ParseInput, Empty

-------------------------------------------------------------------------------
(* The streams of a playback. *)

\* A stream holds ticks, and no more than there is room for.
Streamed ==
    /\ rec \in [Stages -> [d : Seq(Bits), failed : BOOLEAN]]
    /\ \A s \in Stages : Len(rec[s].d) <= Full

\* The stage that is recorded is one the game keeps; without a replay manager
\* to ask, what it does not keep has no stream.
OfTheGame ==
    /\ game.mode \in {"title", "result"} => game.stage = Nowhere
    /\ game.mode = "record" /\ game.stage # Nowhere => game.stage \in game.kept
    /\ ~HasManager /\ game.mode \in {"record", "result"} =>
          \A s \in Stages : s \notin game.kept => rec[s].d = <<>>

\* What a file says is what was recorded.
Written == ParseInput(file.input) = file.bits

StreamInv == Types /\ FileKnown /\ LoadKnown /\ Streamed /\ OfTheGame /\ Written /\ StreamsOfTheFile

\* A stock file, and one of another build, have no streams.
LEMMA OthersRead == \A f \in Others : ParseInput(f.input) = f.bits
  <1> DEFINE rated == [Stock EXCEPT !.rate = 120]
             bad   == [Stock EXCEPT !.rate = 120, !.meta = "bad"]
  <1>1. Stock.input = <<>> /\ Stock.bits = Empty
    BY DEF Stock
  <1>2. rated.input = <<>> /\ rated.bits = Empty
    BY DEF Stock
  <1>3. bad.input = <<>> /\ bad.bits = Empty
    BY DEF Stock
  <1>4. Others = {Stock, rated, bad}
    BY DEF Others
  <1> HIDE DEF rated, bad
  <1> QED BY <1>1, <1>2, <1>3, <1>4, NothingRead

\* The file saved from a game says what the game's stages recorded.
LEMMA SavedRead ==
    ASSUME Types, Streamed, OfTheGame, game.mode = "result"
    PROVE  ParseInput(Extension.input) = Extension.bits
  <1> DEFINE R == {s \in Stages : StageRecorded(s)}
  <1>1. CASE ~SubtickActive
    <2>1. Extension.input = <<>> /\ Extension.bits = [s \in Stages |-> <<>>]
      BY <1>1 DEF Extension
    <2> QED BY <2>1, NothingRead DEF Empty
  <1>2. CASE SubtickActive
    <2>1. Extension.input = SetToSeq({InputOf(s) : s \in R})
      BY <1>2 DEF Extension
    <2>2. Extension.bits = [s \in Stages |-> IF s \in game.kept THEN rec[s].d ELSE <<>>]
      BY <1>2 DEF Extension
    <2>3. ParseInput(Extension.input) = [s \in Stages |-> IF s \in R THEN rec[s].d ELSE <<>>]
      <3>1. R \in SUBSET Stages /\ \A s \in R : rec[s].d \in Seq(Bits) /\ Len(rec[s].d) <= Full
        BY DEF Streamed
      <3> HIDE DEF R
      <3> QED BY <2>1, <3>1, InputRead
    <2>4. ASSUME NEW s \in Stages
          PROVE  (IF s \in R THEN rec[s].d ELSE <<>>) = IF s \in game.kept THEN rec[s].d ELSE <<>>
      <3>1. HasManager \in BOOLEAN
        BY SessionConstants
      <3> QED BY <3>1 DEF StageRecorded, OfTheGame
    <2> QED BY <2>2, <2>3, <2>4
  <1> QED BY <1>1, <1>2

\* What is read, saved and recorded does not change where none of it does.
LEMMA StreamsKept ==
    ASSUME StreamInv, UNCHANGED <<loaded, rec, game, file>>
    PROVE  (Streamed /\ OfTheGame /\ Written /\ StreamsOfTheFile)'
  BY DEF StreamInv, Streamed, OfTheGame, Written, StreamsOfTheFile

\* A tick is appended where there is room.
LEMMA Pushed ==
    ASSUME NEW b \in [d : Seq(Bits), failed : BOOLEAN], Len(b.d) <= Full, NEW v \in Bits
    PROVE  Push(b, v) \in [d : Seq(Bits), failed : BOOLEAN] /\ Len(Push(b, v).d) <= Full
  <1>1. Full \in Nat
    BY SessionConstants
  <1>2. CASE b.failed
    BY <1>2 DEF Push
  <1>3. CASE ~b.failed /\ Len(b.d) >= Full
    <2>1. Push(b, v) = [b EXCEPT !.failed = TRUE]
      BY <1>3 DEF Push
    <2> QED BY <2>1
  <1>4. CASE ~b.failed /\ ~(Len(b.d) >= Full)
    <2>1. Push(b, v) = [b EXCEPT !.d = Append(b.d, v)]
      BY <1>4 DEF Push
    <2>2. PICK d \in Seq(Bits) : d = b.d
      OBVIOUS
    <2>3. Append(d, v) \in Seq(Bits) /\ Len(Append(d, v)) = Len(d) + 1 /\ Len(d) \in Nat
      OBVIOUS
    <2>4. PICK t : t = Append(d, v)
      OBVIOUS
    <2>5. t \in Seq(Bits) /\ Len(t) <= Full
      BY <1>1, <1>4, <2>2, <2>3, <2>4
    <2>6. Push(b, v) = [b EXCEPT !.d = t]
      BY <2>1, <2>2, <2>4
    <2>7. Push(b, v) \in [d : Seq(Bits), failed : BOOLEAN] /\ Push(b, v).d = t
      BY <2>5, <2>6
    <2> QED BY <2>5, <2>7
  <1> QED BY <1>2, <1>3, <1>4

\* Recording: a game begins, stage after stage, and a tick after the other.
LEMMA StreamsRecord ==
    ASSUME StreamInv,
           NewGame \/ (\E s \in Stages : StageStart(s)) \/ (\E v \in Bits : RecordTick(v))
    PROVE  (Streamed /\ OfTheGame)'
  <1> USE DEF StreamInv
  <1>1. CASE NewGame
    <2>1. rec' = rec \/ rec' = Unrecorded
      BY <1>1 DEF NewGame
    <2>2. game' = [game EXCEPT !.mode = "record", !.kept = {}]
      BY <1>1 DEF NewGame
    <2>3. Streamed'
      <3>1. Full >= 0
        BY SessionConstants
      <3>2. Unrecorded \in [Stages -> [d : Seq(Bits), failed : BOOLEAN]]
            /\ \A s \in Stages : Unrecorded[s].d = <<>>
        BY DEF Unrecorded
      <3> QED BY <2>1, <3>1, <3>2 DEF Streamed
    <2>4. game'.mode = "record" /\ game'.stage = Nowhere
      <3>1. game.stage = Nowhere
        BY <1>1 DEF NewGame, OfTheGame
      <3> QED BY <2>2, <3>1 DEF Types
    <2>5. ~HasManager => \A s \in Stages : rec'[s].d = <<>>
      BY <1>1 DEF NewGame, Unrecorded
    <2> QED BY <2>3, <2>4, <2>5 DEF OfTheGame
  <1>2. ASSUME NEW s \in Stages, StageStart(s)
        PROVE  (Streamed /\ OfTheGame)'
    <2>1. /\ rec' = [rec EXCEPT ![s] = [d |-> <<>>, failed |-> FALSE]]
          /\ game' = [game EXCEPT !.stage = s, !.kept = game.kept \cup {s}]
          /\ game.mode = "record"
      BY <1>2 DEF StageStart
    <2>2. Streamed'
      <3>1. Full >= 0 /\ [d |-> <<>>, failed |-> FALSE] \in [d : Seq(Bits), failed : BOOLEAN]
        BY SessionConstants
      <3>2. rec' \in [Stages -> [d : Seq(Bits), failed : BOOLEAN]]
        BY <2>1, <3>1 DEF Streamed
      <3>3. \A x \in Stages : rec'[x].d = <<>> \/ rec'[x].d = rec[x].d
        BY <2>1 DEF Streamed
      <3> QED BY <3>1, <3>2, <3>3 DEF Streamed
    <2>3. game'.mode = "record" /\ game'.stage = s /\ game'.kept = game.kept \cup {s}
      BY <2>1 DEF Types
    <2>4. \A x \in Stages : x # s => rec'[x] = rec[x]
      BY <2>1 DEF Streamed
    <2> QED BY <2>1, <2>2, <2>3, <2>4 DEF OfTheGame
  <1>3. ASSUME NEW v \in Bits, RecordTick(v)
        PROVE  (Streamed /\ OfTheGame)'
    <2> DEFINE s == game.stage
    <2>1. /\ rec' = rec \/ rec' = [rec EXCEPT ![s] = Push(rec[s], v)]
          /\ game' = game /\ game.mode = "record" /\ s \in Stages /\ s \in game.kept
      BY <1>3 DEF RecordTick, Types, OfTheGame
    <2>2. PICK b \in [d : Seq(Bits), failed : BOOLEAN] : b = rec[s] /\ Len(b.d) <= Full
      BY <2>1 DEF Streamed
    <2>3. Push(b, v) \in [d : Seq(Bits), failed : BOOLEAN] /\ Len(Push(b, v).d) <= Full
      BY <2>2, Pushed
    <2> HIDE DEF s
    <2>4. Streamed'
      BY <2>1, <2>2, <2>3 DEF Streamed
    <2>5. \A x \in Stages : x \notin game.kept => rec'[x] = rec[x]
      BY <2>1 DEF Streamed
    <2> QED BY <2>1, <2>4, <2>5 DEF OfTheGame
  <1> QED BY <1>1, <1>2, <1>3

\* Every step keeps what is recorded, written and read alike.
LEMMA StreamsNext ==
    StreamInv /\ [Next]_vars => (Streamed /\ OfTheGame /\ Written /\ StreamsOfTheFile)'
  <1> SUFFICES ASSUME StreamInv, [Next]_vars
               PROVE  (Streamed /\ OfTheGame /\ Written /\ StreamsOfTheFile)'
    OBVIOUS
  <1>1. CASE Frame \/ (\E c \in Settings, f \in Rates : UiSet(c, f))
             \/ (\E hz \in Displays : DeviceReset(hz)) \/ UiSave \/ UNCHANGED vars
    <2>1. UNCHANGED <<loaded, rec, game, file>>
      BY <1>1 DEF Frame, UiSet, DeviceReset, UiSave, vars
    <2> QED BY <2>1, StreamsKept
  <1> USE DEF StreamInv
  <1>2. CASE Restart
    <2>1. rec' = Unrecorded /\ game' = Title /\ file' = file
      BY <1>2 DEF Restart
    <2>2. Streamed'
      <3>1. Full >= 0
        BY SessionConstants
      <3>2. Unrecorded \in [Stages -> [d : Seq(Bits), failed : BOOLEAN]]
            /\ \A s \in Stages : Unrecorded[s].d = <<>>
        BY DEF Unrecorded
      <3> QED BY <2>1, <3>1, <3>2 DEF Streamed
    <2>3. game'.mode = "title" /\ game'.stage = Nowhere
      BY <2>1 DEF Title
    <2> QED BY <2>1, <2>2, <2>3 DEF OfTheGame, Written, StreamsOfTheFile
  <1>3. CASE NewGame \/ (\E s \in Stages : StageStart(s)) \/ (\E v \in Bits : RecordTick(v))
    <2>1. (Streamed /\ OfTheGame)'
      BY <1>3, StreamsRecord
    <2>2. file' = file /\ game'.mode = "record"
      BY <1>3 DEF NewGame, StageStart, RecordTick, Types
    <2> QED BY <2>1, <2>2 DEF Written, StreamsOfTheFile
  <1>4. ASSUME NEW s \in Stages, PlayStage(s)
        PROVE  (Streamed /\ OfTheGame /\ Written /\ StreamsOfTheFile)'
    <2>1. /\ UNCHANGED <<loaded, rec, file>> /\ game.mode = "play"
          /\ game' = [game EXCEPT !.stage = s]
      BY <1>4 DEF PlayStage
    <2>2. game'.mode = "play"
      BY <2>1 DEF Types
    <2> QED BY <2>1, <2>2 DEF Streamed, OfTheGame, Written, StreamsOfTheFile
  <1>5. CASE GameOver
    <2>1. /\ UNCHANGED <<rec, file>> /\ game.mode = "record"
          /\ game' = [game EXCEPT !.mode = "result", !.stage = Nowhere]
      BY <1>5 DEF GameOver
    <2>2. game'.mode = "result" /\ game'.stage = Nowhere /\ game'.kept = game.kept
      BY <2>1 DEF Types
    <2> QED BY <2>1, <2>2 DEF Streamed, OfTheGame, Written, StreamsOfTheFile
  <1>6. CASE SaveReplay
    <2>1. game.mode = "result" /\ game' = Title /\ rec' = rec
          /\ (file' = Stock \/ file' = Extension)
      BY <1>6 DEF SaveReplay
    <2>2. Written'
      <3>1. Stock \in Others
        BY DEF Others
      <3> QED BY <2>1, <3>1, OthersRead, SavedRead DEF Written
    <2>3. game'.mode = "title" /\ game'.stage = Nowhere
      BY <2>1 DEF Title
    <2> QED BY <2>1, <2>2, <2>3 DEF Streamed, OfTheGame, StreamsOfTheFile
  <1>7. ASSUME NEW r \in {"title", "play"}, LoadReplay(r)
        PROVE  (Streamed /\ OfTheGame /\ Written /\ StreamsOfTheFile)'
    <2>1. loaded' = ReadChunks(file) /\ rec' = rec /\ file' = file
          /\ game' = [mode |-> r, stage |-> Nowhere, kept |-> {}]
      BY <1>7 DEF LoadReplay
    <2>2. loaded'.play = file'.bits
      BY <2>1 DEF ReadChunks, Written
    <2>3. game'.mode \in {"title", "play"} /\ game'.stage = Nowhere
      BY <2>1
    <2> QED BY <2>1, <2>2, <2>3 DEF Streamed, OfTheGame, Written, StreamsOfTheFile
  <1>8. CASE Leave
    <2>1. UNCHANGED <<rec, file>> /\ game' = Title
      BY <1>8 DEF Leave
    <2>2. game'.mode = "title" /\ game'.stage = Nowhere
      BY <2>1 DEF Title
    <2> QED BY <2>1, <2>2 DEF Streamed, OfTheGame, Written, StreamsOfTheFile
  <1>9. CASE OtherFile
    <2>1. UNCHANGED <<rec, game>> /\ game.mode = "title" /\ file' \in Others
      BY <1>9 DEF OtherFile
    <2>2. Written'
      BY <2>1, OthersRead DEF Written
    <2> QED BY <2>1, <2>2 DEF Streamed, OfTheGame, StreamsOfTheFile
  <1> QED BY <1>1, <1>2, <1>3, <1>4, <1>5, <1>6, <1>7, <1>8, <1>9 DEF Next

\* A playback reads, stage for stage and tick for tick, the input that was
\* recorded into its file, whichever games, files and failures came before, for
\* any length of a run and any room in a stream (replay.c:86-94, 113-131, 154-190).
THEOREM ReadsItsStreams == Spec => []StreamsOfTheFile
  <1>1. Init => StreamInv
    <2> SUFFICES ASSUME Init PROVE StreamInv
      OBVIOUS
    <2>1. Types /\ FileKnown /\ LoadKnown
      BY TypesInit
    <2>2. Streamed
      <3>1. Full >= 0
        BY SessionConstants
      <3>2. Unrecorded \in [Stages -> [d : Seq(Bits), failed : BOOLEAN]]
            /\ \A s \in Stages : Unrecorded[s].d = <<>>
        BY DEF Unrecorded
      <3> QED BY <3>1, <3>2 DEF Init, Streamed
    <2>3. game.mode = "title" /\ game.stage = Nowhere
      BY DEF Init, Title
    <2>4. Written
      BY OthersRead DEF Init, Written
    <2> QED BY <2>1, <2>2, <2>3, <2>4 DEF StreamInv, OfTheGame, StreamsOfTheFile
  <1>2. StreamInv /\ [Next]_vars => StreamInv'
    BY StreamsNext, TypesNext DEF StreamInv
  <1>3. StreamInv => StreamsOfTheFile
    BY DEF StreamInv
  <1> QED BY <1>1, <1>2, <1>3, PTL DEF Spec
===============================================================================
