------------------------------- MODULE EarlySites ------------------------------
(***************************************************************************)
(* The sites, stepped nodes and pauses of TH10 to TH13 (src/games/th10.c   *)
(* to th13.c).  An object's own timer gates what it counts; where it has   *)
(* none that runs, the frame tick does.                                    *)
(***************************************************************************)
EXTENDS SiteKinds

\* The MODE_SUB rows of the class tables.
Th10Stepped == {"BulletManager", "Player", "ItemManager", "AnmManagerWorld", "AnmManagerUI"}
Th11Stepped == Th10Stepped \cup {"LaserManager", "Stage"}
Th12Stepped == Th11Stepped
Th13Stepped == Th11Stepped

\* The sprites that the game's slow motion spares: SPEED_ONE_TEMP around them.
Spared == Rate("AnmManagerWorld", "factor")
SparedStage == Rate("Stage", "factor")

\* Bullet and player counters; option history and easing; movement; item homing,
\* shot motion, acceleration and turn; shot cycles and waits; hits.
Th10Sites ==
    { PerCall("BulletManager", "timer"), PerCall("Player", "timer"),
      PerCall("Player", "frame"), Move("Player"),
      Rate("ItemManager", "factor"), Rate("Player", "factor"),
      Jump("Player", "logical"), Jump("AnmManagerWorld", "logical"),
      Hit("Player", "moved"), Spared }

\* As TH10, and: state-5 items, which do not tick their timer; item gravity;
\* laser waits and grazes; stage distortion; death drops; mesh callbacks.
Th11Sites ==
    { PerCall("BulletManager", "timer"), PerCall("Player", "frame"),
      PerCall("Player", "timer"), Move("Player"), Rate("Player", "factor"),
      PerCall("ItemManager", "frame"), Rate("ItemManager", "speed"),
      PerCall("LaserManager", "timer"), EveryNth("LaserManager", "timer"),
      AtFrame("Player", "timer"), PerCall("Stage", "frame"),
      PerCall("AnmManagerWorld", "timer"),
      Jump("Player", "logical"), Jump("AnmManagerWorld", "logical"),
      Hit("Player", "moved"), Spared, SparedStage }

\* As TH11, and: the player's count of every 60th frame, its options' gathering;
\* the attraction to a UFO.
Th12Fields ==
    { PerCall("BulletManager", "timer"), PerCall("Player", "timer"),
      AtFrame("Player", "timer"), EveryNth("Player", "timer"), Rate("Player", "factor"),
      PerCall("ItemManager", "frame"), Rate("ItemManager", "speed"),
      PerCall("LaserManager", "timer"), EveryNth("LaserManager", "timer"),
      PerCall("Stage", "frame") }

\* Movement, jumps, hits, callbacks, shot behaviours; the curved laser's ring,
\* shifted by its own timer, and its head.
Th12Motion ==
    { Move("Player"), Jump("Player", "logical"), Jump("AnmManagerWorld", "logical"),
      Rate("Player", "factor"), Hit("Player", "moved"), PerCall("AnmManagerWorld", "timer"),
      PerCall("LaserManager", "timer"), Rate("LaserManager", "factor"),
      PerCall("Player", "timer") }

Th12Sites == Th12Fields \cup Th12Motion \cup {Spared, SparedStage}

\* As TH12, and: a shot's countdown, whose whole frames time its hits.
Th13Sites ==
    { PerCall("BulletManager", "timer"), PerCall("Player", "timer"), Move("Player"),
      AtFrame("Player", "timer"), Rate("Player", "factor"), Clock("Player"),
      PerCall("ItemManager", "frame"), Rate("ItemManager", "speed"),
      PerCall("LaserManager", "timer"), EveryNth("LaserManager", "timer"),
      PerCall("Stage", "frame"), PerCall("AnmManagerWorld", "timer"),
      Jump("Player", "logical"), Jump("AnmManagerWorld", "logical"),
      Hit("Player", "moved"), Spared, SparedStage }

\* SPEED_PAUSE_SET and SPEED_PAUSE_RESTORE: the runtime keeps the speed itself.
Th10Pause == "kept"
Th11Pause == "kept"
Th12Pause == "kept"
Th13Pause == "kept"
===============================================================================
