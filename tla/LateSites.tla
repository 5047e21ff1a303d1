------------------------------- MODULE LateSites -------------------------------
(***************************************************************************)
(* The sites, stepped nodes and pauses of TH14, TH15, TH18 and TH20        *)
(* (src/games/th14.c, th15.c, th18.c and th20.c).  The timers of these     *)
(* games know the speed; left are the counters, what is done while a timer *)
(* is at a frame, and what reads the player's or a shot's timer once a     *)
(* frame.                                                                  *)
(***************************************************************************)
EXTENDS SiteKinds

\* The MODE_SUB rows of the class tables.
Th14Stepped ==
    {"AnmSpritesEarly", "AnmSpritesLate", "BulletManager", "LaserManager", "Player",
     "ItemManager"}
Th15Stepped == Th14Stepped
Th18Stepped == Th14Stepped
Th20Stepped == {"SpritesEarly", "SpritesLate", "Player", "Laser", "Bullet", "Item"}

\* SPEED_ONE_TEMP: the game writes back what it read.  Float::set in TH20: both
\* writes of a pause are the game's new speed.
Th14Pause == "read"
Th15Pause == "read"
Th18Pause == "read"
Th20Pause == "set"

\* The sprites that the game's slow motion spares.
SparedSprites == Rate("AnmSpritesLate", "factor")

\* Faulty: the promotion is asked for on every tick.
Th14PromotedAtOnce ==
    { PerCall("BulletManager", "timer"), AtFrame("BulletManager", "timer"),
      Ask("BulletManager", "tick") }

\* Waits and collision countdowns, the cancel effect at frame 3, and the promotion,
\* asked for on frame ticks (see StartsWithAFrame for what that is worth).
Th14Bullets ==
    { PerCall("BulletManager", "timer"), AtFrame("BulletManager", "timer"),
      Ask("BulletManager", "frame") }
Th15Bullets == Th14Bullets
Th18Bullets == {PerCall("BulletManager", "timer"), Ask("BulletManager", "frame")}

\* The lasers' base timer, which has no speed of its own; the items' countdowns;
\* in TH15 and TH18 the recovery of the fall that a graze slows.
Th14Fields == {Rate("LaserManager", "factor"), PerCall("ItemManager", "timer")}
Th15Fields == {PerCall("ItemManager", "timer"), Rate("ItemManager", "factor")}
Th18Fields == Th15Fields

\* The states but alive; movement; the blink; the focus counter, in TH18 the
\* position history; the options' approach.
Th14Player ==
    {PerCall("Player", "frame"), Move("Player"), Lit("Player"), PerCall("Player", "timer")}
Th15Player == Th14Player
Th18Player == Th14Player

\* The shots' rates, hits, cadence and rewind, and the weapons' cadence.
Th14Shots ==
    {Rate("Player", "factor"), Hit("Player", "moved"), Clock("Player"),
     Jump("Player", "logical")}
Th15Shots == Th14Shots

\* And: a shot fired this frame waits for the next, callbacks, a shot's age.
Th18Shots == Th14Shots \cup {Fresh("Player", "aged"), PerCall("Player", "frame")}

Th14Sites == Th14Bullets \cup Th14Fields \cup Th14Player \cup Th14Shots \cup {SparedSprites}
Th15Sites == Th15Bullets \cup Th15Fields \cup Th15Player \cup Th15Shots \cup {SparedSprites}
Th18Sites == Th18Bullets \cup Th18Fields \cup Th18Player \cup Th18Shots \cup {SparedSprites}

\* What TH20 counts is gated by the frame, and what it asks of a timer is asked
\* on frame ticks; a bullet's and a sprite's own speed times the factor.
Th20Fields ==
    { PerCall("Bullet", "frame"), Rate("Bullet", "factor"), Rate("SpritesLate", "factor"),
      PerCall("Laser", "frame"), EveryNth("Laser", "frame"), Jump("Laser", "logical") }
Th20Player == {Move("Player"), PerCall("Player", "frame"), Hit("Player", "whole")}
Th20Shots ==
    { Wrap("Player"), Rate("Player", "factor"), Jump("Player", "logical"),
      EveryNth("Player", "frame") }
Th20Sites == Th20Fields \cup Th20Player \cup Th20Shots
===============================================================================
