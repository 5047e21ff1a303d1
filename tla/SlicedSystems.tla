----------------------------- MODULE SlicedSystems -----------------------------
(***************************************************************************)
(* A system that is stepped, beside the unmodified game's (the site        *)
(* patches of src/games/th10.c to th20.c, src/core/site_helpers.c and      *)
(* speed.c, the factor of a node in src/backends/update_runner.c).         *)
(*                                                                         *)
(* An object is born on a frame tick and lives a few frames.  The          *)
(* unmodified game calls it once a frame; the stepped system calls it on   *)
(* every tick, with its timers running by the part of a frame the tick is. *)
(* What the game does there, and which patch keeps it in whole frames, is  *)
(* one of the sites of the games' tables.                                  *)
(*                                                                         *)
(* Time and amounts are in parts of 1/One of a frame, so that a speed of   *)
(* l/Full over u/UnitsPerFrame of a frame is l * u.  Pauses fall between   *)
(* frames, where the resync of a pause puts the schedule.                  *)
(***************************************************************************)
EXTENDS TickPattern, EarlySites, LateSites

CONSTANTS
    TestRates,  \* tick rates
    Full,       \* the speed 1.0; the game's own slow motion is any less
    Speeds,     \* speeds that its scripts set
    Cycle,      \* frames of a cycle, a jump, and between n-th frames
    Velocity,   \* fixed-point units a frame
    Life        \* frames an object lives

ASSUME SystemConstants ==
    /\ TestRates \subseteq Rates /\ Full \in Nat \ {0} /\ Speeds \subseteq 1..Full
    /\ {Cycle, Velocity, Life} \subseteq Nat \ {0}
    /\ MaxRate <= Span      \* so that every tick has a unit or more

One == Full * UnitsPerFrame

Sites ==
    [th10 |-> Th10Sites, th11 |-> Th11Sites, th12 |-> Th12Sites, th13 |-> Th13Sites,
     th14 |-> Th14Sites, th15 |-> Th15Sites, th18 |-> Th18Sites, th20 |-> Th20Sites]

Stepped ==
    [th10 |-> Th10Stepped, th11 |-> Th11Stepped, th12 |-> Th12Stepped,
     th13 |-> Th13Stepped, th14 |-> Th14Stepped, th15 |-> Th15Stepped,
     th18 |-> Th18Stepped, th20 |-> Th20Stepped]

PauseOf ==
    [th10 |-> Th10Pause, th11 |-> Th11Pause, th12 |-> Th12Pause, th13 |-> Th13Pause,
     th14 |-> Th14Pause, th15 |-> Th15Pause, th18 |-> Th18Pause, th20 |-> Th20Pause]

\* A node of another mode runs on frame ticks at a factor of 1 and needs no site.
ASSUME SitesAreStepped ==
    \A g \in DOMAIN Sites : \A x \in Sites[g] : x.node \in Stepped[g]

Effect(site) ==
    [does |-> site.does, gate |-> site.gate, stock |-> site.stock, by |-> site.by]

Effects == UNION {{<<Effect(x), PauseOf[g]>> : x \in Sites[g]} : g \in DOMAIN Sites}

VARIABLES
    tickRate, tick, \* the rate, and the tick of the period that comes next
    effect,         \* what the object's site does
    pausing,        \* how the game's pauses write the speed
    frames,         \* frames the object has begun
    sliced, whole,  \* the object in the stepped system and in the unmodified game
    logical,        \* g_logical
    word, units,    \* G_GAME_SPEED as a node last read it, and its g_factor
    shadow,         \* g_pause_shadow
    paused,         \* the pause menu is open
    read,           \* the speed the menu read when it opened
    native, kept,   \* the unmodified game's speed, and what its menu read
    slowed          \* history: there was slow motion in the object's life

systemVars == <<tickRate, tick, effect, pausing, frames, sliced, whole, logical, word,
                units, shadow, paused, read, native, kept, slowed>>

\* An object's timer before its last tick and now, a mark (the player's frame-tick
\* integer a frame ago; the time at which a bullet was promoted), what its site
\* has added up, and g_move_residual.
Born == [was |-> -One, now |-> 0, mark |-> -1, sum |-> 0, rest |-> 0]

FrameOf(t) == t \div One
Nth(x) == FrameOf(x.now) % Cycle = 0

SystemInit ==
    /\ tickRate \in TestRates /\ tick = 0
    /\ \E p \in Effects : effect = p[1] /\ pausing = p[2]
    /\ frames = 0 /\ sliced = Born /\ whole = Born
    /\ logical = Full /\ shadow = Full /\ native = Full /\ kept = Full
    /\ word = One /\ units = UnitsPerFrame /\ read = One
    /\ paused = FALSE /\ slowed = FALSE
-------------------------------------------------------------------------------
(* One call.  c tells the call's major, its units, the speed and the word  *)
(* that the game reads, whether the site is patched, and whether what a    *)
(* promotion waits for came early.                                         *)

\* E_timer_unchanged.
Crossed(x) == FrameOf(x.was) # FrameOf(x.now)

\* gate_prefix and the stubs like it.  The unmodified game asks a timer's own
\* two integers where it asks whether the player's or a shot's timer moved.
Gate(x, c) ==
    CASE effect.gate = "frame" -> c.major
      [] effect.gate = "timer" -> ~c.patched \/ Crossed(x)
      [] effect.gate = "moved" -> IF c.patched THEN x.was # x.now ELSE Crossed(x)
      [] effect.gate = "whole" ->
           IF c.patched /\ c.units # UnitsPerFrame THEN FrameOf(x.now) # x.mark ELSE Crossed(x)
      [] effect.gate = "aged" -> c.major \/ c.frames > 1
      [] OTHER -> TRUE

\* emit_factor, the speed, and the speed that is the game's own.
Amount(c) ==
    CASE (IF c.patched THEN effect.by ELSE effect.stock) = "one" -> One
      [] (IF c.patched THEN effect.by ELSE effect.stock) = "factor" -> Full * c.units
      [] (IF c.patched THEN effect.by ELSE effect.stock) = "speed" -> c.word
      [] OTHER -> c.logical * UnitsPerFrame

Ticked(x, t) == [x EXCEPT !.was = x.now, !.now = t]
Add(x, n) == [x EXCEPT !.sum = @ + n]

\* Does it once in this call, if its gate and its own condition let it.
Once(x, c) ==
    LET may ==
          CASE effect.does = "at" -> FrameOf(x.now) = 1
            [] effect.does = "nth" -> Nth(x)
            [] effect.does = "fresh" -> ~(c.major /\ c.frames = 1)
            [] OTHER -> TRUE
    IN Ticked(IF may /\ Gate(x, c) THEN Add(x, Amount(c)) ELSE x, x.now + c.word)

\* What a promotion waits for is written in frame Cycle after the bullet's own call,
\* so that the frame's later ticks see it and then the next frame.  Where frames are
\* cut, some bullets find it a frame tick sooner, for a cause that is not known
\* (docs/games/TH14_DEVNOTES.md:978): it may or may not be there.
Permitted(c) ==
    IF c.major THEN c.frames > Cycle \/ (c.frames = Cycle /\ c.early)
    ELSE c.frames >= Cycle

\* The call that promotes a bullet takes the first step of its delay.
Asked(x, c) ==
    Ticked(IF x.mark < 0 /\ Permitted(c) /\ Gate(x, c) THEN [x EXCEPT !.mark = x.now] ELSE x,
           x.now + c.word)

\* movement_ftol and movement_cvttss: at a factor of 1 the game's instruction.
Carry(x, c) == IF c.patched /\ c.units # UnitsPerFrame THEN x.rest ELSE 0

Moved(x, c) ==
    LET step == Velocity * c.word + Carry(x, c) IN
    [Ticked(Add(x, step \div One), x.now + c.word)
       EXCEPT !.rest = IF c.patched /\ c.units # UnitsPerFrame THEN step % One ELSE @]

\* Faulty: the jump is scaled like a tick.
JumpedByTick(x, c) ==
    IF x.now < Cycle * One THEN Ticked(x, x.now + c.word)
    ELSE Ticked(Add(x, One), x.now - Cycle * c.word + c.word)

\* Timer::add, timer_rewind and th20_timer_jump: c * speed, or c * logical.
Jumped(x, c) ==
    IF x.now < Cycle * One THEN Ticked(x, x.now + c.word)
    ELSE Ticked(Add(x, One), x.now - Cycle * Amount(c) + c.word)

\* th20_timer_wrap: the jump is the tick of a frame, of which this call is a part.
Wrapped(x, c) ==
    IF x.now < Cycle * One THEN Ticked(x, x.now + c.word)
    ELSE Ticked(Add(x, One), x.now - Cycle * c.logical * UnitsPerFrame
                               - (IF c.patched THEN c.logical * (UnitsPerFrame - c.units)
                                  ELSE 0))

Lighted(x, c) ==
    Ticked([x EXCEPT !.sum = IF Nth(x) /\ Gate(x, c) THEN One ELSE 0], x.now + c.word)

\* The enemies read it on the frame tick, after the player.
HitOn(x, c) ==
    LET y == Ticked(x, x.now + c.word) IN
    IF ~c.major THEN y
    ELSE [y EXCEPT !.sum = IF Gate(y, c) THEN @ + One ELSE @, !.mark = FrameOf(y.now)]

\* Faulty: the clock runs with the ticks.
ClockedByTick(x, c) ==
    LET y == Ticked(x, x.now + c.word) IN
    IF c.major /\ Crossed(y) /\ Nth(y) THEN Add(y, One) ELSE y

\* So they do a shot's clock, which keeps its time on the minor ticks.
Clocked(x, c) ==
    LET y == Ticked(x, IF Gate(x, c) THEN x.now + Amount(c) ELSE x.now) IN
    IF c.major /\ Crossed(y) /\ Nth(y) THEN Add(y, One) ELSE y

Called(x, c) ==
    CASE effect.does = "ask" -> Asked(x, c)
      [] effect.does = "move" -> Moved(x, c)
      [] effect.does = "jump" -> Jumped(x, c)
      [] effect.does = "wrap" -> Wrapped(x, c)
      [] effect.does = "lit" -> Lighted(x, c)
      [] effect.does = "hit" -> HitOn(x, c)
      [] effect.does = "clock" -> Clocked(x, c)
      [] OTHER -> Once(x, c)
-------------------------------------------------------------------------------
(* The ticks. *)

OnFrameTick == tick = FrameTick(FrameAt(tick, tickRate), tickRate)
UnitsOfTick == Start(tick + 1, tickRate) - Start(tick, tickRate)

Context(m, patched, u, l, f, early) ==
    [major |-> m, patched |-> patched, units |-> u, logical |-> l, word |-> l * u,
     frames |-> f, early |-> early]

NextTick == tick' = (tick + 1) % tickRate

\* A frame tick; a script may have set the speed (speed_set_ecl_c, and with 1.0
\* speed_set_one_perm).  An object that has lived its frames makes room for one.
FrameStep ==
    /\ ~paused /\ OnFrameTick
    /\ native' \in Speeds /\ logical' = native'
    /\ units' = UnitsOfTick /\ word' = logical' * units'
    /\ LET old == frames = Life
           f == IF old THEN 1 ELSE frames + 1
       IN /\ frames' = f
          /\ slowed' = (native' # Full \/ (slowed /\ ~old))
          /\ \E early \in {FALSE, tickRate # Fps} :
               sliced' = Called(IF old THEN Born ELSE sliced,
                                Context(TRUE, TRUE, units', logical', f, early))
          /\ whole' = Called(IF old THEN Born ELSE whole,
                             Context(TRUE, FALSE, UnitsPerFrame, native', f, FALSE))
    /\ NextTick /\ UNCHANGED <<tickRate, effect, pausing, shadow, paused, read, kept>>

MinorStep ==
    /\ ~paused /\ ~OnFrameTick
    /\ units' = UnitsOfTick /\ word' = logical * units'
    /\ sliced' = Called(sliced, Context(FALSE, TRUE, units', logical, frames, FALSE))
    /\ NextTick
    /\ UNCHANGED <<tickRate, effect, pausing, frames, whole, logical, shadow, paused,
                   read, native, kept, slowed>>
-------------------------------------------------------------------------------
(* Pauses.  The menu opens and closes in a node of the frame's, where the  *)
(* factor is 1.                                                            *)

AtFactorOne == units' = UnitsPerFrame
MenuReads == read' = logical * UnitsPerFrame
Others == UNCHANGED <<tickRate, tick, effect, pausing, frames, sliced, whole, slowed>>

\* speed_pause_set_c; speed_set_one_temp; th20_speed_set.
Open ==
    /\ ~paused /\ OnFrameTick /\ paused' = TRUE
    /\ kept' = native /\ native' = Full
    /\ AtFactorOne /\ word' = One
    /\ CASE pausing = "kept" -> shadow' = logical /\ logical' = Full /\ UNCHANGED read
         [] pausing = "read" -> MenuReads /\ UNCHANGED <<shadow, logical>>
         [] pausing = "set" -> MenuReads /\ logical' = Full /\ UNCHANGED shadow
    /\ Others

\* A stepped node ahead of GameManager is called.
MenuTick ==
    /\ paused
    /\ \E t \in 0 .. tickRate - 1 : units' = Start(t + 1, tickRate) - Start(t, tickRate)
    /\ word' = logical * units'
    /\ Others /\ UNCHANGED <<logical, shadow, paused, read, native, kept>>

\* Faulty: the runtime's own speed stays at 1.
RestoredNever == logical

\* speed_pause_restore_c; nothing, the game's store is its own; th20_speed_set.
Restored ==
    CASE pausing = "kept" -> shadow
      [] pausing = "read" -> logical
      [] pausing = "set" -> read \div UnitsPerFrame

Close ==
    /\ paused /\ paused' = FALSE /\ native' = kept
    /\ AtFactorOne /\ logical' = Restored
    /\ word' = IF pausing = "read" THEN read ELSE logical' * UnitsPerFrame
    /\ Others /\ UNCHANGED <<shadow, read, kept>>

SystemNext == FrameStep \/ MinorStep \/ Open \/ MenuTick \/ Close

SystemSpec == SystemInit /\ [][SystemNext]_systemVars
-------------------------------------------------------------------------------
(* Properties. *)

Even == tickRate % Fps = 0
AtFrameEnd == OnFrameTick /\ frames > 0

\* What the game's own slow motion slows in one of the two and not in the other:
\* see OnceAFrame.
SlowedApart ==
    /\ slowed
    /\ \/ effect.gate \in {"timer", "moved", "whole"}
       \/ effect.does \in {"jump", "wrap", "move"} \/ effect.by = "speed"

\* What is asked of a timer on frame ticks only, where the frame's ticks do not
\* add up to frames: see AskedOncePerFrame.
AskedOnFrames == effect.gate = "whole" \/ (effect.does = "nth" /\ effect.gate = "frame")

\* An object's time, the cycles that were taken off its timer included.
Elapsed(x) == x.now + (IF effect.does \in {"jump", "wrap"} THEN Cycle * x.sum ELSE 0)

Distance(a, b) == IF a < b THEN b - a ELSE a - b

\* What the frame tick gates, and the hits that it deals: the guards on g_ptf_prev
\* and g_ptf_cur, the shots' and weapons' clocks.
HeldToFrames ==
    /\ effect.gate \in {"frame", "moved"} /\ ~SlowedApart
    /\ effect.does \in {"call", "hit", "clock"}

\* At rates that cut every frame alike, a stepped system is at the end of each
\* frame where the unmodified game has it: its counters, events, positions and
\* timers, through slow motion too unless the patch goes by a timer or the speed.
SameWhereEven ==
    AtFrameEnd /\ Even /\ ~SlowedApart =>
        sliced.sum = whole.sum /\ sliced.now = whole.now

\* Where a frame's ticks need not add up to a frame, what is held to frames is
\* exactly the unmodified game's, and all else is never a frame away at full
\* speed: one count, one event, one frame's move, less than a frame of its
\* timers (E_timer_unchanged, th20_timer_wrap).
NeverAFrameAway ==
    AtFrameEnd =>
        /\ HeldToFrames => sliced.sum = whole.sum
        /\ ~slowed /\ ~AskedOnFrames =>
             /\ Distance(sliced.sum, whole.sum) <= IF effect.does = "move" THEN Velocity ELSE One
             /\ Distance(Elapsed(sliced), Elapsed(whole)) < One

\* How long a bullet's delay has run.
Delay(x) == IF x.mark < 0 THEN 0 ELSE x.now - x.mark

\* A bullet's delay starts on a frame's tick: the unmodified game's frame, or the one
\* before it, never later and never in the middle of one; with nothing cut, its
\* frame.  Where a frame's ticks need not add up to a frame it is less than two off.
StartsWithAFrame ==
    AtFrameEnd /\ effect.does = "ask" =>
        /\ tickRate = Fps => Delay(sliced) = Delay(whole)
        /\ Even => Delay(whole) <= Delay(sliced) /\ Delay(sliced) <= Delay(whole) + One
        /\ Even /\ ~slowed => Delay(sliced) - Delay(whole) \in {0, One}
        /\ ~slowed => Distance(Delay(sliced), Delay(whole)) < 2 * One

\* At every rate a stepped system keeps in step with the unmodified game: the
\* same at each frame's end where the ticks add up to frames, and never a frame
\* away where they do not (the site patches of th10.c to th20.c); the delay of a
\* bullet that waits for its promotion may be a frame ahead.
InStep == SameWhereEven /\ NeverAFrameAway /\ StartsWithAFrame

\* A node reads the game's own speed times its factor whatever wrote it, and a
\* pause gives the speed back (speed.c, th20_speed_set); the menu of TH14, TH15
\* and TH18 is the exception: see MenuAtFullSpeed.
SpeedAsSet == (pausing = "read" /\ paused) \/ word = native * units

\* "crossed an integer (prev != cur, exactly once per frame by construction)"
\* (docs/games/TH12_DEVNOTES.md:459): slow motion makes it less.
OnceAFrame ==
    AtFrameEnd /\ Even /\ effect.does = "call" /\ effect.gate = "timer" =>
        sliced.sum = whole.sum

\* "The question is answered over the whole frame instead" (src/games/th20.c:84):
\* where ticks are uneven and most of a frame, the player's timer may not pass a
\* frame between two frame ticks, and the frame's hits are lost.
AskedOncePerFrame ==
    AtFrameEnd /\ ~slowed /\ effect.gate = "whole" => sliced.sum = whole.sum

\* "the bullet then asks the question exactly once a frame, at the same point in the
\* list stock asks it, and the answer is the one stock gets" (src/games/th14.c:202):
\* delays that start a frame early have been measured with the gate in place.
PromotedAsStock ==
    AtFrameEnd /\ Even /\ effect.does = "ask" => Delay(sliced) = Delay(whole)

\* "stores 1.0 for the duration of something" (src/games/th14.c:57): the next
\* node's factor puts the slow motion back while the menu is open.
MenuAtFullSpeed == paused => word = Full * units
===============================================================================
