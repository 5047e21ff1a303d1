------------------------------- MODULE Th08Field -------------------------------
(***************************************************************************)
(* TH08's playfield on ticks (src/games/th08.c).                           *)
(*                                                                         *)
(* TH08 bakes its speed, the multiplier, into the velocities, so that a    *)
(* stepped pass scales every bullet's velocity by the tick's length, calls *)
(* the game, and takes the scale out again.  What the game does once a     *)
(* frame is gated, done on the stock state, or made up for.  Beside it is  *)
(* the unmodified game's object, called once a frame.                      *)
(*                                                                         *)
(* A velocity is in parts of 1/(Parts * UnitsPerFrame) of a pixel a frame, *)
(* a position in halves of those.  A spawning bullet moves by half its     *)
(* velocity (the two other spawn states by 2/5 and 1/3).  Where a script,  *)
(* the player or a stage acts, the field and the stock game see the same.  *)
(***************************************************************************)
EXTENDS TickPattern

CONSTANTS
    FieldRates,   \* tick rates
    Parts,        \* the multiplier 1.0
    Multipliers,  \* multipliers that the game's slow motion sets
    Top,          \* the highest velocity, in pixels a frame
    Edge,         \* pixels across the screen
    Graces,       \* frames that a bullet may be off the screen
    SpawnFrames,  \* length of the spawn and death animations
    Every,        \* frames between a laser's grazes (20)
    Lifetime      \* frames that an object lives at most

ASSUME FieldConstants ==
    /\ FieldRates \subseteq Rates /\ Parts \in Nat \ {0}
    /\ Multipliers \subseteq 1..Parts /\ Graces \subseteq Nat
    /\ {Top, Edge, SpawnFrames, Every, Lifetime} \subseteq Nat \ {0}
    /\ MaxRate <= Span

OneFrame == Parts * UnitsPerFrame
Pixel == 2 * OneFrame

VARIABLES
    fieldRate,   \* g_logic_rate
    coming,      \* the schedule's next tick of its period
    ran,         \* th08_sched: the last tick the player ran on
    missed,      \* th08_player_tick + 1 # th08_tick: frames went by without her
    field,       \* the object, stepped
    stock,       \* the unmodified game's
    multiplier,  \* TH08_MULTIPLIER, outside the pass
    lived,       \* frames of the object's life
    eased,       \* history: there was slow motion in it
    bent         \* history: a behaviour changed its velocity as it went live

fieldVars ==
    <<fieldRate, coming, ran, missed, field, stock, multiplier, lived, eased, bent>>

Bullet(st, pos, vel, grace) ==
    [kind |-> "bullet", st |-> st, pos |-> pos, vel |-> vel, grace |-> grace,
     timer |-> 0, clock |-> 0, caught |-> FALSE]

\* On the screen, or just outside it and coming in.
Bullets ==
    {Bullet(st, Pixel, OneFrame, g) : st \in {"spawning", "live"}, g \in Graces}
      \cup {Bullet("live", -OneFrame, OneFrame, 0)}

Laser == [kind |-> "laser", was |-> -OneFrame, timer |-> 0, grazes |-> 0]
Item == [kind |-> "item", pos |-> 0, vel |-> 0]

\* The player: where the frame began, and its key; whether it is held since.
Player == [kind |-> "player", pos |-> 0, start |-> 0, key |-> 0, held |-> TRUE]

FieldObjects == Bullets \cup {Laser, Item, Player}

FieldInit ==
    /\ fieldRate \in FieldRates /\ coming = 0 /\ ran = fieldRate - 1 /\ missed = FALSE
    /\ field \in FieldObjects /\ stock = field /\ multiplier = Parts
    /\ lived = 0 /\ eased = FALSE /\ bent = FALSE
-------------------------------------------------------------------------------
(* The pass over the bullets.  A call c has the tick's units, whether it   *)
(* is the frame's first and its last, the multiplier outside the pass, and *)
(* what a behaviour adds to the velocity on the frame tick.                *)

\* Faulty: the off-screen test on every tick.
BoundsOnEveryTick(c) == TRUE

\* th08_bounds_now.
BoundsNow(c) == c.last

\* th08_projectiles_pass, th08_behaviours_leave: the velocity of this tick.
Scaled(x, c) == [x EXCEPT !.vel = (@ * c.units) \div UnitsPerFrame]

\* th08_behaviours_enter, and the end of the pass.
Unscaled(x, c) == [x EXCEPT !.vel = (@ * UnitsPerFrame) \div c.units]

\* The behaviours: on the frame tick, on the stock velocity and multiplier.
Behaved(x, c) ==
    IF c.frame
    THEN Scaled([Unscaled(x, c) EXCEPT !.vel = @ + c.pull * c.multiplier * UnitsPerFrame], c)
    ELSE x

OffScreen(x) == x.pos < 0 \/ x.pos > Edge * Pixel

\* The live state: the behaviours, the grace, the move, the off-screen test.
Lives(x, c) ==
    LET y == Behaved(x, c)
        z == [y EXCEPT !.grace = IF c.frame /\ @ > 0 THEN @ - 1 ELSE @,
                       !.pos = @ + 2 * y.vel]
    IN IF BoundsNow(c) /\ z.grace = 0 /\ OffScreen(z) THEN [z EXCEPT !.st = "gone"] ELSE z

\* "Finished", which a script that has run its time answers, is withheld.
Finished(x, c) ==
    /\ x.clock >= SpawnFrames * OneFrame
    /\ IF x.st = "spawning" /\ x.caught THEN c.last ELSE c.frame

\* Each script and timer moves by the multiplier times the tick's length.
RunClock(x, c) == [x EXCEPT !.clock = @ + c.multiplier * c.units]

\* The call on which a bullet goes live goes on into the live state, and does not
\* tick its timer.
Spawns(x, c) ==
    LET y == [x EXCEPT !.pos = @ + x.vel] IN
    IF ~Finished(x, c) THEN RunClock(y, c)
    ELSE IF x.caught THEN [y EXCEPT !.st = "gone"]
    ELSE Lives([y EXCEPT !.st = "live"], c)

Updated(x, c) ==
    CASE x.st = "spawning" -> Spawns(x, c)
      [] x.st = "live" ->
           [Lives(x, c) EXCEPT !.timer = @ + c.multiplier * c.units]
      [] x.st = "dying" -> IF Finished(x, c) THEN [x EXCEPT !.st = "gone"] ELSE RunClock(x, c)
      [] OTHER -> x

\* What is left of the frame's half move, and of its time.
MadeUp(x, c) ==
    LET rest == UnitsPerFrame - c.units IN
    [x EXCEPT !.pos = @ + (x.vel * rest) \div UnitsPerFrame,
              !.timer = IF @ = 0 THEN -rest * Parts ELSE @]

\* th08_projectiles_pass.
Passed(x, c) ==
    LET y == Unscaled(Updated(Scaled(x, c), c), c) IN
    IF x.st = "spawning" /\ y.st = "live" /\ c.units < UnitsPerFrame THEN MadeUp(y, c) ELSE y

\* A laser grazes at every so many frames of its timer, on the tick that gets there.
Grazed(x, c) ==
    LET due == /\ (x.timer \div OneFrame) % Every = 0
               /\ ~c.patched \/ x.was \div OneFrame # x.timer \div OneFrame
    IN [x EXCEPT !.grazes = IF due THEN @ + 1 ELSE @,
                 !.was = x.timer, !.timer = @ + c.multiplier * c.units]

\* th08_items: gravity of a pixel, once a frame on the stock multiplier.
Fallen(x, c) ==
    IF ~c.frame THEN x
    ELSE LET v == x.vel + c.multiplier IN [x EXCEPT !.vel = v, !.pos = @ + v * c.multiplier]

\* th08_player_clamp: the playfield begins and ends a pixel from where she starts.
Clamped(p) == IF p < -Pixel THEN -Pixel ELSE IF p > Pixel THEN Pixel ELSE p

\* HandlePlayerInputs with th08_move_factor, and th08_player_minor.
Walked(x, c) ==
    LET y == [x EXCEPT !.pos = Clamped(@ + 2 * c.key * c.multiplier * c.units)] IN
    IF c.frame THEN [y EXCEPT !.start = x.pos, !.key = c.key, !.held = TRUE]
    ELSE [y EXCEPT !.held = @ /\ c.key = x.key]

FieldCalled(x, c) ==
    CASE x.kind = "bullet" -> Passed(x, c)
      [] x.kind = "laser" -> Grazed(x, c)
      [] x.kind = "item" -> Fallen(x, c)
      [] x.kind = "player" -> Walked(x, c)
-------------------------------------------------------------------------------
(* th08_walk: the ticks. *)

IsFrameTick(t) == t = FrameTick(FrameAt(t, fieldRate), fieldRate)
After(t) == (t + 1) % fieldRate
UnitsAt(t) == Start(t + 1, fieldRate) - Start(t, fieldRate)

\* g_phase + g_dt > 0.9999.
IsLast(t) == (Start(t, fieldRate) % UnitsPerFrame) + UnitsAt(t) >= UnitsPerFrame

TickCall(t, m, pull, key) ==
    [frame |-> IsFrameTick(t), last |-> IsLast(t), units |-> UnitsAt(t), multiplier |-> m,
     pull |-> pull, key |-> key, patched |-> TRUE]

StockCall(m, pull, key) ==
    [frame |-> TRUE, last |-> TRUE, units |-> UnitsPerFrame, multiplier |-> m,
     pull |-> pull, key |-> key, patched |-> FALSE]

IsBullet == field.kind = "bullet"
Over == lived = Lifetime \/ (IsBullet /\ {field.st, stock.st} = {"gone"})

\* The slow motion's effect rescales every velocity as it sets the multiplier.
Rescaled(x, m) ==
    IF x.kind = "bullet" THEN [x EXCEPT !.vel = (@ * m) \div multiplier] ELSE x

\* A bomb catches a bullet that is spawning, and cancels one that is live.
Bombed(x) ==
    IF x.st = "spawning" THEN [x EXCEPT !.caught = TRUE]
    ELSE IF x.st = "live" THEN [x EXCEPT !.st = "dying", !.clock = 0] ELSE x

\* Before the pass: the game's other systems, on the frame tick.
Prepared(x, m, bomb) == LET y == Rescaled(x, m) IN IF bomb THEN Bombed(y) ELSE y

\* What a behaviour may add: the velocity stays within Top.
Pulls(x, m) ==
    IF x.kind # "bullet" THEN {0}
    ELSE {p \in {0, 1} : (x.vel \div (m * UnitsPerFrame)) + p <= Top}

\* A frame of the game, in which the player's system runs on tick t.
RunFrame(t, old, oldStock, age) ==
    \E m \in Multipliers, bomb \in IF IsBullet THEN BOOLEAN ELSE {FALSE},
       key \in IF old.kind = "player" THEN {-1, 0, 1} ELSE {0} :
      LET x == Prepared(old, m, bomb)
          y == Prepared(oldStock, m, bomb)
      IN \E pull \in Pulls(y, m) :
           /\ field' = FieldCalled(x, [TickCall(t, m, pull, key) EXCEPT !.frame = TRUE])
           /\ stock' = FieldCalled(y, StockCall(m, pull, key))
           /\ multiplier' = m /\ lived' = age + 1
           /\ eased' = (m # Parts \/ (age > 0 /\ eased))
           /\ bent' = ((pull # 0 /\ y.kind = "bullet" /\ "spawning" \in {x.st, y.st})
                       \/ (age > 0 /\ bent))
           /\ ran' = t /\ coming' = After(t) /\ missed' = FALSE /\ UNCHANGED fieldRate

\* Faulty: the schedule goes on from where the pause left it.
ResumedLate == coming

\* th08_sched_resume, with the reset for what cannot happen.
Resumed ==
    IF ~missed THEN coming ELSE IF IsFrameTick(After(ran)) THEN After(ran) ELSE 0

FieldFrame == IsFrameTick(coming) /\ ~Over /\ RunFrame(Resumed, field, stock, lived)

\* Another object.
FieldNewborn ==
    /\ IsFrameTick(coming) /\ Over
    /\ \E x \in {y \in FieldObjects : y.kind = field.kind} :
         LET z == IF x.kind = "bullet" THEN [x EXCEPT !.vel = (@ * multiplier) \div Parts] ELSE x
         IN RunFrame(Resumed, z, z, 0)

\* th08_stage_start.
FieldStage ==
    /\ IsFrameTick(coming) /\ missed
    /\ \E x \in {y \in FieldObjects : y.kind = field.kind} :
         LET z == IF x.kind = "bullet" THEN [x EXCEPT !.vel = (@ * multiplier) \div Parts] ELSE x
         IN RunFrame(0, z, z, 0)

FieldMinor ==
    /\ ~IsFrameTick(coming) /\ ~missed
    /\ \E key \in IF field.kind = "player" THEN {-1, 0, 1} ELSE {0} :
         field' = FieldCalled(field, TickCall(coming, multiplier, 0, key))
    /\ ran' = coming /\ coming' = After(coming)
    /\ UNCHANGED <<fieldRate, missed, stock, multiplier, lived, eased, bent>>

\* A pause cuts the list before the player on the frame tick, and at the same
\* element on the ticks after it.
FieldPause ==
    /\ IsFrameTick(coming) \/ missed
    /\ missed' = (missed \/ IsFrameTick(coming)) /\ coming' = After(coming)
    /\ UNCHANGED <<fieldRate, ran, field, stock, multiplier, lived, eased, bent>>

FieldNext == FieldFrame \/ FieldNewborn \/ FieldStage \/ FieldMinor \/ FieldPause
FieldSpec == FieldInit /\ [][FieldNext]_fieldVars
-------------------------------------------------------------------------------
(* Properties. *)

FieldFrameEnd == lived > 0 /\ IsFrameTick(After(ran))
EvenField == fieldRate % Fps = 0

Difference(a, b) == IF a < b THEN b - a ELSE a - b

\* A bullet, or the place where it came to its end, unless its velocity changes as it
\* goes live or a bomb catches it in slow motion.
BulletSame ==
    field.kind = "bullet" /\ ~bent /\ ~(eased /\ stock.caught) =>
        /\ field.st = stock.st /\ field.pos = stock.pos /\ field.vel = stock.vel
        /\ field.grace = stock.grace /\ (eased \/ field.timer = stock.timer)

\* A laser, where no slow motion holds its timer at a frame.
LaserSame ==
    field.kind = "laser" =>
        field.timer = stock.timer /\ (eased \/ field.grazes = stock.grazes)

\* The player, while a key is held.
PlayerSame ==
    field.kind = "player" /\ field.held =>
        field.pos = Clamped(field.start + 2 * field.key * multiplier * UnitsPerFrame)

\* Where a frame's ticks do not add up to a frame: an item still is where it was, and
\* without slow motion, of which each change may add less than a frame, a laser's time
\* is less than a frame off and a bullet goes live at most a frame off.
Near ==
    /\ field.kind = "item" => field = stock
    /\ field.kind = "laser" /\ ~eased =>
         /\ Difference(field.timer, stock.timer) < OneFrame
         /\ Difference(field.grazes, stock.grazes) <= 1
    /\ field.kind = "bullet" /\ ~eased /\ "gone" \notin {field.st, stock.st} =>
         Difference(field.timer, stock.timer) < 2 * OneFrame

\* "At every frame boundary each bullet is where, and what, the stock game would
\* have it" (src/games/th08.c:269) at rates that cut every frame alike, and near it
\* at the others, however often the game is paused (th08_sched_resume).
FieldAsStock == FieldFrameEnd => Near /\ (EvenField => BulletSame /\ LaserSame /\ PlayerSame)

\* The same without its exceptions.
BulletsAsStated ==
    FieldFrameEnd /\ EvenField /\ field.kind = "bullet" =>
        field.st = stock.st /\ (field.st # "gone" => field.pos = stock.pos)
===============================================================================
