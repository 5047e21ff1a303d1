------------------------------ MODULE PoseHistory -----------------------------
(***************************************************************************)
(* What is drawn between two of the game's own frames.                     *)
(*                                                                         *)
(* Things that live at 60 Hz are drawn on the way from one native place to *)
(* the next.  Five keepers remember the places:                            *)
(*   enemy   a table by address, filled on frame ticks (core/              *)
(*           interpolation.c); the sprites are placed around the point     *)
(*   option  an array by slot, filled on frame ticks (games/               *)
(*           th14_family.h)                                                *)
(*   pose    a table by address, filled as sprites are drawn (hfr64.c,     *)
(*           backends/fixed_history.h)                                     *)
(*   quad    the same for TH08 (games/th08.c, backends/fixed_quad.h)       *)
(*   camera  TH08's background camera, filled on frame ticks               *)
(* What they cannot know is whether the thing at an address is still the   *)
(* one it was a frame ago.                                                 *)
(*                                                                         *)
(* Places are on a line, shown places in halves of it.  Ticks are counted  *)
(* back from now: a history is of this tick (lag 0), the last (1) or       *)
(* older.  An age is known as a script's first tick or a later one.  A     *)
(* quad stands for its centre; rotation and scale (turn) for the ticks     *)
(* they were read on.                                                      *)
(***************************************************************************)
EXTENDS Integers, Sequences

CONSTANTS
    Count,      \* how many things there are in the game's list
    Slots,      \* places of the table that a probe looks at
    Width,      \* native places are 0..Width
    Far,        \* a step that is a teleport (64 and 48 pixels, 6144/128 for options)
    Alphas,     \* presentations in a tick, in halves of it
    SharedFor,  \* ticks for which a VM that drew several sprites stays one (120)
    Odd         \* what the game is let do that the keepers do not see

Things == 1..Count              \* their addresses, in the order of the list
Keepers == {"enemy", "option", "pose", "quad", "camera"}
Kinds == {"attached", "projectile", "field", "interface"}
Nowhere == -1                   \* a place that is not a finite number
Places == 0..Width
Old == 3                        \* two ticks without being seen
Offsets == <<0, 1>>             \* an enemy's sprites: where each is from its point,
Parents == <<0, 1>>             \* and which it is hung on (0: none)

ASSUME PoseConstants ==
    /\ Count \in Nat \ {0}
    /\ {Slots, Far, SharedFor} \subseteq Nat \ {0} /\ Width \in Nat /\ Alphas \subseteq 0..2
    /\ Odd \subseteq {"shared", "sameAge", "atOnce", "offOn"}

VARIABLES
    keeper,     \* who remembers
    kind,       \* TH08: what thing 1 is
    world,      \* each thing: see Life
    table,      \* g_tracks, th14_opt, history, th08_history, th08_cam_*
    glance      \* history: the last presentation of this tick, or Unseen

poseVars == <<keeper, kind, world, table, glance>>

\* A thing as the game has it: the script it runs, whether this is the script's
\* first tick, the places it is drawn at in this tick, one after the other
\* (none: it is not in the game's list), where the same thing was in the last
\* tick (none: it is new), and whether it was remembered then.
Life(script, new, at, was, known) ==
    [script |-> script, new |-> new, at |-> at, was |-> was, known |-> known]
Absent == Life(1, FALSE, <<>>, <<>>, FALSE)

Blank == [key |-> 0, script |-> 0, lag |-> Old, new |-> FALSE, prev |-> 0, cur |-> 0,
          valid |-> FALSE, turn |-> <<Old, Old>>, shared |-> SharedFor]
Unseen == [shown |-> <<>>, turns |-> <<>>, alpha |-> 0, ahead |-> FALSE, lead |-> 0]
Moving == [Unseen EXCEPT !.alpha = -1]      \* the frame tick has not been recorded yet

PoseInit ==
    /\ keeper \in Keepers
    /\ kind \in (IF keeper = "quad" THEN Kinds \ {"field"} ELSE {"field"})
    /\ world = [a \in Things |->
          IF a = 1 \/ kind \in {"attached", "projectile"} THEN Absent
          ELSE Life(1, FALSE, <<0>>, <<>>, FALSE)]
    /\ table = [i \in 1..(IF keeper \in {"option", "camera"} THEN 1 ELSE Slots) |-> Blank]
    /\ glance = Unseen

-------------------------------------------------------------------------------
(* Histories                                                               *)

Capped(n, top) == IF n < top THEN n + 1 ELSE top

\* A tick later.  Of a history that gets old nothing is read again but whose it
\* was, and of a quad whether it was shared.
Aged(h) ==
    IF h.lag + 1 >= Old THEN [Blank EXCEPT !.key = h.key, !.shared = Capped(h.shared, SharedFor)]
    ELSE [h EXCEPT !.lag = @ + 1, !.shared = Capped(@, SharedFor),
                   !.turn = [i \in 1..2 |-> Capped(@[i], Old)]]

Near(p, q) == p # Nowhere /\ q # Nowhere /\ p - q < Far /\ q - p < Far

\* Between the last place and this one, or as far again beyond this one.
Between(prev, cur, alpha, ahead) ==
    2 * (IF ahead THEN cur ELSE prev) + (cur - prev) * alpha

Vacant(h) == h.key = 0 \/ h.lag = Old
FirstSlot(slots) ==
    IF slots = {} THEN 0 ELSE CHOOSE i \in slots : \A j \in slots : i <= j

VacantSlots(tb) == {i \in DOMAIN tb : Vacant(tb[i])}
SlotsOf(tb, a) == {i \in DOMAIN tb : tb[i].key = a}

\* th08_quad: the first of any of these.
QuadSlot(tb, a) == FirstSlot(SlotsOf(tb, a) \cup VacantSlots(tb))

\* track_find, history_slot: the thing's own place wherever it is, else the
\* first that is vacant or has not been seen for two ticks.
OwnSlot(tb, a) ==
    FirstSlot(IF SlotsOf(tb, a) # {} THEN SlotsOf(tb, a) ELSE VacantSlots(tb))

\* Faulty: a gap in the ticks goes unnoticed.
BeginsUngapped(h, a) ==
    h.key # a \/ h.script # world[a].script \/ (world[a].new /\ ~h.new)

\* fixed_pose, fixed_quad_pose: a thing begins, goes on in a new tick, or is
\* drawn again in the same one.
Begins(h, a) ==
    \/ h.key # a \/ h.script # world[a].script \/ h.lag > 1
    \/ world[a].new /\ ~h.new
Begun(h, a, p) ==
    [h EXCEPT !.key = a, !.script = world[a].script, !.lag = 0, !.new = world[a].new,
              !.prev = p, !.cur = p, !.valid = FALSE,
              !.shared = IF h.key # a THEN SharedFor ELSE @]
Rolls(h, a) == ~Begins(h, a) /\ h.lag = 1
Trusted(h) == keeper = "quad" => h.shared = SharedFor
Rolled(h, a, p) ==
    [h EXCEPT !.prev = h.cur, !.cur = p, !.lag = 0, !.new = world[a].new,
              !.valid = Near(h.cur, p) /\ Trusted(h)]
Again(h, p) ==
    IF h.cur = p THEN h ELSE [h EXCEPT !.valid = FALSE, !.cur = p, !.shared = 0]
Posed(h, a, p) ==
    CASE p = Nowhere -> [h EXCEPT !.valid = FALSE]
      [] p # Nowhere /\ Begins(h, a) -> Begun(h, a, p)
      [] p # Nowhere /\ Rolls(h, a) -> Rolled(h, a, p)
      [] OTHER -> Again(h, p)

\* fixed_pose_extra: the turn rolls with the place, once a tick.  A quad has its
\* turn in its corners.
Turned(h, rolled) ==
    IF keeper = "quad" THEN h ELSE [h EXCEPT !.turn = <<IF rolled THEN @[2] ELSE @[1], 0>>]

\* One draw of a sprite: what is remembered of it, and where it is shown.
Sprite(tb, a, p, alpha, ahead) ==
    LET i == IF keeper = "quad" THEN QuadSlot(tb, a) ELSE OwnSlot(tb, a)
        h == Turned(Posed(tb[i], a, p), p # Nowhere /\ Rolls(tb[i], a))
    IN  IF i = 0
        THEN [table |-> tb, shown |-> 2 * p, turn |-> <<Old, Old>>]
        ELSE [table |-> [tb EXCEPT ![i] = h],
              shown |-> IF h.valid THEN Between(h.prev, h.cur, alpha, ahead) ELSE 2 * p,
              turn |-> IF h.valid /\ keeper = "pose" THEN h.turn ELSE <<Old, Old>>]

-------------------------------------------------------------------------------
(* Enemies, options and the camera: remembered on the frame tick           *)

\* The loop of enemy_interp, on a frame tick or between two.
Tracked(tb, a, capture) ==
    LET i == OwnSlot(tb, a)
        p == world[a].at[1]
        h == tb[i]
        seen == [h EXCEPT !.key = a, !.lag = 0, !.cur = p]
    IN  CASE i = 0 -> tb
          [] i # 0 /\ capture ->
                [tb EXCEPT ![i] = [seen EXCEPT !.prev =
                    IF h.key = a /\ h.lag = 1 THEN h.cur ELSE p]]
          [] i # 0 /\ ~capture /\ h.key # a -> [tb EXCEPT ![i] = [seen EXCEPT !.prev = p]]
          [] OTHER -> tb

\* th14_family_place_options: seen is 0 for an option that is not out.
OptionKept(h, capture) ==
    IF world[1].at = <<>> THEN Blank
    ELSE LET p == world[1].at[1]
             seen == [h EXCEPT !.key = 1, !.lag = 0, !.cur = p]
         IN  CASE capture -> [seen EXCEPT !.prev = IF h.key = 1 /\ h.lag = 1 THEN h.cur ELSE p]
               [] ~capture /\ (h.key = 0 \/ h.lag # 0) -> [seen EXCEPT !.prev = p]
               [] OTHER -> h

\* th08_camera_tick.
CameraKept(h) ==
    LET p == world[1].at[1]
    IN  IF world[1].at = <<>> THEN h
        ELSE [h EXCEPT !.key = 1, !.prev = h.cur, !.cur = p, !.lag = 0,
                       !.valid = h.key = 1 /\ h.lag = 1 /\ Near(h.cur, p)]

\* The enemies of the list, one after the other.
TrackedAll(tb, capture) ==
    LET after[a \in 0..Count] ==
            IF a = 0 THEN tb
            ELSE IF world[a].at = <<>> THEN after[a - 1] ELSE Tracked(after[a - 1], a, capture)
    IN  after[Count]

Captured(tb, capture) ==
    CASE keeper = "enemy" -> TrackedAll(tb, capture)
      [] keeper = "option" -> <<OptionKept(tb[1], capture)>>
      [] keeper = "camera" -> IF capture THEN <<CameraKept(tb[1])>> ELSE tb
      [] OTHER -> tb

\* Where an enemy is put, a teleport as it is.
Placed(h, alpha) ==
    IF Near(h.prev, h.cur) THEN Between(h.prev, h.cur, alpha, FALSE) ELSE 2 * h.cur

\* th08_camera_place, th08_camera_restore.
CameraAt(h, p, alpha, ahead) ==
    IF h.valid /\ h.lag = 0 /\ h.cur = p THEN Between(h.prev, h.cur, alpha, ahead) ELSE 2 * p

\* place_enemy: the sprites around the point R.  TH11 puts all of them on it, TH20
\* each at its offset, and the games between do one or the other by the enemy's
\* flags.  A sprite that hangs on another adds what that one's VM contributes.
Share(k) == IF Parents[k] \in DOMAIN Parents THEN 2 ELSE 0
AtPoint(R) == [k \in DOMAIN Offsets |-> R]
AtOffsets(R) == [k \in DOMAIN Offsets |-> R + 2 * (Offsets[k] + Share(k))]
Around(R, absolute) == IF absolute THEN AtPoint(R) ELSE AtOffsets(R)
Absolutes == IF keeper = "enemy" THEN BOOLEAN ELSE {TRUE}

-------------------------------------------------------------------------------
(* TH08: the instant of a presentation                                     *)

\* moved: th08_player_tick is this tick's, and she can move.
Switches == [predict : BOOLEAN, playerSub : BOOLEAN, projectilesSub : BOOLEAN,
             playing : BOOLEAN, moved : BOOLEAN, velocity : {0, 1}]
SwitchesNow ==
    {s \in Switches :
        /\ keeper \notin {"quad", "camera"} => s.playing
        /\ keeper \in {"enemy", "option"} => ~s.predict
        /\ kind # "projectile" => ~s.projectilesSub
        /\ kind # "attached" => ~s.playerSub /\ ~s.moved
        /\ s.velocity # 0 => s.moved}

AnySub(s) == s.playerSub \/ s.projectilesSub
Playfield == kind # "interface"
Ahead(s) == Playfield /\ (s.predict \/ AnySub(s))

\* th08_frame_lead: how far what is pinned to the player is shown ahead of
\* where the frame tick left it: what she has moved since, or what the keys
\* held now will move her.
LeadOn(s) == kind = "attached" /\ s.playing /\ s.moved /\ (s.predict \/ AnySub(s))
Lead(s, alpha) == s.velocity * alpha

\* th08_alpha, held at 0 while a predicted playfield stands still.
AlphaOf(s, alpha) ==
    IF keeper \in {"quad", "camera"} /\ Ahead(s) /\ ~s.playing THEN 0 ELSE alpha

\* Quads and sprites of one thing, in the order they are drawn.
Draws(tb, a, alpha, ahead) ==
    LET at == world[a].at
        after[k \in 0..Len(at)] ==
            IF k = 0 THEN [table |-> tb, shown |-> <<>>, turns |-> <<>>]
            ELSE LET d == Sprite(after[k - 1].table, a, at[k], alpha, ahead)
                 IN  [table |-> d.table, shown |-> Append(after[k - 1].shown, d.shown),
                      turns |-> Append(after[k - 1].turns, d.turn)]
    IN  after[Len(at)]

\* A projectile that is really being stepped, or what is pinned to the player,
\* is drawn without a history.
Unkept(s) == LeadOn(s) \/ (kind = "projectile" /\ s.projectilesSub)

\* Thing 1, the first of the list,
OwnDrawn(s, alpha) ==
    IF Unkept(s) \/ world[1].at = <<>>
    THEN [table |-> table, turns |-> <<>>,
          shown |-> [k \in DOMAIN world[1].at |-> 2 * world[1].at[k] +
              IF LeadOn(s) THEN Lead(s, alpha) ELSE 0]]
    ELSE Draws(table, 1, AlphaOf(s, alpha), Ahead(s))

\* and then the others.
OthersDrawn(tb, alpha) ==
    LET after[a \in 0..Count] ==
            IF a <= 1 THEN tb
            ELSE IF world[a].at = <<>> THEN after[a - 1]
            ELSE Draws(after[a - 1], a, alpha, FALSE).table
    IN  after[Count]

DrawnAll(s, alpha) ==
    LET own == OwnDrawn(s, alpha)
    IN  [own EXCEPT !.table = OthersDrawn(own.table, AlphaOf(s, alpha))]

-------------------------------------------------------------------------------
(* Steps                                                                   *)

PlacesOfTick ==
    {<<p>> : p \in Places}
    \cup (IF keeper \in {"pose", "quad", "camera"} THEN {<<Nowhere>>} ELSE {})
    \cup (IF keeper \in {"quad", "camera"} \/ (keeper = "pose" /\ "shared" \in Odd)
          THEN {<<p, p + 1>> : p \in 0..Width - 1} ELSE {})

Remembered == keeper # "quad" /\ \E i \in DOMAIN table : table[i].key = 1 /\ table[i].lag = 0

GoesOn(at) ==
    /\ world[1].at # <<>>
    /\ world' = [world EXCEPT ![1] = Life(@.script, FALSE, at, @.at, Remembered)]

\* Another thing at the address, or another script: with the keepers' own signs
\* of it, unless the game is let do otherwise.
Unnoticed ==
    \/ keeper = "quad" /\ world[1].new
    \/ keeper \in {"enemy", "option", "camera"}
TakesOver(script, new, at) ==
    /\ script # world[1].script => keeper \in {"pose", "quad"}
    /\ world[1].at # <<>> =>
        /\ new
        /\ script = world[1].script /\ Unnoticed =>
            (IF keeper = "quad" THEN "sameAge" ELSE "atOnce") \in Odd
    /\ world' = [world EXCEPT ![1] = Life(script, new, at, <<>>, FALSE)]

\* Enemies and options count the frames that were recorded, the others ticks.
Counts == keeper \in {"enemy", "option"}
TickLater(counted) == [i \in DOMAIN table |-> IF counted THEN Aged(table[i]) ELSE table[i]]

Moves ==
    \/ world' = [world EXCEPT ![1] = Absent] /\ table' = TickLater(~Counts)
    \/ \E at \in PlacesOfTick : GoesOn(at) /\ table' = TickLater(~Counts)
    \/ \E at \in PlacesOfTick, script \in {1, 2}, new \in BOOLEAN :
          /\ TakesOver(script, new, at)
          \* reset_vm, called as a VM is started
          /\ table' = [i \in DOMAIN table |->
                IF keeper = "pose" /\ new /\ table[i].key = 1 THEN Blank
                ELSE TickLater(~Counts)[i]]

\* A frame of the game, then the keeper's own part of the frame tick.
GameFrame ==
    /\ glance # Moving /\ Moves
    /\ glance' = IF keeper \in {"pose", "quad"} THEN Unseen ELSE Moving
    /\ UNCHANGED <<keeper, kind>>

\* Some of the others are not drawn any more; what they leave in the table stays.
OthersLeave ==
    /\ glance = Moving \/ (keeper \in {"pose", "quad"} /\ glance = Unseen)
    /\ \E gone \in (SUBSET (Things \ {1})) \ {{}} :
          /\ \A a \in gone : world[a].at # <<>>
          /\ world' = [a \in Things |-> IF a \in gone THEN Absent ELSE world[a]]
    /\ UNCHANGED <<keeper, kind, table, glance>>

\* With the interpolation switched off in the menu enemy_interp returns at once, and
\* the frame is not counted.
FrameRecorded ==
    /\ glance = Moving /\ glance' = Unseen
    /\ \E on \in {TRUE} \cup (IF Counts /\ "offOn" \in Odd THEN {FALSE} ELSE {}) :
          table' = IF on THEN Captured(TickLater(Counts), TRUE) ELSE table
    /\ UNCHANGED <<keeper, kind, world>>

\* What a tick or a presentation shows of thing 1, the state drawn from untouched.
Shown(s, alpha, absolute) ==
    LET tb == Captured(table, FALSE)
        at == world[1].at
        i == OwnSlot(tb, 1)
    IN  CASE keeper \in {"pose", "quad"} -> DrawnAll(s, alpha)
          [] keeper \notin {"pose", "quad"} /\ at = <<>> ->
                [table |-> tb, shown |-> <<>>, turns |-> <<>>]
          [] keeper = "enemy" /\ at # <<>> ->
                [table |-> tb, turns |-> <<>>,
                 shown |-> Around(IF i # 0 /\ tb[i].key = 1 THEN Placed(tb[i], alpha)
                                  ELSE 2 * at[1], absolute)]
          [] keeper = "option" /\ at # <<>> ->
                [table |-> tb, turns |-> <<>>, shown |-> <<Placed(tb[1], alpha)>>]
          [] keeper = "camera" /\ at # <<>> ->
                [table |-> tb, turns |-> <<>>,
                 shown |-> <<CameraAt(tb[1], at[Len(at)], AlphaOf(s, alpha), Ahead(s))>>]

Present ==
    /\ glance # Moving
    /\ \E s \in SwitchesNow, alpha \in Alphas, absolute \in Absolutes :
          LET drawn == Shown(s, alpha, absolute)
          IN  /\ table' = drawn.table
              /\ glance' = [shown |-> drawn.shown, turns |-> drawn.turns,
                            alpha |-> AlphaOf(s, alpha), ahead |-> Ahead(s),
                            lead |-> IF LeadOn(s) THEN s.velocity ELSE 0]
    /\ UNCHANGED <<keeper, kind, world>>

PoseNext == GameFrame \/ OthersLeave \/ FrameRecorded \/ Present

PoseSpec == PoseInit /\ [][PoseNext]_poseVars
-------------------------------------------------------------------------------
(* Properties                                                              *)

PoseTypeOK ==
    /\ keeper \in Keepers /\ kind \in Kinds
    /\ world \in [Things -> [script : {1, 2}, new : BOOLEAN, at : Seq(Places \cup {Nowhere}),
                             was : Seq(Places \cup {Nowhere}), known : BOOLEAN]]
    /\ \A i \in DOMAIN table :
          table[i].key \in Things \cup {0} /\ table[i].lag \in 0..Old
          /\ table[i].shared \in 0..SharedFor

\* Where the k-th drawing of the thing may be shown: where it is, or on the way
\* that this very thing has come, at the presentation's instant.
Path(k) ==
    {2 * world[1].at[k]} \cup
    {Between(p, world[1].at[k], glance.alpha, glance.ahead) :
        p \in {world[1].was[j] : j \in {k} \cap DOMAIN world[1].was} \cap
              {q \in Places : Near(q, world[1].at[k])}}

\* No thing is drawn on a motion that is not its own: not on that of what was at
\* its address before, not from one sprite to another of the same VM, not across
\* a teleport, a gap or a restarted script; an enemy's sprites keep their places
\* around it, what is pinned to the player goes with her, and a rotation is of the
\* same two ticks as the motion it comes with.
OwnMotion ==
    /\ glance.shown # <<>> =>
        CASE keeper = "enemy" ->
                \E R \in Path(1), absolute \in BOOLEAN : glance.shown = Around(R, absolute)
          [] keeper = "camera" -> glance.shown[1] \in Path(Len(world[1].at))
          [] OTHER ->
                \A k \in DOMAIN glance.shown :
                    glance.shown[k] \in (IF glance.lead # 0
                        THEN {2 * world[1].at[k] + glance.lead * glance.alpha} ELSE Path(k))
    /\ \A k \in DOMAIN glance.turns : glance.turns[k] \in {<<1, 0>>, <<Old, Old>>}

\* A thing that was remembered in the last tick and has made an ordinary step is
\* drawn on its way, whatever else contends for the table: it never falls back to
\* the 60 Hz places.  (A TH08 quad may, for a tick: see QuadSlot.)
SteadyMotion ==
    LET w == world[1] IN
    keeper # "quad" /\ glance.shown # <<>> /\ w.known
      /\ Len(w.at) = 1 /\ Len(w.was) = 1 /\ Near(w.was[1], w.at[1]) =>
        glance.shown[1] = Between(w.was[1], w.at[1], glance.alpha, glance.ahead)
===============================================================================
