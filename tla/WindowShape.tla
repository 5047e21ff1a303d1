------------------------------ MODULE WindowShape -----------------------------
(***************************************************************************)
(* The game's window and the mouse pointer (src/core/window.c).  The game  *)
(* writes its window's style and size anew whenever it resets its device,  *)
(* and hides the pointer when it believes it is full screen.  Once a frame *)
(* the patch re-asserts what is wanted instead: a border to drag, a size   *)
(* asked for, or a borderless window over the monitor; its own full screen *)
(* is the last step of the size cycle.                                     *)
(*                                                                         *)
(* Sizes are widths, in quarters of the game's own.  A caption and a       *)
(* border to drag each add one to the outside.  Sizes of the picture are   *)
(* in Presentation.                                                        *)
(***************************************************************************)
EXTENDS Integers, FiniteSetsExt

CONSTANTS
    Screen,     \* the monitor's width
    WorkArea,   \* what of it a window may take
    Presets,    \* the cycle's sizes
    Scales,     \* window_scale: a size, Largest or Leave
    Drags,      \* sizes the player drags the window to
    Surprises   \* what the game is let do under the patch's own full screen

Native == 4
Leave == 0
Largest == 99       \* the largest whole multiple that fits (-1 in the settings)
GameFs == "game"
Borderless == "borderless"
Pointers == {"hidden", "shown", "moving"}       \* cfg.cursor

ASSUME WindowConstants ==
    /\ {Screen, WorkArea} \subseteq Nat /\ WorkArea <= Screen /\ Native + 2 <= WorkArea
    /\ Native \in Presets /\ Presets \subseteq Nat /\ Scales \subseteq Nat
    /\ Drags \subseteq Nat /\ Surprises \subseteq {"resets", "switches"}

VARIABLES
    conf,       \* cfg: resizable, mode, scale, pointer
    external,   \* another renderer composes the picture
    gameFull,   \* the game's idea of its mode
    style,      \* GWL_STYLE: caption, thick (the border to drag), popup
    outer,      \* the window's width
    wanted,     \* history: the client width last asked for by anyone
    own,        \* g_hfr_fullscreen
    saved,      \* g_hfr_saved_style
    active,     \* g_borderless_active
    scaled,     \* g_window_scaled
    rescale,    \* g_pending_window
    minimized,  \* g_minimized
    menu,       \* hfr_menu_visible
    moved,      \* the mouse has moved in the last two seconds
    count,      \* g_cursor_game_count
    shownNow,   \* g_cursor_shown
    winCount,   \* Windows' own display count
    fresh       \* a frame has just begun

shape == <<gameFull, style, outer, wanted, own, saved, active, scaled, rescale>>
pointer == <<count, shownNow, winCount>>
windowVars == <<conf, external, shape, minimized, menu, moved, pointer, fresh>>

Windowed == [caption |-> TRUE, thick |-> FALSE, popup |-> FALSE]
Full == [caption |-> FALSE, thick |-> FALSE, popup |-> TRUE]

Pad(st) == (IF st.caption THEN 1 ELSE 0) + (IF st.thick THEN 1 ELSE 0)
Client == outer - Pad(style)

WindowInit ==
    /\ conf \in [resizable : BOOLEAN, mode : {GameFs, Borderless}, scale : Scales,
                 pointer : Pointers]
    /\ external \in BOOLEAN
    /\ gameFull = FALSE /\ style = Windowed /\ wanted = Native /\ outer = Native + Pad(Windowed)
    /\ own = FALSE /\ saved = Windowed /\ active = FALSE
    /\ scaled = FALSE /\ rescale = FALSE /\ minimized = FALSE /\ menu = FALSE /\ moved = FALSE
    /\ count = 0 /\ shownNow = TRUE /\ winCount = 0 /\ fresh = FALSE
-------------------------------------------------------------------------------
(* Sizes.  The window's part of the state is passed along as w.            *)

Now == [style |-> style, outer |-> outer, wanted |-> wanted, own |-> own, saved |-> saved,
        active |-> active, scaled |-> scaled, scale |-> conf.scale]

\* window_apply_scale: held at what fits the work area.
Scaled(w, scale) ==
    LET room == WorkArea - Pad(w.style)
        want == IF scale = Largest THEN Native * Max({room \div Native, 1}) ELSE scale
        size == Min({room, Max({want, Native \div 4})})
    IN  [w EXCEPT !.outer = size + Pad(w.style), !.wanted = size]

GameFullscreen(w) == ~w.style.caption /\ w.style.popup /\ ~w.own

\* window_hfr_fullscreen
EnterOwn(w) ==
    [w EXCEPT !.own = TRUE, !.saved = w.style,
              !.style = [caption |-> FALSE, thick |-> FALSE, popup |-> TRUE]]
LeaveOwn(w) == [w EXCEPT !.own = FALSE, !.style = w.saved]

\* window_cycle_size
Cycled(w) ==
    LET next == {p \in Presets : p > w.outer - Pad(w.style) /\ p <= WorkArea - Pad(w.style)}
        To(v, p) == Scaled([v EXCEPT !.scale = p], p)
    IN  CASE GameFullscreen(w) -> w
          [] w.own -> To(LeaveOwn(w), Min(Presets))
          [] ~w.own /\ ~GameFullscreen(w) /\ next # {} -> To(w, Min(next))
          [] OTHER -> EnterOwn(w)

WantsBorderless(w) == w.own \/ (conf.mode = Borderless /\ GameFullscreen(w))

\* Faulty: the border is added and the window's outside kept.
BorderedInside(w) ==
    IF conf.resizable /\ ~GameFullscreen(w) THEN [w EXCEPT !.style.thick = TRUE] ELSE w

\* window_enforce: the client keeps its size as the border is added.
Bordered(w) ==
    IF conf.resizable /\ ~GameFullscreen(w)
    THEN LET thick == [w.style EXCEPT !.thick = TRUE]
         IN  [w EXCEPT !.style = thick, !.outer = w.outer - Pad(w.style) + Pad(thick)]
    ELSE w

\* The startup size, once.
Started(w) ==
    IF w.scaled \/ GameFullscreen(w) THEN w
    ELSE LET s == [w EXCEPT !.scaled = TRUE]
         IN  IF w.scale = Leave THEN s ELSE Scaled(s, w.scale)

Enforced(w) ==
    IF external \/ minimized THEN w
    ELSE IF WantsBorderless(w) THEN [w EXCEPT !.active = TRUE, !.outer = Screen]
    ELSE Started(Bordered([w EXCEPT !.active = FALSE]))
-------------------------------------------------------------------------------
(* The pointer.                                                            *)

\* cursor_want_visible
Want(open, hides, covers, moving) ==
    \/ open
    \/ hides >= 0
    \/ covers /\ (conf.pointer = "shown" \/ (conf.pointer = "moving" /\ moving))

\* cursor_apply: Windows is told until its count has the sign that is wanted.
Applied(want) ==
    /\ shownNow' = want
    /\ winCount' = IF want = shownNow THEN winCount
                   ELSE IF want THEN Max({winCount + 1, 0}) ELSE Min({winCount - 1, -1})

\* hook_ShowCursor
GameShowsCursor(show) ==
    /\ count' = IF show THEN 0 ELSE -1
    /\ Applied(Want(menu, count', active, moved))
    /\ fresh' = FALSE /\ UNCHANGED <<conf, external, shape, minimized, menu, moved>>

\* cursor_mouse_message
MouseMoves ==
    /\ moved' = TRUE
    /\ IF conf.pointer = "moving" /\ ~shownNow THEN Applied(Want(menu, count, active, TRUE))
       ELSE UNCHANGED <<shownNow, winCount>>
    /\ fresh' = FALSE /\ UNCHANGED <<conf, external, shape, minimized, menu, count>>

MouseRests ==
    /\ moved /\ moved' = FALSE
    /\ fresh' = FALSE /\ UNCHANGED <<conf, external, shape, minimized, menu, pointer>>
-------------------------------------------------------------------------------
(* The frame.                                                              *)

Becomes(w) ==
    /\ style' = w.style /\ outer' = w.outer /\ wanted' = w.wanted /\ own' = w.own
    /\ saved' = w.saved /\ active' = w.active /\ scaled' = w.scaled

\* hfr_ui_apply_pending, window_pump: the size asked for in the menu, the keys,
\* what is enforced, the pointer.
Upkeep(cycle, toggle) ==
    LET set == IF rescale /\ ~active THEN Scaled(Now, conf.scale) ELSE Now
        w == Enforced(IF cycle THEN Cycled(set) ELSE set)
    IN
    /\ cycle => ~minimized /\ ~external
    /\ menu' = (IF toggle THEN ~menu ELSE menu) /\ rescale' = FALSE
    /\ Becomes(w) /\ conf' = [conf EXCEPT !.scale = w.scale]
    /\ Applied(Want(menu', count, w.active, moved))
    /\ fresh' = TRUE /\ UNCHANGED <<external, gameFull, minimized, moved, count>>
-------------------------------------------------------------------------------
(* The game, the player and the menu.                                      *)

\* The game's reset path rewrites its window: in its mode, at its own size.
GameResets(full) ==
    /\ own => (IF full = gameFull THEN "resets" ELSE "switches") \in Surprises
    /\ gameFull' = full /\ wanted' = Native
    /\ style' = (IF full THEN Full ELSE Windowed) /\ outer' = Native + Pad(style')
    /\ fresh' = FALSE
    /\ UNCHANGED <<conf, external, own, saved, active, scaled, rescale, minimized, menu, moved, pointer>>

\* WM_SIZE: minimised, restored.
Minimizes ==
    /\ minimized' = ~minimized /\ fresh' = FALSE
    /\ UNCHANGED <<conf, external, shape, menu, moved, pointer>>

\* A drag of the border, or WM_SIZE of a maximise, which the game is not told.
Resizes(size) ==
    /\ style.thick /\ ~active /\ ~minimized
    /\ outer' = Max({size, Native \div 4 + Pad(style)}) /\ wanted' = outer' - Pad(style)
    /\ fresh' = FALSE
    /\ UNCHANGED <<conf, external, gameFull, style, own, saved, active, scaled, rescale,
                   minimized, menu, moved, pointer>>

\* hfr_ui_set
MenuSets ==
    /\ menu
    /\ \/ \E p \in Pointers : conf' = [conf EXCEPT !.pointer = p] /\ UNCHANGED rescale
       \/ conf' = [conf EXCEPT !.resizable = ~@] /\ UNCHANGED rescale
       \/ \E m \in {GameFs, Borderless} : conf' = [conf EXCEPT !.mode = m] /\ UNCHANGED rescale
       \/ \E s \in Scales :
            conf' = [conf EXCEPT !.scale = s] /\ rescale' = (rescale \/ s # Leave)
    /\ fresh' = FALSE
    /\ UNCHANGED <<external, gameFull, style, outer, wanted, own, saved, active, scaled,
                   minimized, menu, moved, pointer>>

WindowNext ==
    \/ \E cycle, toggle \in BOOLEAN : Upkeep(cycle, toggle)
    \/ \E show \in BOOLEAN : GameShowsCursor(show)
    \/ \E full \in BOOLEAN : GameResets(full)
    \/ \E size \in Drags \cup {WorkArea} : Resizes(size)
    \/ MouseMoves \/ MouseRests \/ Minimizes \/ MenuSets

WindowSpec == WindowInit /\ [][WindowNext]_windowVars
-------------------------------------------------------------------------------
(* Properties.                                                             *)

WindowTypeOK ==
    /\ style \in [caption : BOOLEAN, thick : BOOLEAN, popup : BOOLEAN]
    /\ outer \in 0..Screen /\ wanted \in Nat /\ count \in {-1, 0} /\ winCount \in Int
    /\ conf.scale \in Scales \cup Presets /\ saved \in [caption : BOOLEAN, thick : BOOLEAN, popup : BOOLEAN]

\* Full screen is a window without a frame over the whole monitor; any other
\* window has the size last asked for, by the game, the player or the cycle, and
\* is of the class the game believes in; and it has its border.
ShapeAsAsked ==
    /\ WantsBorderless(Now) => outer = Screen /\ active /\ Pad(style) = 0
    /\ ~WantsBorderless(Now) => ~active
    /\ style.caption => Client = wanted /\ (conf.resizable => style.thick)
    /\ ~own => (GameFullscreen(Now) <=> gameFull)

\* At the start of every frame the window is as it was asked to be, whatever the
\* game and the player have done since the last (window.c:1-11, 250-252), and the
\* pointer as well (78-92): Windows' count has the sign that is wanted, and does
\* not run away from it.
WindowAsAsked ==
    /\ fresh /\ ~minimized /\ ~external => ShapeAsAsked
    /\ fresh => (winCount >= 0) = Want(menu, count, active, moved)
    /\ winCount \in {-1, 0}
===============================================================================
