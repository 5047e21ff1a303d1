------------------------------ MODULE DrawClasses -----------------------------
(***************************************************************************)
(* Dimming (src/core/dimming.c and the draw hooks of backends/d3d9.c): the *)
(* game's draw callbacks run in the order of their priorities and put      *)
(* quads into one batch, which goes out as a draw call whenever something  *)
(* flushes it.  The patch wraps the dispatch of a callback and the draw of *)
(* a sprite VM, keeps the class of what is being drawn in g_batch_class,   *)
(* and fades every draw call by that class.  Before the first callback of  *)
(* the world it blends a veil over the background.                         *)
(*                                                                         *)
(* A quad is what it is: the class the rules give the VM it comes from, or *)
(* the callback that made it without one, and whether it is of the world.  *)
(***************************************************************************)
EXTENDS Integers, Sequences, FiniteSets
LOCAL INSTANCE FiniteSetsExt

CONSTANTS
    Priorities,     \* of the callbacks, 1..n
    WorldPrio,      \* the first one of the world
    Rules,          \* the profile's: [lo, hi, of, class], the first that applies
    Sprites,        \* sprites that a VM may show, by what the rules ask of them
    Faded,          \* the classes the player has dimmed
    Callers,        \* VM draws in progress whose callers are kept (32)
    Nested,         \* VM draws in progress, at most
    AdditiveSource, \* the source factor of the game's additive blend: "one", "srcalpha"
    Habits          \* what the game's drawing is let do besides

NoClass == "none"
Own == "own"            \* drawn by the callback itself, no VM behind it
Outside == 0            \* g_draw_prio outside the runner

ASSUME DrawConstants ==
    /\ \E n \in 1..9 : Priorities = 1..n
    /\ \A i \in DOMAIN Rules : Rules[i].of \subseteq Sprites \cup {Own}
    /\ {WorldPrio, Callers, Nested} \subseteq Nat \ {0}
    /\ AdditiveSource \in {"one", "srcalpha"} /\ Habits \subseteq {"afterChild", "mixed"}

VARIABLES
    prio,       \* g_draw_prio
    last,       \* the priority of the frame's last callback
    vms,        \* the VM draws in progress, outermost first
    callers,    \* g_vm_callers; their number is g_vm_depth
    class,      \* g_batch_class
    batch,      \* the quads waiting
    sprited,    \* the callback has drawn a VM
    veiled,     \* g_dim_frame_done
    inGame,     \* dim_in_game
    painted,    \* what this frame's picture is made of: see Layer, and "veil"
    drawn,      \* history: the last draw call
    veil,       \* history: what the last veil was laid over, and what was drawn after it
    strayed     \* history: a VM draw has returned to what did not call it

drawVars == <<prio, last, vms, callers, class, batch, sprited, veiled, inGame, painted,
              drawn, veil, strayed>>

Undrawn == [quads |-> {}, class |-> NoClass, additive |-> FALSE]
NoVeil == [over |-> {}, after |-> {}]

DrawInit ==
    /\ prio = Outside /\ last = Outside /\ vms = <<>> /\ callers = <<>>
    /\ class = NoClass /\ batch = {} /\ sprited = FALSE
    /\ veiled = FALSE /\ inGame \in BOOLEAN /\ painted = {}
    /\ drawn = Undrawn /\ veil = NoVeil /\ strayed = FALSE
-------------------------------------------------------------------------------
(* Classes. *)

Applies(r, p, what) == r.lo <= p /\ p <= r.hi /\ what \in r.of

\* dim_classify
Classify(p, what) ==
    LET rules == {i \in DOMAIN Rules : Applies(Rules[i], p, what)}
    IN  IF p = Outside \/ rules = {} THEN NoClass ELSE Rules[Min(rules)].class

Depth == Len(vms)
What == IF vms = <<>> THEN Own ELSE vms[Depth].sprite
Layer == IF (IF prio = Outside THEN last ELSE prio) >= WorldPrio THEN "world" ELSE "background"
Quad == [class |-> Classify(prio, What), layer |-> Layer]

\* dim_fade_factor: how often the percentage is in a colour and in its alpha.
InColour(c, additive) == IF additive \/ c = "background" THEN 1 ELSE 0
InAlpha(c) == IF c = "background" THEN 0 ELSE 1

\* dim_draw_fade and the blend: how often it is in what a draw call adds to the
\* picture.
Fades(c, additive) ==
    IF c \notin Faded THEN 0
    ELSE InColour(c, additive) +
         (IF additive /\ AdditiveSource = "one" THEN 0 ELSE InAlpha(c))

Layers(quads) == {q.layer : q \in quads}
Covered(quads) ==
    IF "veil" \in painted
    THEN [over |-> veil.over, after |-> veil.after \cup Layers(quads)] ELSE veil

\* hook_DrawPrimitiveUP, hook_DrawPrimitive: a draw call of these quads.
DrawCall(quads, c) ==
    /\ \E additive \in BOOLEAN :
          drawn' = IF quads = {} THEN drawn
                   ELSE [quads |-> quads, class |-> c, additive |-> additive]
    /\ painted' = painted \cup Layers(quads) /\ veil' = Covered(quads)

Flushed == DrawCall(batch, class) /\ batch' = {}
Kept == UNCHANGED <<batch, drawn, painted, veil>>
-------------------------------------------------------------------------------
(* A callback. *)

\* dim_at_callback: the veil, once a frame, if the viewport can be had.
Veils(p) == "background" \in Faded /\ ~veiled /\ p >= WorldPrio /\ inGame

\* The wrap, before the callback.
Dispatch(p) ==
    /\ prio = Outside /\ vms = <<>> /\ p > last /\ prio' = p /\ last' = p
    /\ batch' = {} /\ class' = Classify(p, Own) /\ sprited' = FALSE
    /\ LET out == painted \cup Layers(batch)
       IN  /\ drawn' \in IF batch = {} THEN {drawn}
                 ELSE {[quads |-> batch, class |-> class, additive |-> a] : a \in BOOLEAN}
           /\ veiled' = (veiled \/ Veils(p))
           /\ \/ Veils(p) /\ painted' = out \cup {"veil"} /\ veil' = [over |-> out, after |-> {}]
              \/ painted' = out /\ veil' = Covered(batch)
    /\ UNCHANGED <<vms, callers, inGame, strayed>>

\* The wrap, after it.
Return ==
    /\ prio # Outside /\ vms = <<>> /\ Flushed
    /\ prio' = Outside /\ class' = NoClass
    /\ UNCHANGED <<last, vms, callers, sprited, veiled, inGame, strayed>>
-------------------------------------------------------------------------------
(* A sprite VM. *)

Called(s, caller) ==
    /\ vms' = Append([i \in DOMAIN vms |-> [vms[i] EXCEPT !.parent = (i = Depth) \/ @]],
                     [sprite |-> s, caller |-> caller, parent |-> FALSE])
    /\ callers' = IF Depth < Callers THEN Append(callers, caller) ELSE callers
    /\ sprited' = TRUE

\* Faulty: what waits in the batch takes the VM's class.
EnterUnflushed(s, caller) ==
    /\ Depth < Nested /\ Called(s, caller) /\ Kept
    /\ class' = IF prio = Outside THEN class ELSE Classify(prio, s)
    /\ UNCHANGED <<prio, last, veiled, inGame, strayed>>

\* The entry stub, dim_vm_enter.
Enter(s, caller) ==
    /\ Depth < Nested /\ Called(s, caller)
    /\ IF prio = Outside \/ Classify(prio, s) = class THEN Kept /\ UNCHANGED class
       ELSE Flushed /\ class' = Classify(prio, s)
    /\ UNCHANGED <<prio, last, veiled, inGame, strayed>>

\* dim_vm_exit, the exit stub: to nowhere, when the caller was not kept.
Exit ==
    /\ vms # <<>> /\ vms' = SubSeq(vms, 1, Depth - 1)
    /\ callers' = IF Depth <= Callers THEN SubSeq(callers, 1, Depth - 1) ELSE callers
    /\ strayed' = (Depth > Callers \/ callers[Depth] # vms[Depth].caller)
    /\ IF Depth = 1 /\ class # NoClass THEN Flushed /\ class' = NoClass
       ELSE Kept /\ UNCHANGED class
    /\ UNCHANGED <<prio, last, sprited, veiled, inGame>>
-------------------------------------------------------------------------------
(* The game's drawing. *)

\* It may draw now.  A VM draws its own quads before its children, and a manager
\* whose quads have a class does not draw more of them after a VM; unless let.
Ready ==
    /\ vms # <<>> /\ vms[Depth].parent => "afterChild" \in Habits
    /\ vms = <<>> /\ prio # Outside /\ sprited /\ Classify(prio, Own) # NoClass
          => "mixed" \in Habits

Batches ==
    /\ Ready /\ batch' = batch \cup {Quad}
    /\ UNCHANGED <<prio, last, vms, callers, class, sprited, veiled, inGame, painted, drawn,
                   veil, strayed>>

\* Another texture or blend.
Flushes ==
    /\ batch # {} /\ Flushed
    /\ UNCHANGED <<prio, last, vms, callers, class, sprited, veiled, inGame, strayed>>

\* A 3D-mode sprite, from the vertex buffer.
DrawsAtOnce ==
    /\ Ready /\ batch = {} /\ DrawCall({Quad}, class)
    /\ UNCHANGED <<prio, last, vms, callers, class, batch, sprited, veiled, inGame, strayed>>

\* The frame is shown.
FrameShown ==
    /\ prio = Outside /\ vms = <<>> /\ last # Outside /\ batch = {}
    /\ last' = Outside /\ veiled' = FALSE /\ painted' = {} /\ inGame' \in BOOLEAN
    /\ veil' = NoVeil /\ drawn' = Undrawn
    /\ UNCHANGED <<prio, vms, callers, class, batch, sprited, strayed>>

DrawNext ==
    \/ \E p \in Priorities : Dispatch(p)
    \/ Return
    \/ \E s \in Sprites, caller \in {1, 2} : Enter(s, caller)
    \/ Exit \/ Batches \/ Flushes \/ DrawsAtOnce \/ FrameShown

DrawSpec == DrawInit /\ [][DrawNext]_drawVars
-------------------------------------------------------------------------------
(* Properties. *)

DrawTypeOK ==
    /\ prio \in Priorities \cup {Outside} /\ last \in Priorities \cup {Outside}
    /\ Len(vms) \in 0..Nested /\ Len(callers) \in 0..Callers
    /\ class \in {Rules[i].class : i \in DOMAIN Rules} \cup {NoClass}
    /\ painted \subseteq {"background", "world", "veil"}

\* Every quad is faded as what it is, and once.  Each class has a percentage of its
\* own (cfg.dim[cls], dimming.c:175-180): a quad of a dimmed class is only ever in a
\* draw call of that class, and a draw call of a dimmed class has no other quads,
\* whichever sprites, callbacks and flushes come between (dimming.c:24-30, 275-278).
FadesAsItself ==
    \A q \in drawn.quads :
        q.class \in Faded \/ drawn.class \in Faded =>
            q.class = drawn.class /\ Fades(drawn.class, drawn.additive) = 1

\* The veil lies over all the background and nothing else: nothing of the world and no
\* other veil has been drawn when it is laid, and no background is drawn after it, not
\* by what waited in the batch either (dimming.c:32-34, 305-309, 315).
VeilBetween == veil.over \subseteq {"background"} /\ "background" \notin veil.after

\* Both, and a wrapped draw goes back to where it was called from
\* (dimming.c:109-113), nested draws included.
FadedApart == FadesAsItself /\ VeilBetween /\ ~strayed
===============================================================================
