------------------------------- MODULE UpdateList ------------------------------
(***************************************************************************)
(* The walk over the game's update list (hfr_runner and runner_node in     *)
(* src/backends/update_runner.c, node_mode in src/core/nodes.c).           *)
(*                                                                         *)
(* A pass calls the nodes of the list in order.  On a frame tick every     *)
(* node is called; on the minor ticks between frames only the stepped      *)
(* ones are, as far as the frame tick went.  A callback may end the pass,  *)
(* ask to be called again, ask for the list again, raise or lower the      *)
(* pause, and take nodes off the list or put them on, itself and the one   *)
(* the walk has next included.                                             *)
(*                                                                         *)
(* A node is its place in the order.  A callback is one step: the lock is  *)
(* given back for it, so what other threads do to the list is in it, and   *)
(* the nodes between two calls are passed over under the lock.  The        *)
(* streams and resyncs of a pass are in ReplayStream; the time factor and  *)
(* the player's masked key presses decide nothing about the walk.          *)
(***************************************************************************)
EXTENDS Integers, FiniteSets

CONSTANTS
    Size,       \* nodes are 1..Size, in the order of their priorities
    Stepped,    \* nodes of MODE_SUB classes that are enabled
    Gm,         \* GameManager's node
    Volatile,   \* nodes that callbacks take off the list, put on and disable
    HasCell,    \* layout.runner_next: the runner keeps the next node
    MaxMinors,  \* most minor ticks of a frame
    MaxAgain    \* bounds the calls of one node in a pass

Nodes == 1..Size
None == 0
End == Size + 1

ASSUME ListConstants ==
    /\ Size \in Nat \ {0} /\ Stepped \subseteq Nodes /\ Gm \in Nodes \ Stepped
    /\ Volatile \subseteq Nodes \ {Gm} /\ HasCell \in BOOLEAN
    /\ MaxMinors \in Nat /\ MaxAgain \in Nat \ {0}

VARIABLES
    list,       \* nodes on the list
    off,        \* those of them whose flag 2 is clear
    uf, next,   \* the node the walk is at, and n, the one it has next
    pass,       \* "walk" in a pass; then how it ended: "whole", "cut", "over"
    major,      \* g_major
    minors,     \* minor ticks of this frame so far
    stopId,     \* g_stop_id
    pause,      \* GameManager's pause flags
    ending,     \* layout.runner_ending: the runner is being torn down
    playing,    \* g_replay_playing, the ticks sliced
    forward,    \* g_ff_frames is not 0
    calls,      \* history: calls of each node in this pass
    again,      \* history: calls again that each node was given
    stable,     \* history: nodes on the list and enabled since the pass began
    halted,     \* history: the node at which the frame tick ended, or None
    paused      \* history: the pause was up when this pass began

vars == <<list, off, uf, next, pass, major, minors, stopId, pause, ending, playing,
          forward, calls, again, stable, halted, paused>>

Never == [x \in Nodes |-> 0]

\* The first node at place x or behind it.
From(l, x) == CHOOSE y \in {z \in l : z >= x} \cup {End} :
                 \A z \in {z \in l : z >= x} \cup {End} : y <= z

Init ==
    /\ list = Nodes /\ off = {} /\ uf = End /\ next = End /\ pass = "whole"
    /\ major = TRUE /\ minors = MaxMinors /\ stopId = None
    /\ pause = FALSE /\ ending = FALSE /\ playing \in BOOLEAN /\ forward = FALSE
    /\ calls = Never /\ again = Never /\ stable = {} /\ halted = None /\ paused = FALSE
-------------------------------------------------------------------------------
(* The walk. *)

WalkTo(n, l) == uf' = n /\ next' = From(l, n + 1)

\* runner_pass_begin, and hfr_runner up to its loop.
Begin(m) ==
    /\ pass \in {"whole", "cut"} /\ ~ending /\ pass' = "walk" /\ major' = m
    /\ WalkTo(From(list, 1), list)
    /\ calls' = Never /\ again' = Never /\ stable' = list \ off /\ paused' = pause
    /\ UNCHANGED <<list, off, pause, ending, playing, forward>>

\* Faulty: a stop is kept until another one.
StopKept == stopId

StopAtFrame == None

FrameTick ==
    Begin(TRUE) /\ stopId' = StopAtFrame /\ minors' = 0 /\ halted' = None

MinorTick ==
    /\ minors < MaxMinors /\ Begin(FALSE) /\ minors' = minors + 1
    /\ UNCHANGED <<stopId, halted>>

\* run_ff_frames has run the frames that were asked for.
Forwarded ==
    /\ forward /\ pass # "walk" /\ forward' = FALSE
    /\ UNCHANGED <<list, off, uf, next, pass, major, minors, stopId, pause, ending,
                   playing, calls, again, stable, halted, paused>>

Quiet == UNCHANGED <<list, off, major, minors, stopId, pause, ending, playing, forward,
                     calls, again, stable, halted, paused>>

PassEnd ==
    /\ pass = "walk" /\ uf = End /\ pass' = "whole"
    /\ UNCHANGED <<uf, next>> /\ Quiet

AtNode == pass = "walk" /\ uf \in Nodes

\* A disabled node is passed over; a runner that ends cleans its nodes up.
PassOver ==
    /\ AtNode /\ (uf \in off \/ ending)
    /\ WalkTo(next, list) /\ UNCHANGED pass /\ Quiet

\* runner_node's first condition, decided under the lock.
OnMinor == AtNode /\ uf \notin off /\ ~ending /\ ~major /\ uf \notin Stepped

\* Faulty: a pause waits for the next frame tick.
CutAtStopOnly(x) == x = stopId

\* RUNNER_CUT
Cut(x) == x = stopId \/ (x = Gm /\ pause)

Skip == OnMinor /\ ~Cut(uf) /\ WalkTo(next, list) /\ UNCHANGED pass /\ Quiet

CutHere == OnMinor /\ Cut(uf) /\ pass' = "cut" /\ UNCHANGED <<uf, next>> /\ Quiet
-------------------------------------------------------------------------------
(* A call. *)

\* What the list and its disabled nodes may be after a callback.
Edited(x) ==
    {[list |-> list, off |-> off]}
    \cup {[list |-> list \ {y}, off |-> off \ {y}] : y \in (Volatile \ {x}) \cap list}
    \cup {[list |-> list \cup {y}, off |-> off] : y \in Volatile \ list}
    \cup {[list |-> list, off |-> off \cup {y}] : y \in Volatile \cap list}
    \cup {[list |-> list, off |-> off \ {y}] : y \in off}

\* GameManager stops the list while paused; the systems that stop it, end it
\* or ask for it again are the frame's.
Answers(x) ==
    IF x = Gm THEN {IF pause THEN 3 ELSE 1}
    ELSE {1} \cup (IF calls[x] < MaxAgain THEN {2} ELSE {})
             \cup (IF x \in Volatile THEN {0} ELSE {})
             \cup (IF x \in Stepped THEN {} ELSE {3, 4, 7})
             \cup (IF x \in Stepped \/ calls[x] >= MaxAgain THEN {} ELSE {6})

Pauses(x) == IF x = Gm THEN {pause} ELSE IF x \in Stepped THEN {pause, TRUE} ELSE BOOLEAN

\* Faulty: the walk goes on to the node it had read before the call.
NextBeforeCall(l) == next

\* next_load: where the runner has a cell for it, the game's removal keeps it.
NextAfterCall(l) == IF HasCell THEN From(l, next) ELSE next

\* Faulty: a replay's fast forward is obeyed inside the tick.
NeverCounted == FALSE

Counted == major /\ playing

\* hfr_runner's switch on what the node answered.
Goes(r, e) ==
    LET l == IF r = 0 THEN e.list \ {uf} ELSE e.list
        on == /\ WalkTo(NextAfterCall(l), l) /\ pass' = "walk" IN
    /\ list' = l /\ off' = e.off \cap l
    /\ forward' = (forward \/ (r = 6 /\ Counted))
    /\ stopId' = IF r = 3 /\ major THEN uf ELSE stopId
    /\ CASE r = 2 /\ uf \notin off' -> /\ uf' = uf /\ next' = NextAfterCall(l)
                                       /\ pass' = "walk"
         [] r = 3 -> pass' = "cut" /\ UNCHANGED <<uf, next>>
         [] r = 4 -> pass' = "over" /\ UNCHANGED <<uf, next>>
         [] r = 6 /\ ~Counted -> WalkTo(From(l, 1), l) /\ pass' = "walk"
         [] OTHER -> on

Call ==
    /\ AtNode /\ uf \notin off /\ ~ending /\ (major \/ uf \in Stepped)
    /\ \E e \in Edited(uf), r \in Answers(uf) :
        /\ Goes(r, e)
        /\ halted' = IF r = 3 /\ major THEN uf ELSE halted
        /\ calls' = [calls EXCEPT ![uf] = @ + 1]
        /\ again' = IF r = 2 /\ uf \notin off' THEN [again EXCEPT ![uf] = @ + 1] ELSE again
    /\ pause' \in Pauses(uf)
    /\ ending' \in {FALSE, uf = Size}
    /\ stable' = (stable \cap list') \ off'
    /\ UNCHANGED <<major, minors, playing, paused>>

\* The scene is over: its list is built again for the next one.
NextScene ==
    /\ pass # "walk" /\ (pass = "over" \/ ending)
    /\ list' = Nodes /\ off' = {} /\ pass' = "whole" /\ minors' = MaxMinors
    /\ pause' = FALSE /\ ending' = FALSE /\ playing' \in BOOLEAN
    /\ stable' = {}
    /\ UNCHANGED <<uf, next, major, stopId, forward, calls, again, halted, paused>>

Next ==
    \/ FrameTick \/ MinorTick \/ Forwarded \/ PassEnd \/ PassOver
    \/ Skip \/ CutHere \/ Call \/ NextScene

Spec == Init /\ [][Next]_vars
-------------------------------------------------------------------------------
(* Properties. *)

\* The minor ticks of a frame go as far as its frame tick and no further: none
\* calls a node behind the one that stopped the frame tick while that one is on
\* the list and enabled, or behind GameManager when the pause was up, whichever
\* node raised it and in which tick; and none is cut where neither is the case
\* (update_runner.c:96-102).
CutHolds ==
    ~major =>
        /\ halted \in stable => \A x \in Nodes : x > halted => calls[x] = 0
        /\ paused => \A x \in Nodes : x > Gm => calls[x] = 0
        /\ pass = "cut" => halted # None \/ pause

\* In a tick that was neither cut nor over, every stepped node that stayed on
\* the list had exactly its slice, whatever the others did to the list, and the
\* frame's systems exactly their frame; in playback at a sliced rate a fast
\* forward gives no tick twice (update_runner.c:142-178, frame.c:14-21).
WholeSlices ==
    pass = "whole" /\ playing /\ ~ending =>
        \A x \in stable : calls[x] = IF major \/ x \in Stepped THEN 1 + again[x] ELSE 0

\* The walk is never at a node that has been taken off the list, nor about to
\* be, where the runner keeps the next node (update_runner.c:21-25).
WalksTheList ==
    pass = "walk" => {uf, next} \subseteq list \cup {End}
===============================================================================
