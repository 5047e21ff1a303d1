------------------------------- MODULE SiteKinds -------------------------------
(***************************************************************************)
(* The kinds of site patch a game profile installs (the stub builders of   *)
(* src/core/site_helpers.c and src/core/x86.c, docs/GAME_DIFFERENCES.md).  *)
(*                                                                         *)
(* A site is a place in a game's own code where something is done once a   *)
(* call: in the node's update function, once a frame in the unmodified     *)
(* game and once a tick when the node is stepped.  The patch makes it      *)
(* happen on some of the ticks only (its gate), or changes the amount.     *)
(***************************************************************************)

\* What the game does there, on which ticks the patch lets it, how much it is
\* in the unmodified game and by how much it is after the patch.
Site(node, does, gate, stock, by) ==
    [node |-> node, does |-> does, gate |-> gate, stock |-> stock, by |-> by]

\* Once a call: a counter, a random number drawn, a list shifted, a callback.
\* gate_block and gate_callback, and the stubs written like them.
PerCall(node, gate) == Site(node, "call", gate, "one", "one")

\* When the object's timer is at a given frame, or at every n-th.
AtFrame(node, gate) == Site(node, "at", gate, "one", "one")
EveryNth(node, gate) == Site(node, "nth", gate, "one", "one")

\* An amount a frame that the game adds without its speed: emit_factor.
Rate(node, by) == Site(node, "call", "tick", "one", by)

\* A timer set back by a number of frames, which Timer::add scales by the speed.
Jump(node, by) == Site(node, "jump", "tick", "speed", by)

\* A timer that is read on frame ticks only, and ticks there and nowhere else.
Clock(node) == Site(node, "clock", "frame", "speed", "logical")

\* A position of whole fixed-point units, moved by a truncated speed.
Move(node) == Site(node, "move", "tick", "speed", "speed")

\* The enemies' test that the player's timer moved since their last frame.
Hit(node, gate) == Site(node, "hit", gate, "one", "one")

\* Once in an object's life, when something else in the game allows it.  The gate
\* settles which ticks ask; when the answer comes is the game's.
Ask(node, gate) == Site(node, "ask", gate, "one", "one")

\* A display flag that is up for every n-th frame.
Lit(node) == Site(node, "lit", "moved", "one", "one")

\* A shot's motion, from the frame after the one it is fired in.
Fresh(node, gate) == Site(node, "fresh", gate, "one", "factor")

\* A timer that is set back by a cycle in place of its tick.
Wrap(node) == Site(node, "wrap", "tick", "speed", "rest")
===============================================================================
