---------------------------- MODULE MCReplaySession ---------------------------
(***************************************************************************)
(* Instances of ReplaySession for TLC: settings that differ in what they   *)
(* switch; a stream of two ticks is longer than a run may be.              *)
(***************************************************************************)
EXTENDS ReplaySession

Chosen == {[substep |-> TRUE, subtick |-> TRUE, nodes |-> TRUE],
           [substep |-> FALSE, subtick |-> TRUE, nodes |-> FALSE]}
===============================================================================
