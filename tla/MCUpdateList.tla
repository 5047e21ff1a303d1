------------------------------ MODULE MCUpdateList ----------------------------
(***************************************************************************)
(* An instance for TLC of a frame's two halves: the walk over the update   *)
(* list (a menu, a stepped background, GameManager, the stepped player and *)
(* bullets, and a frame's last system), and what is drawn between frames   *)
(* (PoseHistory).  Neither reads the other's state: a behaviour is one of  *)
(* the two, chosen at the start, and the other's state stays as it is.     *)
(***************************************************************************)
EXTENDS UpdateList, PoseHistory

VARIABLE drawing    \* the behaviour is one of PoseHistory

FrameInit ==
    /\ drawing \in BOOLEAN /\ Init /\ PoseInit
    /\ IF drawing THEN ~playing ELSE keeper = "option"

Walks == ~drawing /\ Next /\ UNCHANGED <<poseVars, drawing>>
DrawsBetween == drawing /\ PoseNext /\ UNCHANGED <<vars, drawing>>

FrameNext == Walks \/ DrawsBetween

FrameSpec == FrameInit /\ [][FrameNext]_<<vars, poseVars, drawing>>
===============================================================================
