---------------------------- MODULE MCSlicedSystems ----------------------------
(***************************************************************************)
(* An instance for TLC of both ways of stepping a system: the games that   *)
(* multiply by a speed (SlicedSystems) and TH08, which bakes it into the   *)
(* velocities (Th08Field).  A process runs one game, chosen at the start;  *)
(* the other's state stays as it is.                                       *)
(*                                                                         *)
(* A period is 3 frames of 4 units: rates 3, 6 and 12 cut every frame      *)
(* alike, 4, 5 and 7 do not, and at 4 a tick is most of a frame, as at 75  *)
(* Hz.                                                                     *)
(***************************************************************************)
EXTENDS SlicedSystems, Th08Field

AllRates == {3, 4, 5, 6, 7, 12}
SomeRates == {3, 4, 6, 12}
HalfAndFull == {1, 2}
UpToAFrame == {0, 1}

VARIABLE th08   \* the game is TH08

OneEffect ==
    tickRate = Fps /\ \E p \in {CHOOSE q \in Effects : TRUE} : effect = p[1] /\ pausing = p[2]

GamesInit ==
    /\ th08 \in BOOLEAN /\ SystemInit /\ FieldInit
    /\ IF th08 THEN OneEffect ELSE fieldRate = Fps /\ field = Item

SpeedGame == ~th08 /\ SystemNext /\ UNCHANGED <<fieldVars, th08>>
Th08Game == th08 /\ FieldNext /\ UNCHANGED <<systemVars, th08>>

GamesNext == SpeedGame \/ Th08Game

GamesSpec == GamesInit /\ [][GamesNext]_<<systemVars, fieldVars, th08>>
===============================================================================
