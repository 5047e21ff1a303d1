---------------------------- MODULE MCTextureCopies ---------------------------
(***************************************************************************)
(* Instances for TLC of what the Direct3D hooks keep of the game's         *)
(* drawing: the magnified copies of its textures (TextureCopies), and the  *)
(* classes of its draw calls (DrawClasses).  Neither reads the other's     *)
(* state: a behaviour is one of the two, chosen at the start.  An address  *)
(* is as good as another, and so is a picture.                             *)
(***************************************************************************)
EXTENDS TextureCopies, DrawClasses, TLC

CONSTANTS w1, w2    \* the working textures
Chain == <<w1, w2>>

VARIABLE dimming    \* the behaviour is one of DrawClasses

HooksInit == dimming \in BOOLEAN /\ CopiesInit /\ DrawInit /\ (dimming \/ ~inGame)

CopiesStep == ~dimming /\ CopiesNext /\ UNCHANGED <<drawVars, dimming>>
DrawStep == dimming /\ DrawNext /\ UNCHANGED <<copyVars, dimming>>

HooksNext == CopiesStep \/ DrawStep

HooksSpec == HooksInit /\ [][HooksNext]_<<copyVars, drawVars, dimming>>

\* The stage's own drawing, the item manager, which builds quads itself and all of
\* whose drawing is items, and the sprite layers of the world.
ProfileRules ==
    LET Rule(lo, hi, of, class_) == [lo |-> lo, hi |-> hi, of |-> of, class |-> class_]
    IN  << Rule(2, 2, Sprites \cup {Own}, "items"),
           Rule(3, 3, {"shot"}, "shots"),
           Rule(1, 3, {"spell"}, "background") >>

Symmetry == Permutations(Addresses) \cup Permutations(Pictures)
===============================================================================
