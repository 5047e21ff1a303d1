------------------------------- MODULE MCMenuInput -----------------------------
(***************************************************************************)
(* Instances for TLC of what window.c does once a frame: the keys of the   *)
(* menu (MenuInput; a key-up is given up after two polls), and the window  *)
(* and the pointer (WindowShape).  Neither reads the other's state: a      *)
(* behaviour is one of the two, chosen at the start.                       *)
(***************************************************************************)
EXTENDS MenuInput, WindowShape

VARIABLE shaping    \* the behaviour is one of WindowShape

PumpInit ==
    /\ shaping \in BOOLEAN /\ KeysInit /\ WindowInit
    /\ IF shaping THEN posted ELSE ~external /\ conf = CHOOSE c \in [resizable : BOOLEAN,
           mode : {GameFs, Borderless}, scale : Scales, pointer : Pointers] : TRUE

KeysStep == ~shaping /\ KeysNext /\ UNCHANGED <<windowVars, shaping>>
ShapeStep == shaping /\ WindowNext /\ UNCHANGED <<keyVars, shaping>>

PumpNext == KeysStep \/ ShapeStep

PumpSpec == PumpInit /\ [][PumpNext]_<<keyVars, windowVars, shaping>>
===============================================================================
