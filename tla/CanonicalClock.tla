---------------------------- MODULE CanonicalClock ----------------------------
(***************************************************************************)
(* What the tick schedule promises, stated without its running remainder.  *)
(*                                                                         *)
(* Everything a tick shows to the game -- the frame it belongs to, how far *)
(* into that frame it starts, how long it is, and whether it is the        *)
(* frame's own tick -- follows from its index in the period and the rate   *)
(* alone.  TickSchedule.tla is the incremental (Bresenham) form the code   *)
(* runs, and implements this one.                                          *)
(***************************************************************************)
EXTENDS TickPattern

VARIABLES
    rate,   \* ticks in a period
    next,   \* index in the period of the tick that comes next
    frame,  \* frame of the current tick, NoFrame before the first
    phase,  \* units from the start of that frame to the current tick
    len,    \* the current tick's length as a fraction <<n, d>> of a frame
    major   \* the current tick is its frame's own

clockVars == <<rate, next, frame, phase, len, major>>

NoFrame == -1

Init ==
    /\ rate = Fps /\ next = 0 /\ frame = NoFrame
    /\ phase = 0 /\ len = <<1, 1>> /\ major = TRUE

\* The next tick of the period.
Tick ==
    /\ rate # Fps
    /\ next' = (next + 1) % rate
    /\ frame' = FrameAt(next, rate)
    /\ phase' = Start(next, rate) % UnitsPerFrame
    /\ len' = <<Start(next + 1, rate) - Start(next, rate), UnitsPerFrame>>
    /\ major' = (frame # FrameAt(next, rate))
    /\ rate' = rate

\* A tick that is a whole game frame: at one tick a frame nothing is sliced.
WholeFrame ==
    /\ rate = Fps
    /\ frame' = 0 /\ phase' = 0 /\ len' = <<1, 1>> /\ major' = TRUE
    /\ UNCHANGED <<rate, next>>

\* The current frame tick becomes tick 0 of a period.
Restart ==
    /\ rate # Fps /\ major
    /\ next' = 1 /\ frame' = 0 /\ phase' = 0
    /\ len' = <<Start(1, rate), UnitsPerFrame>>
    /\ UNCHANGED <<rate, major>>

\* A new rate: the next tick is tick 0 of a period.
SetRate(r) ==
    /\ rate' = r /\ next' = 0 /\ frame' = NoFrame
    /\ phase' = 0 /\ major' = TRUE
    /\ len' \in {<<Fps, r>>, <<1, 1>>}

Next == Tick \/ WholeFrame \/ Restart \/ \E r \in Rates : SetRate(r)

Spec == Init /\ [][Next]_clockVars
===============================================================================
