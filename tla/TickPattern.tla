----------------------------- MODULE TickPattern ------------------------------
(***************************************************************************)
(* How a rate cuts game frames into ticks (src/core/timing.c).             *)
(*                                                                         *)
(* A period is Fps game frames.  A rate of R ticks a second cuts it into   *)
(* R ticks, and tick n of the period starts at Start(n, R): the position   *)
(* n/R of the way through, in dyadic units, rounded down.                  *)
(***************************************************************************)
EXTENDS Integers

CONSTANTS
    Fps,            \* game frames in a period (60)
    UnitsPerFrame,  \* dyadic units in a frame (UNITS_PER_FRAME, 256)
    MaxRate         \* the highest tick rate (1000)

ASSUME ClockConstants ==
    /\ Fps \in Nat \ {0}
    /\ UnitsPerFrame \in Nat \ {0}
    /\ MaxRate \in Nat
    /\ Fps <= MaxRate

Rates == Fps .. MaxRate

\* Units in a period.
Span == Fps * UnitsPerFrame

\* The unit at which tick n of a period of R ticks starts, and its frame.
Start(n, R) == (n * Span) \div R
FrameAt(n, R) == Start(n, R) \div UnitsPerFrame

\* The first tick that starts in frame f: the frame's own ("major") tick.
FrameTick(f, R) == (f * R + Fps - 1) \div Fps
===============================================================================
