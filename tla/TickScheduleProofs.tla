-------------------------- MODULE TickScheduleProofs --------------------------
(***************************************************************************)
(* Proofs about TickSchedule, for every period, rate range and set of      *)
(* inputs.                                                                 *)
(*                                                                         *)
(* TypeOK is not inductive: that g_units_total stays inside the period     *)
(* after advance_tick's single conditional subtraction depends on where in *)
(* the period the tick is.  SliceInv adds that: position and remainder are  *)
(* together n ticks into the period, n less than the rate.                 *)
(***************************************************************************)
EXTENDS TickSchedule, TLAPS

OnGrid(n) == unitsTotal * logicRate + unitsAcc = n * Span

SliceInv ==
    /\ SliceType
    /\ ~substep => logicRate = Fps
    /\ Walking => Sliced
    /\ \E n \in 0 .. logicRate - 1 : OnGrid(n)

-------------------------------------------------------------------------------
(* Arithmetic. *)

\* Division leaves a natural quotient and a remainder below the divisor.
LEMMA DivRem ==
    ASSUME NEW a \in Nat, NEW b \in Nat \ {0}
    PROVE  /\ a \div b \in Nat
           /\ a - (a \div b) * b \in 0 .. b - 1
  OBVIOUS

\* The quotient is determined by any such decomposition.
LEMMA DivUnique ==
    ASSUME NEW b \in Nat \ {0}, NEW q \in Nat, NEW r \in 0 .. b - 1
    PROVE  (q * b + r) \div b = q
  OBVIOUS

\* A positive factor can be cancelled.
LEMMA MulCancel ==
    ASSUME NEW a \in Nat, NEW b \in Nat, NEW c \in Nat \ {0}, a * c <= b * c
    PROVE  a <= b
  OBVIOUS

\* Multiplication by a natural number is monotone.
LEMMA MulMono ==
    ASSUME NEW a \in Nat, NEW b \in Nat, NEW c \in Nat, a <= b
    PROVE  a * c <= b * c
  OBVIOUS

\* A period has at least a unit for each of its frames.
LEMMA SpanType == Span \in Nat \ {0} /\ Fps <= Span
  BY ScheduleConstants DEF Span

-------------------------------------------------------------------------------
(* One Bresenham step. *)

\* From tick n of a period of R ticks, standing at unit t with remainder a,
\* the step ends at tick n + 1: at unit t + u with remainder a + Span - u * R,
\* and at the very end of the period exactly when n + 1 is R.
LEMMA BresenhamStep ==
    ASSUME NEW R \in Nat \ {0}, NEW t \in Nat, NEW a \in 0 .. R - 1,
           NEW n \in 0 .. R - 1, NEW u, u = (a + Span) \div R,
           t * R + a = n * Span
    PROVE  /\ u \in Nat
           /\ a + Span - u * R \in 0 .. R - 1
           /\ (t + u) * R + (a + Span - u * R) = (n + 1) * Span
           /\ t + u <= Span
           /\ t + u = Span <=> n + 1 = R
           /\ n + 1 = R => a + Span - u * R = 0
  <1> DEFINE b == a + Span - u * R
  <1>1. u \in Nat /\ b \in 0 .. R - 1
    <2>1. PICK s \in Nat : s = a + Span
      BY SpanType
    <2>2. u = s \div R /\ b = s - u * R
      BY <2>1, SpanType
    <2>3. u \in Nat /\ s - u * R \in 0 .. R - 1
      BY <2>2, DivRem
    <2> QED BY <2>2, <2>3
  <1>2. (t + u) * R + b = (n + 1) * Span
    <2>1. (t + u) * R = t * R + u * R
      BY <1>1
    <2>2. (n + 1) * Span = n * Span + Span
      BY SpanType
    <2>3. u * R \in Nat /\ t * R \in Nat /\ n * Span \in Nat
      BY <1>1, SpanType
    <2> QED BY <2>1, <2>2, <2>3, SpanType
  <1>3. (n + 1) * Span <= R * Span
    BY MulMono, SpanType
  <1>4. R * Span = Span * R
    BY SpanType
  <1>5. t + u <= Span
    <2>1. (t + u) * R <= Span * R
      BY <1>1, <1>2, <1>3, <1>4, SpanType
    <2> QED BY <2>1, <1>1, MulCancel, SpanType
  <1>6. ASSUME t + u = Span PROVE n + 1 = R /\ b = 0
    <2>1. (t + u) * R = R * Span
      BY <1>6, <1>4
    <2>2. b = 0 /\ (n + 1) * Span = R * Span
      BY <2>1, <1>1, <1>2, <1>3, SpanType
    <2> QED BY <2>2, MulCancel, SpanType
  <1>7. ASSUME n + 1 = R PROVE t + u = Span /\ b = 0
    <2>1. (t + u) * R + b = Span * R
      BY <1>2, <1>4, <1>7
    <2>2. CASE t + u < Span
      <3>1. (t + u + 1) * R <= Span * R
        BY <2>2, <1>1, MulMono, SpanType
      <3>2. (t + u + 1) * R = (t + u) * R + R
        BY <1>1
      <3> QED BY <3>1, <3>2, <2>1, <1>1, SpanType
    <2>3. t + u = Span
      BY <2>2, <1>5, <1>1, SpanType
    <2> QED BY <2>1, <2>3, <1>1, SpanType
  <1> QED BY <1>1, <1>2, <1>5, <1>6, <1>7
-------------------------------------------------------------------------------
(* SliceInv is inductive. *)

\* A rate can be divided by.
LEMMA RateType ==
    ASSUME SliceType PROVE logicRate \in Nat \ {0}
  BY ScheduleConstants DEF SliceType

\* A step of advance_tick keeps the slices on the grid and moves to the next
\* tick, the period's last tick to its first.
LEMMA AdvanceOnGrid ==
    ASSUME SliceInv, AdvanceSliced, NEW n \in 0 .. logicRate - 1, OnGrid(n)
    PROVE  /\ unitsAcc' \in 0 .. logicRate - 1
           /\ unitsTotal' \in 0 .. Span - 1
           /\ OnGrid(IF n + 1 = logicRate THEN 0 ELSE n + 1)'
           /\ TickUnits(unitsAcc) \in 0 .. Span
  <1> DEFINE R == logicRate
             u == TickUnits(unitsAcc)
             b == unitsAcc + Span - u * R
  <1>1. /\ R \in Nat \ {0} /\ unitsTotal \in Nat /\ unitsAcc \in 0 .. R - 1
        /\ unitsTotal * R + unitsAcc = n * Span /\ R' = R
    BY RateType, SpanType DEF SliceInv, SliceType, OnGrid, AdvanceSliced
  <1>2. /\ u \in Nat /\ b \in 0 .. R - 1
        /\ (unitsTotal + u) * R + b = (n + 1) * Span
        /\ unitsTotal + u <= Span
        /\ unitsTotal + u = Span <=> n + 1 = R
        /\ n + 1 = R => b = 0
    <2>1. u = (unitsAcc + Span) \div R
      BY DEF TickUnits
    <2> QED BY <1>1, <2>1, BresenhamStep
  <1>3. unitsAcc' = b
    BY DEF AdvanceSliced, TickRest
  <1>4. unitsTotal' = IF unitsTotal + u >= Span THEN unitsTotal + u - Span
                                                ELSE unitsTotal + u
    BY DEF AdvanceSliced, TickEnd
  <1>5. CASE n + 1 = R
    <2>1. unitsTotal' = 0 /\ unitsAcc' = 0
      BY <1>1, <1>2, <1>3, <1>4, <1>5, SpanType
    <2> QED BY <2>1, <1>1, <1>2, <1>5, SpanType DEF OnGrid
  <1>6. CASE n + 1 # R
    <2>1. unitsTotal' = unitsTotal + u /\ unitsTotal + u < Span
      BY <1>1, <1>2, <1>4, <1>6, SpanType
    <2> QED BY <2>1, <1>1, <1>2, <1>3, <1>6, SpanType DEF OnGrid
  <1> QED BY <1>5, <1>6

\* A reset leaves the schedule one tick into a period.
LEMMA ResetOnGrid ==
    ASSUME SliceInv, Sliced, ResetSlices, logicRate' = logicRate
    PROVE  /\ unitsAcc' \in 0 .. logicRate - 1
           /\ unitsTotal' \in 0 .. Span - 1
           /\ OnGrid(1)'
           /\ TickUnits(0) \in 0 .. Span
  <1> DEFINE R == logicRate
             u == TickUnits(0)
             b == 0 + Span - u * R
  <1>1. R \in Nat \ {0} /\ R > 1
    BY RateType, ScheduleConstants DEF SliceInv, SliceType, Sliced
  <1>2. /\ u \in Nat /\ b \in 0 .. R - 1
        /\ (0 + u) * R + b = (0 + 1) * Span
        /\ 0 + u <= Span
        /\ 0 + u = Span <=> 0 + 1 = R
    <2>1. u = (0 + Span) \div R
      BY DEF TickUnits
    <2>2. 0 \in 0 .. R - 1 /\ 0 * R + 0 = 0 * Span
      BY <1>1, SpanType
    <2> QED BY <1>1, <2>1, <2>2, BresenhamStep
  <1>3. unitsAcc' = b /\ unitsTotal' = u
    BY DEF ResetSlices, TickRest
  <1>4. u < Span
    BY <1>1, <1>2, SpanType
  <1> QED BY <1>1, <1>2, <1>3, <1>4, SpanType DEF OnGrid

\* A unit of the period lies in one of its frames.
LEMMA FrameOfUnit ==
    ASSUME NEW t \in 0 .. Span - 1
    PROVE  /\ t \div UnitsPerFrame \in 0 .. Fps - 1
           /\ t % UnitsPerFrame \in 0 .. UnitsPerFrame - 1
  <1>1. UnitsPerFrame \in Nat \ {0} /\ Fps \in Nat \ {0}
    BY ScheduleConstants
  <1>2. /\ t \div UnitsPerFrame \in Nat
        /\ t - (t \div UnitsPerFrame) * UnitsPerFrame \in 0 .. UnitsPerFrame - 1
    <2>1. t \in Nat
      BY SpanType
    <2> QED BY <1>1, <2>1, DivRem
  <1>3. ASSUME NEW f \in Nat, f * UnitsPerFrame <= t, f >= Fps PROVE FALSE
    BY <1>1, <1>3, MulMono, SpanType DEF Span
  <1>4. t \div UnitsPerFrame < Fps
    <2>1. PICK f \in Nat : f = t \div UnitsPerFrame
      BY <1>2
    <2>2. f * UnitsPerFrame <= t
      BY <1>1, <1>2, <2>1, SpanType
    <2> QED BY <1>1, <1>3, <2>1, <2>2
  <1> QED BY <1>1, <1>2, <1>4, SpanType

\* The slice variables' part of the invariant under one tick, in the code's
\* two branches of advance_tick.
LEMMA AdvanceKeepsSlices ==
    ASSUME SliceInv, AdvanceSliced, walk' \in {walk, NoWalk}
    PROVE  SliceInv'
  <1>1. PICK n \in 0 .. logicRate - 1 : OnGrid(n)
    BY DEF SliceInv
  <1>2. /\ unitsAcc' \in 0 .. logicRate - 1
        /\ unitsTotal' \in 0 .. Span - 1
        /\ OnGrid(IF n + 1 = logicRate THEN 0 ELSE n + 1)'
        /\ TickUnits(unitsAcc) \in 0 .. Span
    BY <1>1, AdvanceOnGrid
  <1>3. /\ prevFrame' \in 0 .. Fps - 1
        /\ phase' \in 0 .. UnitsPerFrame - 1
    BY FrameOfUnit DEF SliceInv, SliceType, AdvanceSliced
  <1>4. /\ logicRate' = logicRate /\ substep' = substep
        /\ ticked' = TRUE /\ major' \in BOOLEAN
    BY DEF AdvanceSliced
  <1>5. dt' \in Fractions
    <2>1. dt' = <<TickUnits(unitsAcc), UnitsPerFrame>>
      BY DEF AdvanceSliced
    <2>2. UnitsPerFrame \in 1 .. (MaxRate + UnitsPerFrame)
      BY ScheduleConstants
    <2> QED BY <1>2, <2>1, <2>2 DEF Fractions
  <1>6. SliceType'
    BY <1>2, <1>3, <1>4, <1>5 DEF SliceInv, SliceType
  <1>7. \E m \in 0 .. logicRate' - 1 : OnGrid(m)'
    <2>1. (IF n + 1 = logicRate THEN 0 ELSE n + 1) \in 0 .. logicRate - 1
      BY <1>1, RateType DEF SliceInv
    <2> QED BY <1>2, <1>4, <2>1
  <1> QED BY <1>4, <1>6, <1>7 DEF SliceInv, Walking, Sliced

\* schedule_reset and the resyncs put the schedule at tick 0.
LEMMA ResetKeepsSlices ==
    ASSUME SliceInv, Sliced, ResetSlices,
           walk' \in (0 .. Fps - 1) \cup {NoWalk},
           UNCHANGED <<substep, logicRate, ticked, major>>
    PROVE  SliceInv'
  <1>1. /\ unitsAcc' \in 0 .. logicRate - 1
        /\ unitsTotal' \in 0 .. Span - 1
        /\ OnGrid(1)'
        /\ TickUnits(0) \in 0 .. Span
    BY ResetOnGrid
  <1>2. /\ prevFrame' \in 0 .. Fps - 1 /\ phase' \in 0 .. UnitsPerFrame - 1
        /\ dt' \in Fractions
    <2>1. /\ UnitsPerFrame \in 1 .. (MaxRate + UnitsPerFrame)
          /\ 0 \in 0 .. Fps - 1 /\ 0 \in 0 .. UnitsPerFrame - 1
      BY ScheduleConstants
    <2>2. prevFrame' = 0 /\ phase' = 0 /\ dt' = <<TickUnits(0), UnitsPerFrame>>
      BY DEF ResetSlices
    <2>3. dt' \in Fractions
      BY <1>1, <2>1, <2>2 DEF Fractions
    <2> QED BY <2>1, <2>2, <2>3
  <1>3. SliceType'
    BY <1>1, <1>2 DEF SliceInv, SliceType
  <1>4. 1 \in 0 .. logicRate' - 1
    BY ScheduleConstants DEF SliceInv, SliceType, Sliced
  <1> QED BY <1>1, <1>3, <1>4 DEF SliceInv, Sliced

\* A new rate starts at tick 0 of a period.
LEMMA SetRateKeepsSlices ==
    ASSUME SliceInv, NEW sub \in BOOLEAN, NEW r \in Nat,
           SetLogicRate(sub, r), ~Walking
    PROVE  SliceInv'
  <1>1. logicRate' \in Fps .. MaxRate /\ (~sub => logicRate' = Fps)
    BY ScheduleConstants DEF SetLogicRate, Clamp
  <1>6. 0 \in 0 .. logicRate' - 1
    <2>1. PICK R \in Fps .. MaxRate : R = logicRate'
      BY <1>1
    <2>2. Fps \in Nat \ {0} /\ MaxRate \in Nat
      BY ScheduleConstants
    <2>3. 0 \in 0 .. R - 1
      BY <2>2
    <2> QED BY <2>1, <2>3
  <1>2. dt' \in Fractions
    <2>1. /\ Fps \in 0 .. Span /\ 1 \in 0 .. Span
          /\ 1 \in 1 .. (MaxRate + UnitsPerFrame)
          /\ logicRate' \in 1 .. (MaxRate + UnitsPerFrame)
      BY <1>1, SpanType, ScheduleConstants
    <2>2. dt' = <<Fps, logicRate'>> \/ dt' = <<1, 1>>
      BY DEF SetLogicRate
    <2> QED BY <2>1, <2>2 DEF Fractions
  <1>3. SliceType'
    <2>1. /\ substep' = sub /\ ticked' = FALSE /\ major' = TRUE
          /\ phase' = 0 /\ prevFrame' = 0 /\ unitsAcc' = 0 /\ unitsTotal' = 0
          /\ walk' = walk
      BY DEF SetLogicRate
    <2>2. /\ 0 \in 0 .. UnitsPerFrame - 1 /\ 0 \in 0 .. Fps - 1
          /\ 0 \in 0 .. Span - 1
      BY SpanType, ScheduleConstants
    <2>4. 0 \in 0 .. logicRate' - 1
      BY <1>6
    <2>3. walk \in (0 .. Fps - 1) \cup {NoWalk}
      BY DEF SliceInv, SliceType
    <2> QED BY <1>1, <1>2, <2>1, <2>2, <2>3, <2>4 DEF SliceType
  <1>4. OnGrid(0)'
    <2>1. logicRate' \in Nat
      BY <1>1, ScheduleConstants
    <2> QED BY <2>1, SpanType DEF SetLogicRate, OnGrid
  <1>5. ~Walking' /\ substep' = sub
    BY DEF SetLogicRate, Walking
  <1> QED BY <1>1, <1>3, <1>4, <1>5, <1>6 DEF SliceInv
-------------------------------------------------------------------------------
(* The invariant of the specification. *)

\* The schedule starts at tick 0 of the unsliced rate,
LEMMA SliceInvInit == Init => SliceInv
  <1> SUFFICES ASSUME Init PROVE SliceInv
    OBVIOUS
  <1>1. 0 \in 0 .. logicRate - 1 /\ OnGrid(0)
    BY SpanType, ScheduleConstants DEF Init, OnGrid
  <1>2. <<1, 1>> \in Fractions
    BY SpanType, ScheduleConstants DEF Fractions
  <1>3. SliceType
    <2>1. /\ 0 \in 0 .. UnitsPerFrame - 1 /\ 0 \in 0 .. Fps - 1
          /\ 0 \in 0 .. Span - 1 /\ Fps \in Fps .. MaxRate
      BY SpanType, ScheduleConstants
    <2> QED BY <1>1, <1>2, <2>1 DEF Init, SliceType
  <1> QED BY <1>1, <1>3 DEF Init, SliceInv, Walking, NoWalk

\* with the pacing in its range.
LEMMA PaceInvInit == Init => PaceType
  <1> SUFFICES ASSUME Init PROVE PaceType
    OBVIOUS
  <1>1. Fps \in Nat \ {0} /\ FullSpeed \in Nat \ {0}
    BY ScheduleConstants
  <1>2. 0 \in 0 .. Fps * FullSpeed - 1
    <2>1. Fps * FullSpeed >= 1
      BY <1>1
    <2> QED BY <1>1, <2>1
  <1>3. Fps \in Fps .. MaxRate /\ FullSpeed \in SpeedMin .. SpeedMax
    BY ScheduleConstants
  <1> QED BY <1>2, <1>3 DEF Init, PaceType, Slot

\* A presentation slot can be divided by.
LEMMA SlotType ==
    ASSUME PaceType PROVE Slot \in Nat \ {0}
  BY ScheduleConstants DEF PaceType, Slot

\* Every step keeps the slices on the grid.
LEMMA SliceInvNext == SliceInv /\ [Next]_vars => SliceInv'
  <1> SUFFICES ASSUME SliceInv, [Next]_vars PROVE SliceInv'
    OBVIOUS
  <1>0. ASSUME UNCHANGED sliceVars PROVE SliceInv'
    BY <1>0 DEF SliceInv, SliceType, sliceVars, Walking, Sliced, OnGrid
  <1>1. ASSUME NEW pct \in SpeedInputs, SetGameSpeed(pct) PROVE SliceInv'
    BY <1>0, <1>1 DEF SetGameSpeed
  <1>2. CASE TicksForSlot
    BY <1>0, <1>2 DEF TicksForSlot
  <1>3. CASE Anchor
    BY <1>0, <1>3 DEF Anchor
  <1>4. ASSUME NEW hz \in RateInputs \ {0}, NEW sub \in BOOLEAN,
               NEW playing \in BOOLEAN, NEW recorded \in RateInputs,
               RecomputeRate(hz, sub, playing, recorded)
        PROVE  SliceInv'
    <2> DEFINE want == IF ~sub THEN Fps
                       ELSE IF ~playing THEN Clamp(hz, Fps, MaxRate)
                       ELSE IF recorded = 0 THEN Fps ELSE recorded
    <2>1. want \in Nat
      BY ScheduleConstants DEF Clamp
    <2>2. CASE SetLogicRate(sub, want)
      BY <1>4, <2>1, <2>2, SetRateKeepsSlices DEF RecomputeRate
    <2>3. CASE /\ want = logicRate /\ substep' = sub
               /\ UNCHANGED <<logicRate, ticked, major, phase, prevFrame,
                              unitsAcc, unitsTotal, dt, walk>>
      <3>1. ~sub => logicRate' = Fps
        BY <2>3
      <3> QED BY <1>4, <2>3, <3>1 DEF RecomputeRate, SliceInv, SliceType, Walking, OnGrid
    <2> QED BY <1>4, <2>2, <2>3 DEF RecomputeRate
  <1>5. ASSUME NEW sub \in BOOLEAN, NEW rate \in RateInputs, ReplayRate(sub, rate)
        PROVE  SliceInv'
    BY <1>5, SetRateKeepsSlices, ScheduleConstants DEF ReplayRate
  <1>6. CASE AdvanceTick
    <2>1. CASE AdvanceSliced
      BY <1>6, <2>1, AdvanceKeepsSlices DEF AdvanceTick
    <2>2. CASE AdvanceWhole
      <3>1. <<1, 1>> \in Fractions
        BY SpanType, ScheduleConstants DEF Fractions
      <3>2. SliceType'
        BY <1>6, <2>2, <3>1, ScheduleConstants
           DEF AdvanceTick, AdvanceWhole, SliceInv, SliceType
      <3> QED BY <1>6, <2>2, <3>2
              DEF AdvanceTick, AdvanceWhole, SliceInv, Walking, OnGrid
    <2> QED BY <1>6, <2>1, <2>2 DEF AdvanceTick
  <1>7. CASE ScheduleResetHere
    BY <1>7, ResetKeepsSlices DEF ScheduleResetHere, SliceInv, SliceType
  <1>8. ASSUME NEW f \in FrameInputs, ScheduleToFrame(f) PROVE SliceInv'
    <2>1. f % Fps \in 0 .. Fps - 1
      BY ScheduleConstants
    <2>2. walk' \in (0 .. Fps - 1) \cup {NoWalk}
      BY <1>8, <2>1 DEF ScheduleToFrame
    <2> QED BY <1>8, <2>2, ResetKeepsSlices DEF ScheduleToFrame
  <1>9. CASE WalkTick
    BY <1>9, AdvanceKeepsSlices DEF WalkTick
  <1>10. CASE UNCHANGED vars
    BY <1>0, <1>10 DEF vars
  <1> QED BY <1>1, <1>2, <1>3, <1>4, <1>5, <1>6, <1>7, <1>8, <1>9, <1>10 DEF Next
-------------------------------------------------------------------------------
(* Pacing. *)

\* Multiplication is associative (the solver is not told).
LEMMA MulAssoc ==
    ASSUME NEW a \in Nat, NEW b \in Nat, NEW c \in Nat
    PROVE  (a * b) * c = a * (b * c)
  OBVIOUS

\* Paying out the whole slots of what is owed keeps the account exact.
LEMMA PayOut ==
    ASSUME NEW g \in Nat, NEW s \in Nat, NEW l \in Nat, NEW w \in Nat,
           NEW slot \in Nat \ {0}, NEW q, q = (l + w) \div slot,
           g * slot + l = s * w
    PROVE  /\ q \in Nat
           /\ l + w - q * slot \in 0 .. slot - 1
           /\ (g + q) * slot + (l + w - q * slot) = (s + 1) * w
  <1>1. PICK a \in Nat : a = l + w
    OBVIOUS
  <1>2. q \in Nat /\ a - q * slot \in 0 .. slot - 1
    BY <1>1, DivRem
  <1>3. (g + q) * slot = g * slot + q * slot /\ (s + 1) * w = s * w + w
    BY <1>2
  <1>4. g * slot \in Nat /\ q * slot \in Nat /\ s * w \in Nat
    BY <1>2
  <1> QED BY <1>1, <1>2, <1>3, <1>4

PaceInv == PaceType /\ PacingExact

\* What a slot is worth is a natural number, and a slot is never empty.
LEMMA WorthType ==
    ASSUME SliceType, PaceType
    PROVE  /\ Slot \in Nat \ {0}
           /\ logicRate * speed \in Nat
           /\ slots * logicRate * speed = slots * (logicRate * speed)
  <1>1. logicRate \in Nat /\ speed \in Nat /\ slots \in Nat
    BY ScheduleConstants DEF SliceType, PaceType
  <1>2. logicRate * speed \in Nat
    BY <1>1
  <1> QED BY <1>1, <1>2, SlotType, MulAssoc

\* Nothing is owed and nothing granted at first.
LEMMA PaceInvInitial == Init => PaceInv
  <1> SUFFICES ASSUME Init PROVE PaceInv
    OBVIOUS
  <1>1. PaceType
    BY PaceInvInit
  <1>2. Slot \in Nat \ {0} /\ Fps \in Nat /\ FullSpeed \in Nat
    BY <1>1, SlotType, ScheduleConstants
  <1>3. 0 * Slot + 0 = 0 /\ 0 * Fps * FullSpeed = 0
    BY <1>2
  <1>4. granted * Slot + lacc = slots * logicRate * speed
    BY <1>3 DEF Init
  <1> QED BY <1>1, <1>2, <1>4 DEF PaceInv, PacingExact, Init

\* Restarting the account keeps it exact, whatever the rates become.
LEMMA RestartKeepsPace ==
    ASSUME RestartPacing, anchored' \in BOOLEAN, logicRate' \in Nat,
           refresh' \in Fps .. MaxRate, speed' \in SpeedMin .. SpeedMax
    PROVE  PaceInv'
  <1>1. PICK r \in Nat \ {0} : r = refresh'
    BY ScheduleConstants
  <1>2. PICK slot : slot = Slot'
    OBVIOUS
  <1>3. slot \in Nat \ {0}
    <2>1. FullSpeed \in Nat \ {0}
      BY ScheduleConstants
    <2>2. r * FullSpeed \in Nat \ {0}
      BY <2>1
    <2> QED BY <1>1, <1>2, <2>2 DEF Slot
  <1>4. 0 \in 0 .. slot - 1 /\ 0 * slot + 0 = 0
    BY <1>3
  <1>5. 0 * logicRate' * speed' = 0
    <2>1. PICK l \in Nat, p \in Nat : l = logicRate' /\ p = speed'
      BY ScheduleConstants
    <2>2. 0 * l * p = 0
      OBVIOUS
    <2> QED BY <2>1, <2>2
  <1>6. PaceType'
    BY <1>2, <1>4 DEF RestartPacing, PaceType
  <1>7. PacingExact'
    BY <1>2, <1>3, <1>4, <1>5 DEF RestartPacing, PacingExact
  <1> QED BY <1>6, <1>7 DEF PaceInv

\* ticks_for_slot keeps what is granted and what is owed in step,
LEMMA TicksForSlotKeepsPace ==
    ASSUME SliceType, PaceInv, TicksForSlot
    PROVE  PaceInv'
  <1>1. PICK slot \in Nat \ {0} : slot = Slot
    BY WorthType DEF PaceInv
  <1>2. PICK w \in Nat : w = logicRate * speed
    BY WorthType DEF PaceInv
  <1>3. PICK q : q = (lacc + w) \div slot
    OBVIOUS
  <1>4. granted \in Nat /\ slots \in Nat /\ lacc \in Nat
    BY <1>1 DEF PaceInv, PaceType
  <1>5. granted * slot + lacc = slots * w
    BY <1>1, <1>2, WorthType DEF PaceInv, PacingExact
  <1>6. /\ q \in Nat
        /\ lacc + w - q * slot \in 0 .. slot - 1
        /\ (granted + q) * slot + (lacc + w - q * slot) = (slots + 1) * w
    BY <1>3, <1>4, <1>5, PayOut
  <1>7. /\ lacc' = lacc + w - q * slot
        /\ slots' = IF lacc' = 0 THEN 0 ELSE slots + 1
        /\ granted' = IF lacc' = 0 THEN 0 ELSE granted + q
    <2>1. Owed = lacc + w
      BY <1>2 DEF Owed
    <2>2. Owed \div Slot = q
      BY <1>1, <1>3, <2>1, Zenon
    <2>3. lacc' = Owed - q * slot
      BY <1>1, <2>2, Zenon DEF TicksForSlot
    <2>4. /\ slots' = IF lacc' = 0 THEN 0 ELSE slots + 1
          /\ granted' = IF lacc' = 0 THEN 0 ELSE granted + Owed \div Slot
      BY DEF TicksForSlot
    <2>5. (lacc + w) - q * slot = lacc + w - q * slot
      BY <1>4, <1>6
    <2>6. lacc' = lacc + w - q * slot
      BY <2>1, <2>3, <2>5, Zenon
    <2> QED BY <2>2, <2>4, <2>6
  <1>8. /\ Slot' = slot /\ logicRate' * speed' = w
        /\ UNCHANGED <<sliceVars, refresh, speed, anchored>>
    BY <1>1, <1>2 DEF TicksForSlot, Slot, sliceVars
  <1>9. SliceType'
    BY <1>8 DEF SliceType, sliceVars
  <1>10. PaceType'
    BY <1>4, <1>6, <1>7, <1>8 DEF PaceInv, PaceType
  <1>11. slots' * logicRate' * speed' = slots' * w
    <2>1. PICK l \in Nat, p \in Nat, k \in Nat :
             l = logicRate' /\ p = speed' /\ k = slots'
      BY <1>9, <1>10, ScheduleConstants DEF SliceType, PaceType
    <2>2. l * p = w
      BY <1>8, <2>1
    <2>3. k * l * p = k * (l * p)
      BY MulAssoc
    <2> QED BY <2>1, <2>2, <2>3
  <1>12. granted' * slot + lacc' = slots' * w
    <2>1. CASE lacc' = 0
      BY <2>1, <1>7
    <2>2. CASE lacc' # 0
      BY <2>2, <1>6, <1>7
    <2> QED BY <2>1, <2>2
  <1>13. lacc' < slot
    BY <1>6, <1>7
  <1> QED BY <1>8, <1>10, <1>11, <1>12, <1>13 DEF PaceInv, PacingExact

\* A clamped input is in range.
LEMMA ClampType ==
    ASSUME NEW x \in Nat, NEW lo \in Nat, NEW hi \in Nat, lo <= hi
    PROVE  Clamp(x, lo, hi) \in lo .. hi
  BY DEF Clamp

\* and so does every step.
LEMMA PaceInvNext ==
    SliceInv /\ SliceInv' /\ PaceInv /\ [Next]_vars => PaceInv'
  <1> SUFFICES ASSUME SliceInv, SliceInv', PaceInv, [Next]_vars PROVE PaceInv'
    OBVIOUS
  <1> DEFINE Kept == UNCHANGED <<paceVars, logicRate>>
  <1>0. ASSUME Kept PROVE PaceInv'
    BY <1>0 DEF PaceInv, PaceType, PacingExact, Slot, paceVars
  <1>a. logicRate' \in Nat
    BY ScheduleConstants DEF SliceInv, SliceType
  <1>b. refresh \in Fps .. MaxRate /\ speed \in SpeedMin .. SpeedMax
    BY DEF PaceInv, PaceType
  <1>1. ASSUME NEW pct \in SpeedInputs, SetGameSpeed(pct) PROVE PaceInv'
    <2>1. Clamp(pct, SpeedMin, SpeedMax) \in SpeedMin .. SpeedMax
      BY ClampType, ScheduleConstants
    <2> QED BY <1>1, <1>a, <1>b, <2>1, RestartKeepsPace DEF SetGameSpeed
  <1>2. CASE TicksForSlot
    BY <1>2, TicksForSlotKeepsPace DEF SliceInv
  <1>3. CASE Anchor
    BY <1>3 DEF Anchor, PaceInv, PaceType, PacingExact, Slot, sliceVars
  <1>4. ASSUME NEW hz \in RateInputs \ {0}, NEW sub \in BOOLEAN,
               NEW playing \in BOOLEAN, NEW recorded \in RateInputs,
               RecomputeRate(hz, sub, playing, recorded)
        PROVE  PaceInv'
    <2>1. Clamp(hz, Fps, MaxRate) \in Fps .. MaxRate
      BY ClampType, ScheduleConstants
    <2>2. /\ RestartPacing /\ speed' = speed
          /\ anchored' \in {anchored, FALSE}
          /\ refresh' = Clamp(hz, Fps, MaxRate)
      BY <1>4 DEF RecomputeRate, SetLogicRate
    <2> QED BY <1>a, <1>b, <2>1, <2>2, RestartKeepsPace DEF PaceInv, PaceType
  <1>5. ASSUME NEW sub \in BOOLEAN, NEW rate \in RateInputs, ReplayRate(sub, rate)
        PROVE  PaceInv'
    BY <1>5, <1>a, <1>b, RestartKeepsPace DEF ReplayRate, SetLogicRate
  <1>6. CASE AdvanceTick
    BY <1>0, <1>6 DEF AdvanceTick, AdvanceSliced, AdvanceWhole
  <1>7. CASE ScheduleResetHere
    BY <1>0, <1>7 DEF ScheduleResetHere
  <1>8. ASSUME NEW f \in FrameInputs, ScheduleToFrame(f) PROVE PaceInv'
    BY <1>0, <1>8 DEF ScheduleToFrame
  <1>9. CASE WalkTick
    BY <1>0, <1>9 DEF WalkTick, AdvanceSliced
  <1>10. CASE UNCHANGED vars
    BY <1>0, <1>10 DEF vars, sliceVars
  <1> QED BY <1>1, <1>2, <1>3, <1>4, <1>5, <1>6, <1>7, <1>8, <1>9, <1>10 DEF Next
-------------------------------------------------------------------------------
(* The theorems. *)

IInv == SliceInv /\ PaceInv

\* Both parts of the invariant hold throughout.
LEMMA Inductive == Spec => []IInv
  <1>1. Init => IInv
    BY SliceInvInit, PaceInvInitial DEF IInv
  <1>2. IInv /\ [Next]_vars => IInv'
    BY SliceInvNext, PaceInvNext DEF IInv
  <1> QED BY <1>1, <1>2, PTL DEF Spec

\* Every variable keeps its range at every rate and speed: in particular
\* g_units_total stays in the period after advance_tick's one conditional
\* subtraction, and g_lacc stays below one tick.
THEOREM TypeCorrect == Spec => []TypeOK
  <1>1. IInv => TypeOK
    BY DEF IInv, SliceInv, PaceInv, TypeOK
  <1> QED BY <1>1, Inductive, PTL

\* The schedule never drifts: a period is exactly logicRate ticks, for every
\* rate, after any ticks, resets, resyncs and rate changes.
THEOREM NeverDrifts == Spec => []NoDrift
  <1>1. IInv => NoDrift
    <2> SUFFICES ASSUME IInv PROVE NoDrift
      OBVIOUS
    <2>1. PICK n \in 0 .. logicRate - 1 : OnGrid(n)
      BY DEF IInv, SliceInv
    <2>2. n \in Nat /\ logicRate \in Nat \ {0}
      BY RateType DEF IInv, SliceInv
    <2>3. (n * Span + 0) \div Span = n
      BY <2>2, SpanType, DivUnique
    <2>4. n * Span + 0 = unitsTotal * logicRate + unitsAcc
      BY <2>1, <2>2, SpanType DEF OnGrid
    <2>5. NextIndex = n
      BY <2>3, <2>4 DEF NextIndex
    <2> QED BY <2>1, <2>2, <2>5 DEF NoDrift, OnGrid
  <1> QED BY <1>1, Inductive, PTL

\* Between two changes of the rates or the speed, the presentations are given
\* exactly the ticks their time is worth, for every display rate, tick rate
\* and speed.
THEOREM PacesExactly == Spec => []PacingExact
  <1>1. IInv => PacingExact
    BY DEF IInv, PaceInv
  <1> QED BY <1>1, Inductive, PTL
-------------------------------------------------------------------------------
(* The incremental schedule implements the closed form (CanonicalClock). *)

\* Unsliced, the current frame stays frame 0: advance_tick leaves g_prev_frame
\* alone there, and only a rate change leads in or out.
AtFrameZero == logicRate = Fps => prevFrame = 0

Refines == SliceInv /\ AtFrameZero

\* Where tick n of a period starts, from any position with a remainder.
LEMMA StartOf ==
    ASSUME NEW R \in Nat \ {0}, NEW n \in Nat, NEW t \in Nat, NEW a \in 0 .. R - 1,
           t * R + a = n * Span
    PROVE  Clock!Start(n, R) = t
  <1>1. (t * R + a) \div R = t
    BY DivUnique
  <1>2. Clock!Start(n, R) = (n * Span) \div R
    BY DEF Clock!Start, Clock!Span, Span
  <1> QED BY <1>1, <1>2

\* On the grid, the mapped index is the tick's.
LEMMA IndexOf ==
    ASSUME NEW n \in Nat, OnGrid(n)
    PROVE  NextIndex = n
  <1>1. (n * Span + 0) \div Span = n
    BY SpanType, DivUnique
  <1>2. n * Span + 0 = unitsTotal * logicRate + unitsAcc
    BY SpanType DEF OnGrid
  <1> QED BY <1>1, <1>2 DEF NextIndex

\* The index recovered after a step is the tick the schedule is at.
LEMMA IndexOfPrime ==
    ASSUME NEW n \in Nat, OnGrid(n)'
    PROVE  NextIndex' = n
  <1>1. (n * Span + 0) \div Span = n
    BY SpanType, DivUnique
  <1>2. n * Span + 0 = unitsTotal' * logicRate' + unitsAcc'
    BY SpanType DEF OnGrid
  <1> QED BY <1>1, <1>2 DEF NextIndex

\* One step of the remainder is one tick of the closed form.
LEMMA AdvanceIsTick ==
    ASSUME SliceInv, AdvanceSliced
    PROVE  Clock!Tick
  <1> DEFINE R == logicRate
             u == TickUnits(unitsAcc)
             b == unitsAcc + Span - u * R
  <1>1. PICK n \in 0 .. R - 1 : OnGrid(n)
    BY DEF SliceInv
  <1>2. /\ R \in Nat \ {0} /\ n \in Nat /\ unitsTotal \in Nat
        /\ unitsAcc \in 0 .. R - 1 /\ unitsTotal * R + unitsAcc = n * Span
    BY <1>1, RateType, SpanType DEF SliceInv, SliceType, OnGrid
  <1>3. /\ u \in Nat /\ b \in 0 .. R - 1
        /\ (unitsTotal + u) * R + b = (n + 1) * Span
    <2>1. u = (unitsAcc + Span) \div R
      BY DEF TickUnits
    <2> QED BY <1>1, <1>2, <2>1, BresenhamStep
  <1>4. NextIndex = n /\ Clock!Start(n, R) = unitsTotal
    BY <1>1, <1>2, IndexOf, StartOf
  <1>5. Clock!Start(n + 1, R) = unitsTotal + u
    <2>1. PICK v \in Nat : v = u
      BY <1>3
    <2>2. n + 1 \in Nat /\ unitsTotal + v \in Nat
      BY <1>2
    <2>3. (unitsTotal + v) * R + b = (n + 1) * Span
      BY <1>3, <2>1
    <2> HIDE DEF b
    <2> QED BY <1>2, <1>3, <2>1, <2>2, <2>3, StartOf
  <1>6. NextIndex' = (n + 1) % R
    <2>1. OnGrid(IF n + 1 = R THEN 0 ELSE n + 1)'
      BY <1>1, AdvanceOnGrid
    <2>2. NextIndex' = IF n + 1 = R THEN 0 ELSE n + 1
      <3>1. PICK m \in Nat : m = IF n + 1 = R THEN 0 ELSE n + 1
        BY <1>2
      <3>2. OnGrid(m)'
        BY <2>1, <3>1 DEF AdvanceSliced, OnGrid
      <3> QED BY <3>1, <3>2, IndexOfPrime
    <2>3. (n + 1) % R = IF n + 1 = R THEN 0 ELSE n + 1
      BY <1>1, <1>2
    <2> QED BY <2>2, <2>3
  <1>7. Clock!FrameAt(n, R) = unitsTotal \div UnitsPerFrame
    BY <1>4 DEF Clock!FrameAt
  <1>8. major' = ((IF ticked THEN prevFrame ELSE -1) # Clock!FrameAt(n, R))
    <2>1. unitsTotal \div UnitsPerFrame \in Nat
      BY FrameOfUnit DEF SliceInv, SliceType
    <2>2. major' = (~ticked \/ Clock!FrameAt(n, R) # prevFrame)
      BY <1>7 DEF AdvanceSliced
    <2>3. ticked \in BOOLEAN /\ Clock!FrameAt(n, R) # -1
      BY <1>7, <2>1 DEF SliceInv, SliceType
    <2> QED BY <2>2, <2>3
  <1>9. /\ R # Fps /\ R' = R
        /\ (IF ticked THEN prevFrame ELSE -1)' = Clock!FrameAt(n, R)
        /\ phase' = Clock!Start(n, R) % UnitsPerFrame
        /\ dt' = <<u, UnitsPerFrame>>
    BY <1>4, <1>7 DEF AdvanceSliced, Sliced
  <1>10. Clock!Start(n + 1, R) - Clock!Start(n, R) = u
    BY <1>2, <1>3, <1>4, <1>5
  <1> QED BY <1>4, <1>6, <1>8, <1>9, <1>10 DEF Clock!Tick

\* A reset of the slices on a frame tick is a restart of the period.
LEMMA ResetIsRestart ==
    ASSUME SliceInv, Sliced, ticked, major, ResetSlices,
           UNCHANGED <<logicRate, ticked, major>>
    PROVE  Clock!Restart
  <1> DEFINE R == logicRate
             u == TickUnits(0)
             b == 0 + Span - u * R
  <1>1. R \in Nat \ {0}
    BY RateType DEF SliceInv
  <1>2. u \in Nat /\ b \in 0 .. R - 1 /\ u * R + b = 1 * Span
    <2>1. u = (0 + Span) \div R
      BY DEF TickUnits
    <2>2. 0 \in 0 .. R - 1 /\ 0 * R + 0 = 0 * Span
      BY <1>1, SpanType
    <2>3. u \in Nat /\ b \in 0 .. R - 1 /\ (0 + u) * R + b = (0 + 1) * Span
      BY <1>1, <2>1, <2>2, BresenhamStep
    <2> QED BY <2>3
  <1>3. Clock!Start(1, R) = u
    BY <1>1, <1>2, StartOf
  <1>4. NextIndex' = 1
    BY ResetOnGrid, IndexOfPrime
  <1>5. /\ (IF ticked THEN prevFrame ELSE -1)' = 0 /\ phase' = 0
        /\ dt' = <<u, UnitsPerFrame>>
    BY DEF ResetSlices
  <1>6. R # Fps
    BY DEF Sliced
  <1> QED BY <1>3, <1>4, <1>5, <1>6 DEF Clock!Restart

\* set_logic_rate starts the clock at another rate.
LEMMA SetLogicRateIsSetRate ==
    ASSUME SliceInv, NEW sub \in BOOLEAN, NEW r \in Nat, SetLogicRate(sub, r)
    PROVE  \E q \in Clock!Rates : Clock!SetRate(q)
  <1>1. logicRate' \in Fps .. MaxRate
    BY ScheduleConstants DEF SetLogicRate, Clamp
  <1>2. NextIndex' = 0
    <2>1. logicRate' \in Nat
      BY <1>1, ScheduleConstants
    <2>2. OnGrid(0)'
      BY <2>1, SpanType DEF SetLogicRate, OnGrid
    <2> QED BY <2>2, IndexOfPrime
  <1>3. /\ (IF ticked THEN prevFrame ELSE -1)' = -1 /\ phase' = 0 /\ major' = TRUE
        /\ dt' \in {<<Fps, logicRate'>>, <<1, 1>>}
    BY DEF SetLogicRate
  <1>4. Clock!SetRate(logicRate')
    BY <1>2, <1>3 DEF Clock!SetRate, Clock!NoFrame
  <1> QED BY <1>1, <1>4 DEF Clock!Rates

\* The initial schedule is the clock's,
LEMMA RefinesInit == Init => Refines /\ Clock!Init
  <1> SUFFICES ASSUME Init PROVE Refines /\ Clock!Init
    OBVIOUS
  <1>1. SliceInv
    BY SliceInvInit
  <1>2. OnGrid(0)
    BY SpanType, ScheduleConstants DEF Init, OnGrid
  <1>3. NextIndex = 0
    BY <1>2, IndexOf
  <1> QED BY <1>1, <1>3 DEF Init, Refines, AtFrameZero, Clock!Init, Clock!NoFrame

\* unsliced it stays at frame 0,
LEMMA FrameZeroNext == Refines /\ [Next]_vars => AtFrameZero'
  <1> SUFFICES ASSUME Refines, [Next]_vars PROVE AtFrameZero'
    OBVIOUS
  <1>1. ASSUME UNCHANGED <<logicRate, prevFrame>> PROVE AtFrameZero'
    BY <1>1 DEF Refines, AtFrameZero
  <1>2. ASSUME ResetSlices PROVE AtFrameZero'
    BY <1>2 DEF ResetSlices, AtFrameZero
  <1>3. ASSUME NEW sub, NEW r, SetLogicRate(sub, r) PROVE AtFrameZero'
    BY <1>3 DEF SetLogicRate, AtFrameZero
  <1>4. ASSUME AdvanceSliced PROVE AtFrameZero'
    BY <1>4 DEF AdvanceSliced, Sliced, AtFrameZero
  <1> QED BY <1>1, <1>2, <1>3, <1>4
          DEF Next, SetGameSpeed, TicksForSlot, Anchor, RecomputeRate, ReplayRate,
              AdvanceTick, AdvanceWhole, ScheduleResetHere, ScheduleToFrame, WalkTick,
              vars, sliceVars

\* and every step is a step of the clock's, or none.
LEMMA RefinesNext == Refines /\ [Next]_vars => [Clock!Next]_(Clock!clockVars)
  <1> SUFFICES ASSUME Refines, [Next]_vars PROVE [Clock!Next]_(Clock!clockVars)
    OBVIOUS
  <1> USE DEF Refines
  <1>0. ASSUME UNCHANGED <<logicRate, ticked, major, phase, prevFrame, unitsAcc,
                           unitsTotal, dt>>
        PROVE  UNCHANGED Clock!clockVars
    BY <1>0 DEF Clock!clockVars, NextIndex
  <1>1. ASSUME NEW pct \in SpeedInputs, SetGameSpeed(pct)
        PROVE  UNCHANGED Clock!clockVars
    BY <1>0, <1>1 DEF SetGameSpeed, sliceVars
  <1>2. CASE TicksForSlot
    BY <1>0, <1>2 DEF TicksForSlot, sliceVars
  <1>3. CASE Anchor
    BY <1>0, <1>3 DEF Anchor, sliceVars
  <1>4. ASSUME NEW hz \in RateInputs \ {0}, NEW sub \in BOOLEAN,
               NEW playing \in BOOLEAN, NEW recorded \in RateInputs,
               RecomputeRate(hz, sub, playing, recorded)
        PROVE  [Clock!Next]_(Clock!clockVars)
    <2> DEFINE want == IF ~sub THEN Fps
                       ELSE IF ~playing THEN Clamp(hz, Fps, MaxRate)
                       ELSE IF recorded = 0 THEN Fps ELSE recorded
    <2>1. want \in Nat
      BY ScheduleConstants DEF Clamp
    <2>2. CASE SetLogicRate(sub, want)
      BY <2>1, <2>2, SetLogicRateIsSetRate DEF Clock!Next
    <2>3. CASE UNCHANGED <<logicRate, ticked, major, phase, prevFrame,
                           unitsAcc, unitsTotal, dt>>
      BY <1>0, <2>3
    <2> QED BY <1>4, <2>2, <2>3 DEF RecomputeRate
  <1>5. ASSUME NEW sub \in BOOLEAN, NEW rate \in RateInputs, ReplayRate(sub, rate)
        PROVE  Clock!Next
    BY <1>5, SetLogicRateIsSetRate, ScheduleConstants DEF ReplayRate, Clock!Next
  <1>6. CASE AdvanceTick
    <2>1. CASE AdvanceSliced
      BY <2>1, AdvanceIsTick DEF Clock!Next
    <2>2. CASE AdvanceWhole
      <3>1. logicRate = Fps /\ prevFrame = 0
        BY <2>2 DEF AdvanceWhole, Sliced, SliceInv, SliceType, AtFrameZero
      <3>2. NextIndex' = NextIndex
        BY <2>2 DEF AdvanceWhole, NextIndex
      <3> QED BY <2>2, <3>1, <3>2 DEF AdvanceWhole, Clock!WholeFrame, Clock!Next
    <2> QED BY <1>6, <2>1, <2>2 DEF AdvanceTick
  <1>7. CASE ScheduleResetHere
    BY <1>7, ResetIsRestart DEF ScheduleResetHere, Clock!Next
  <1>8. ASSUME NEW f \in FrameInputs, ScheduleToFrame(f) PROVE Clock!Next
    BY <1>8, ResetIsRestart DEF ScheduleToFrame, Clock!Next
  <1>9. CASE WalkTick
    BY <1>9, AdvanceIsTick DEF WalkTick, Clock!Next
  <1>10. CASE UNCHANGED vars
    BY <1>0, <1>10 DEF vars, sliceVars
  <1> QED BY <1>1, <1>2, <1>3, <1>4, <1>5, <1>6, <1>7, <1>8, <1>9, <1>10 DEF Next

\* advance_tick's running remainder, its resets, its resyncs and its changes of
\* rate are the closed form in which a tick's frame, offset, length and frame-tick
\* flag are functions of its index, for every period and rate (timing.c:44-45).
THEOREM ClockImplemented == Spec => ImplementsClock
  <1>1. Refines /\ [Next]_vars => Refines'
    BY SliceInvNext, FrameZeroNext DEF Refines
  <1> QED BY <1>1, RefinesInit, RefinesNext, PTL DEF Spec, ImplementsClock, Clock!Spec
===============================================================================
