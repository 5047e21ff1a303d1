---------------------------- MODULE FrameHookProofs ---------------------------
(***************************************************************************)
(* Proofs about what the frame hook does once a presentation: its ticks,   *)
(* against the wall clock and for a replay's fast forward (FramePacing),   *)
(* the keys of the menu (MenuInput), and the window and the pointer        *)
(* (WindowShape).  The three share no state; each has its theorems below,  *)
(* for any display, any number of messages waiting, any sizes and any      *)
(* settings.                                                               *)
(*                                                                         *)
(* The schedule is near the clock because a presentation starts within the *)
(* slack of it, or anew (Within), and the ticks it is charged for are      *)
(* those it was worth (After).  A fast forward is whole because every      *)
(* frame asked for is waiting or begun (Accounted), and one that is begun  *)
(* ends at the second frame tick from there (Begun).                       *)
(*                                                                         *)
(* The menu key is watched by message and by polling, and both report one  *)
(* press.  What keeps them from toggling twice is that a report of either  *)
(* kind (Reports) finds a press that is owed, unless the last poll had the *)
(* key down; and that reports which come between the messages and the poll *)
(* of one round have a press of their own beside what was delivered.       *)
(***************************************************************************)
EXTENDS FramePacing, MenuInput, WindowShape, WellFoundedInduction, TLAPS

-------------------------------------------------------------------------------
(* A presentation against the wall clock. *)

PaceTypes ==
    /\ rate \in RateInputs /\ speed \in SpeedInputs \cup {FullSpeed}
    /\ vsync \in BOOLEAN /\ anchored \in BOOLEAN
    /\ lacc \in 0 .. Slot - 1 /\ behind \in Int
    /\ wait \in Int /\ wait <= Grain
    /\ pc \in {"game", "catching", "drawing", "forward"} /\ due \in Nat

\* Before its ticks are taken off, a presentation is within the slack of the
\* wall clock, and what it waited for its slot.
Within ==
    /\ behind <= (SlackNow + 1) * Tick + Grain * Worth
    /\ behind >= -(SlackNow * Tick)

\* After them, no further ahead than they are.
After ==
    /\ behind <= (SlackNow + 1) * Tick + Grain * Worth
    /\ behind >= -(SlackNow + MaxDue) * Tick

PaceInv ==
    /\ PaceTypes
    /\ pc \in {"catching", "drawing"} => Within /\ due <= MaxDue
    /\ pc \in {"game", "forward"} /\ anchored => After

\* A quotient is the floor, of negative numbers too.
LEMMA Floor ==
    ASSUME NEW a \in Int, NEW b \in Nat \ {0}
    PROVE  /\ a \div b \in Int
           /\ (a \div b) * b <= a /\ a < (a \div b) * b + b
  OBVIOUS

\* Rounding down is monotone.
LEMMA FloorMonotone ==
    ASSUME NEW a \in Int, NEW c \in Int, NEW b \in Nat \ {0}, a <= c
    PROVE  a \div b <= c \div b
  <1>1. PICK p \in Int : p = a \div b /\ p * b <= a
    BY Floor
  <1>2. PICK q \in Int : q = c \div b /\ c < q * b + b
    BY Floor
  <1>3. p * b < (q + 1) * b
    BY <1>1, <1>2
  <1>4. p < q + 1
    BY <1>1, <1>2, <1>3
  <1> QED BY <1>1, <1>2, <1>4

\* Multiplication by a natural number is monotone.
LEMMA MulMonotone ==
    ASSUME NEW a \in Int, NEW b \in Int, NEW c \in Nat, a <= b
    PROVE  a * c <= b * c
  OBVIOUS

\* The lengths of a slot and of a tick, and what a presentation is worth.
LEMMA Units ==
    ASSUME rate \in RateInputs, speed \in SpeedInputs \cup {FullSpeed}
    PROVE  /\ Slot \in Nat \ {0} /\ Tick \in Nat \ {0} /\ Worth \in Nat
           /\ Worth <= MaxRate * speed
           /\ SlackNow \in Nat /\ MaxDue \in Nat
           /\ rate \in Nat /\ speed \in Nat \ {0}
  <1>1. /\ rate \in Nat /\ rate <= MaxRate /\ speed \in Nat \ {0} /\ MaxRate \in Nat
        /\ Refresh \in Nat \ {0} /\ FullSpeed \in Nat \ {0} /\ Grain \in Nat \ {0} /\ Slack \in Nat
    BY PacingConstants, ClockConstants DEF Rates
  <1>2. Slot \in Nat \ {0}
    BY <1>1 DEF Slot
  <1>3. Tick \in Nat \ {0}
    BY <1>1, <1>2 DEF Tick
  <1>4. Worth \in Nat /\ Worth <= MaxRate * speed
    BY <1>1, MulMonotone DEF Worth
  <1>5. speed \div FullSpeed \in Nat
    BY <1>1
  <1>6. SlackNow \in Nat
    BY <1>1, <1>5 DEF SlackNow
  <1>7. MaxRate * speed + Slot - 1 \in Nat
    BY <1>1, <1>2
  <1>8. (MaxRate * speed + Slot - 1) \div Slot \in Nat
    <2> HIDE DEF Slot
    <2>1. PICK t \in Nat : t = MaxRate * speed + Slot - 1
      BY <1>7
    <2> QED BY <1>2, <2>1
  <1>9. MaxDue \in Nat
    BY <1>8 DEF MaxDue
  <1> QED BY <1>1, <1>2, <1>3, <1>4, <1>6, <1>9

\* hfr_frame's origin: dated again, or within the slack.
LEMMA WithinSlack ==
    ASSUME NEW d \in Int, NEW s \in Nat, NEW t \in Nat \ {0},
           NEW f \in Int, f = IF d \div t > s \/ d \div t < -s THEN 0 ELSE d
    PROVE  f <= (s + 1) * t /\ f >= -(s * t)
  <1>0. s * t \in Nat /\ (s + 1) * t \in Nat
    OBVIOUS
  <1>1. PICK q \in Int : q = d \div t /\ q * t <= d /\ d < q * t + t
    BY Floor
  <1>2. CASE q > s \/ q < -s
    BY <1>0, <1>1, <1>2
  <1>3. CASE ~(q > s \/ q < -s)
    <2>1. q * t <= s * t /\ (-s) * t <= q * t
      BY <1>1, <1>3, MulMonotone
    <2>2. (-s) * t = -(s * t) /\ (s + 1) * t = s * t + t
      OBVIOUS
    <2>3. s * t \in Int /\ q * t \in Int
      BY <1>1
    <2> QED BY <1>1, <1>3, <2>1, <2>2, <2>3
  <1> QED BY <1>2, <1>3

\* The slot's ticks, and what is left of them.
LEMMA SlotTicks ==
    ASSUME NEW l \in Nat, NEW w \in Nat, NEW s \in Nat \ {0}, l < s,
           NEW m \in Nat, w <= m
    PROVE  /\ (l + w) \div s \in Nat /\ (l + w) \div s <= (m + s - 1) \div s
           /\ l + w - ((l + w) \div s) * s \in 0 .. s - 1
  <1>1. PICK a \in Nat : a = l + w
    OBVIOUS
  <1>2. /\ a \div s \in Nat /\ (a \div s) * s <= a /\ a < (a \div s) * s + s
    BY Floor
  <1>3. PICK q \in Nat : q = a \div s
    BY <1>2
  <1>4. a - q * s \in 0 .. s - 1
    BY <1>2, <1>3
  <1>5. a <= m + s - 1
    BY <1>1
  <1>6. a \div s <= (m + s - 1) \div s
    BY <1>5, FloorMonotone
  <1> QED BY <1>1, <1>2, <1>3, <1>4, <1>6

\* The start of a presentation: re-anchored beyond the slack, corrected beyond the hysteresis.
LEMMA FramePaced ==
    ASSUME PaceInv, NEW e \in Elapses, Frame(e)
    PROVE  PaceInv'
  <1> USE DEF PaceInv, PaceTypes
  <1>1. /\ e \in Nat /\ Grain \in Nat \ {0} /\ Window \in Nat
        /\ Slot \in Nat \ {0} /\ Tick \in Nat \ {0} /\ Worth \in Nat /\ Worth <= MaxRate * speed
        /\ SlackNow \in Nat /\ MaxDue \in Nat /\ speed \in Nat
        /\ pc = "game"
    BY Units, PacingConstants DEF Frame
  <1>0. lacc \in Nat /\ lacc < Slot
    BY <1>1
  <1>2. PICK d \in Int : d = IF anchored THEN behind + e * Worth ELSE 0
    <2>1. e * Worth \in Int
      BY <1>1
    <2> QED BY <2>1
  <1>3. PICK f \in Int : f = IF Stalled(d \div Tick) THEN 0 ELSE d
    OBVIOUS
  <1>4. PICK x \in Int : x = IF wait - e < -Window \/ wait - e > Window THEN 0 ELSE wait - e
    BY <1>1
  <1>5. PICK h \in Int : h = IF ~vsync /\ x > 0 THEN x ELSE 0
    OBVIOUS
  <1>6. x <= Grain /\ h \in 0 .. Grain
    BY <1>1, <1>4, <1>5
  <1>7. PICK n \in Nat : n = (lacc + Worth) \div Slot
    <2>1. PICK w \in Nat : w = Worth /\ w <= w
      BY <1>1
    <2>2. (lacc + w) \div Slot \in Nat
      BY <1>0, <1>1, <2>1, SlotTicks
    <2> QED BY <2>1, <2>2
  <1>8. /\ n <= MaxDue - 1 /\ lacc + Worth - n * Slot \in 0 .. Slot - 1
    <2>1. PICK m \in Nat : m = MaxRate * speed /\ Worth <= m
      BY <1>1, ClockConstants
    <2>2. n <= (m + Slot - 1) \div Slot /\ lacc + Worth - n * Slot \in 0 .. Slot - 1
      BY <1>0, <1>1, <1>7, <2>1, SlotTicks
    <2>3. (m + Slot - 1) \div Slot \in Int
      BY <1>1, <2>1, Floor
    <2> QED BY <2>1, <2>2, <2>3 DEF MaxDue
  <1>9. h * Worth \in 0 .. Grain * Worth
    BY <1>1, <1>6, MulMonotone
  <1>10. f <= (SlackNow + 1) * Tick /\ f >= -(SlackNow * Tick)
    BY <1>1, <1>3, WithinSlack DEF Stalled
  <1>11. PICK now \in Int : now = f + h * Worth
    BY <1>9, <1>10
  <1>12. PICK c \in {-1, 0, 1} : c = Correction(now \div Tick, n)
    BY DEF Correction
  <1>13. n + c \in 0 .. MaxDue
    BY <1>1, <1>8, <1>12 DEF Correction
  <1>14. /\ anchored' = TRUE /\ behind' = now
         /\ wait' = IF ~vsync THEN x - h + Grain ELSE IF wait - e < Unset THEN Unset ELSE wait - e
         /\ lacc' = lacc + Worth - n * Slot /\ due' = n + c
         /\ pc' = IF n + c > 1 THEN "catching" ELSE "drawing"
    BY <1>2, <1>3, <1>4, <1>5, <1>7, <1>11, <1>12 DEF Frame
  <1>15. UNCHANGED <<rate, speed, vsync>>
    BY DEF Frame, setVars
  <1>16. /\ Slot' = Slot /\ Tick' = Tick /\ Worth' = Worth /\ SlackNow' = SlackNow
         /\ MaxDue' = MaxDue
    BY <1>15 DEF Slot, Tick, Worth, SlackNow, MaxDue
  <1>17. wait' \in Int /\ wait' <= Grain
    BY <1>1, <1>4, <1>5, <1>6, <1>14 DEF Unset
  <1>18. now <= (SlackNow + 1) * Tick + Grain * Worth /\ now >= -(SlackNow * Tick)
    <2>1. PICK a \in Int, b \in Int, g \in Int, w \in Int :
              /\ a = (SlackNow + 1) * Tick /\ b = SlackNow * Tick
              /\ g = Grain * Worth /\ w = h * Worth
      BY <1>1, <1>6
    <2>2. f <= a /\ f >= -b /\ w \in 0 .. g /\ now = f + w
      BY <2>1, <1>9, <1>10, <1>11
    <2>3. now <= a + g /\ now >= -b
      BY <2>2
    <2> QED BY <2>1, <2>3
  <1>19. Within'
    BY <1>14, <1>16, <1>18 DEF Within
  <1>20. PaceTypes'
    BY <1>8, <1>13, <1>14, <1>15, <1>16, <1>17
  <1>21. pc' \notin {"game", "forward"} /\ due' <= MaxDue'
    BY <1>13, <1>14, <1>16
  <1> QED BY <1>19, <1>20, <1>21 DEF PaceInv

\* The tick that is drawn,
LEMMA DrawPaced ==
    ASSUME PaceInv, NEW asks \in BOOLEAN, Draw(asks)
    PROVE  PaceInv'
  <1> USE DEF PaceInv, PaceTypes
  <1>1. /\ UNCHANGED <<rate, speed, vsync, lacc, anchored, wait>>
        /\ pc = "drawing" /\ behind' = behind - due * Tick /\ due' = 0
        /\ pc' \in {"game", "forward"}
    BY DEF Draw, setVars
  <1>2. /\ Slot' = Slot /\ Tick' = Tick /\ Worth' = Worth /\ SlackNow' = SlackNow
        /\ MaxDue' = MaxDue
    BY <1>1 DEF Slot, Tick, Worth, SlackNow, MaxDue
  <1>3. /\ Tick \in Nat \ {0} /\ SlackNow \in Nat /\ MaxDue \in Nat /\ Worth \in Nat
    BY Units
  <1>4. due * Tick \in Nat /\ due * Tick <= MaxDue * Tick
    BY <1>1, <1>3, MulMonotone
  <1>5. (SlackNow + MaxDue) * Tick = SlackNow * Tick + MaxDue * Tick
    BY <1>3
  <1>6. behind' \in Int
    BY <1>1, <1>4
  <1>7. After'
    <2>1. PICK a \in Int, b \in Int, m \in Int, t \in Int :
              /\ a = (SlackNow + 1) * Tick + Grain * Worth /\ b = SlackNow * Tick
              /\ m = MaxDue * Tick /\ t = due * Tick
      BY <1>3, PacingConstants
    <2>2. behind <= a /\ behind >= -b /\ t \in 0 .. m /\ behind' = behind - t
      BY <1>1, <1>4, <2>1 DEF Within
    <2>3. behind' <= a /\ behind' >= -(b + m)
      BY <2>2
    <2> QED BY <1>2, <1>5, <2>1, <2>3 DEF After
  <1>8. PaceTypes'
    BY <1>1, <1>2, <1>6
  <1> QED BY <1>1, <1>7, <1>8

\* What changes none of the schedule, or dates it again.
LEMMA PaceKept ==
    ASSUME PaceInv, UNCHANGED <<clockVars, setVars, due>>, pc' \in {"game", "catching", "drawing", "forward"},
           pc' = pc \/ (pc \in {"game", "forward"} /\ pc' \in {"game", "forward"})
               \/ (pc \in {"catching", "drawing"} /\ pc' \in {"catching", "drawing"})
    PROVE  PaceInv'
  <1>1. /\ Slot' = Slot /\ Tick' = Tick /\ Worth' = Worth /\ SlackNow' = SlackNow
        /\ MaxDue' = MaxDue /\ UNCHANGED <<rate, speed, vsync, lacc, anchored, behind, wait, due>>
    BY DEF Slot, Tick, Worth, SlackNow, MaxDue, setVars, clockVars
  <1> QED BY <1>1 DEF PaceInv, PaceTypes, Within, After

\* and one that is not, which may make the game leave.
LEMMA CatchUpPaced ==
    ASSUME PaceInv, NEW asks \in BOOLEAN, NEW leaves \in BOOLEAN, CatchUp(asks, leaves)
    PROVE  PaceInv'
  <1>1. UNCHANGED <<clockVars, setVars>> /\ pc = "catching"
    BY DEF CatchUp
  <1>2. CASE ~leaves
    BY <1>1, <1>2, PaceKept DEF CatchUp
  <1>3. CASE leaves
    <2>1. pc' = "game" /\ due' = 0
      BY <1>3 DEF CatchUp
    <2>2. /\ Slot' = Slot /\ Tick' = Tick /\ Worth' = Worth /\ SlackNow' = SlackNow
          /\ MaxDue' = MaxDue /\ UNCHANGED <<rate, speed, vsync, lacc, anchored, behind, wait>>
      BY <1>1 DEF Slot, Tick, Worth, SlackNow, MaxDue, setVars, clockVars
    <2>3. Tick \in Nat /\ SlackNow \in Nat /\ MaxDue \in Nat
      BY Units DEF PaceInv, PaceTypes
    <2>4. (SlackNow + MaxDue) * Tick >= SlackNow * Tick
      BY <2>3, MulMonotone
    <2>5. After
      <3>1. PICK s \in Int, m \in Int : s = SlackNow * Tick /\ m = (SlackNow + MaxDue) * Tick
        BY <2>3
      <3>2. behind >= -s /\ m >= s /\ behind \in Int
        BY <1>1, <2>4, <3>1 DEF PaceInv, PaceTypes, Within
      <3>3. behind >= -m
        BY <3>2
      <3> QED BY <1>1, <3>1, <3>3 DEF After, PaceInv, Within
    <2> QED BY <1>1, <2>1, <2>2, <2>5 DEF PaceInv, PaceTypes, After
  <1> QED BY <1>2, <1>3

\* A schedule that is dated again at the next presentation.
LEMMA Redated ==
    ASSUME PaceInv, pc = "game", pc' = pc, anchored' = FALSE, behind' = 0, lacc' = 0,
           rate' \in RateInputs, speed' \in SpeedInputs \cup {FullSpeed},
           UNCHANGED <<vsync, wait, due>>
    PROVE  PaceInv'
  <1>1. Slot' = Slot /\ Slot \in Nat \ {0}
    BY Units DEF PaceInv, PaceTypes, Slot
  <1>2. lacc' \in 0 .. Slot' - 1
    BY <1>1
  <1>3. /\ vsync' \in BOOLEAN /\ anchored' \in BOOLEAN
    BY DEF PaceInv, PaceTypes
  <1>4. /\ behind' \in Int /\ wait' \in Int /\ wait' <= Grain /\ due' \in Nat
        /\ pc' = "game"
    BY DEF PaceInv, PaceTypes
  <1>5. PaceTypes'
    BY <1>2, <1>3, <1>4 DEF PaceTypes
  <1> QED BY <1>4, <1>5 DEF PaceInv

\* The pacing invariant holds at the start,
LEMMA PaceInit == Init => PaceInv
  <1> SUFFICES ASSUME Init PROVE PaceInv
    OBVIOUS
  <1>1. rate \in RateInputs /\ speed \in SpeedInputs \cup {FullSpeed}
    BY DEF Init
  <1>2. Slot \in Nat \ {0} /\ Grain \in Nat /\ Window \in Nat
    BY <1>1, Units, PacingConstants
  <1>3. vsync \in BOOLEAN /\ anchored \in BOOLEAN /\ ~anchored /\ pc = "game"
    BY DEF Init
  <1>4. lacc \in 0 .. Slot - 1 /\ behind \in Int /\ wait \in Int /\ wait <= Grain /\ due \in Nat
    BY <1>2 DEF Init, Unset
  <1>5. PaceTypes
    BY <1>1, <1>3, <1>4 DEF PaceTypes
  <1> QED BY <1>3, <1>5 DEF PaceInv

\* and every step keeps it.
LEMMA PaceNext == PaceInv /\ [Next]_vars => PaceInv'
  <1> SUFFICES ASSUME PaceInv, [Next]_vars PROVE PaceInv'
    OBVIOUS
  <1>1. ASSUME NEW e \in Elapses, Frame(e) PROVE PaceInv'
    BY <1>1, FramePaced
  <1>2. ASSUME NEW asks \in BOOLEAN, NEW leaves \in BOOLEAN, CatchUp(asks, leaves) PROVE PaceInv'
    BY <1>2, CatchUpPaced
  <1>3. ASSUME NEW asks \in BOOLEAN, Draw(asks) PROVE PaceInv'
    BY <1>3, DrawPaced
  <1>4. CASE Forward
    <2>1. /\ UNCHANGED <<clockVars, setVars, due>> /\ pc = "forward"
          /\ pc' \in {"game", "forward"}
      BY <1>4 DEF Forward, ForwardFrame, ForwardEnds, ForwardTick, ForwardOver, callVars
    <2> QED BY <2>1, PaceKept
  <1>5. ASSUME NEW s \in SpeedInputs, SetGameSpeed(s) PROVE PaceInv'
    BY <1>5, Redated DEF SetGameSpeed, PaceInv, PaceTypes, callVars
  <1>6. ASSUME NEW r \in RateInputs, RecomputeRate(r) \/ ReplayRate(r) PROVE PaceInv'
    <2>1. /\ pc = "game" /\ pc' = pc /\ lacc' = 0
          /\ UNCHANGED <<speed, vsync, wait, due>>
      BY <1>6 DEF RecomputeRate, ReplayRate, SetLogicRate, callVars
    <2>2. CASE SetLogicRate(r)
      BY <2>1, <2>2, Redated DEF SetLogicRate, PaceInv, PaceTypes
    <2>3. CASE UNCHANGED <<rate, anchored, behind>>
      <3>1. /\ Slot' = Slot /\ Tick' = Tick /\ Worth' = Worth /\ SlackNow' = SlackNow
            /\ MaxDue' = MaxDue
        BY <2>1, <2>3 DEF Slot, Tick, Worth, SlackNow, MaxDue
      <3>2. Slot \in Nat \ {0}
        BY Units DEF PaceInv, PaceTypes
      <3>3. lacc' \in 0 .. Slot - 1
        BY <2>1, <3>2
      <3> QED BY <2>1, <2>3, <3>1, <3>3 DEF PaceInv, PaceTypes, After
    <2> QED BY <1>6, <2>2, <2>3 DEF RecomputeRate, ReplayRate, tickVars
  <1>7. CASE SetVSync
    <2>1. /\ pc' = pc /\ vsync' \in BOOLEAN
          /\ UNCHANGED <<rate, speed, lacc, anchored, behind, wait, due>>
      BY <1>7 DEF SetVSync, clockVars, callVars, PaceInv, PaceTypes
    <2>2. /\ Slot' = Slot /\ Tick' = Tick /\ Worth' = Worth /\ SlackNow' = SlackNow
          /\ MaxDue' = MaxDue
      BY <2>1 DEF Slot, Tick, Worth, SlackNow, MaxDue
    <2> QED BY <2>1, <2>2 DEF PaceInv, PaceTypes, Within, After
  <1>8. CASE UNCHANGED vars
    BY <1>8, PaceKept DEF vars, callVars, PaceInv, PaceTypes
  <1> QED BY <1>1, <1>2, <1>3, <1>4, <1>5, <1>6, <1>7, <1>8 DEF Next, Presentation

\* NearTheClock (frame.c:58-64): for every display, grain of time, slack and pause
\* between presentations, the schedule never strays from the wall clock by
\* more than the slack and the presentation in progress.
THEOREM KeepsNearTheClock == Spec => []NearTheClock
  <1>1. Init => PaceInv
    BY PaceInit
  <1>2. PaceInv /\ [Next]_vars => PaceInv'
    BY PaceNext
  <1>3. PaceInv => NearTheClock
    BY DEF PaceInv, After, NearTheClock
  <1> QED BY <1>1, <1>2, <1>3, PTL DEF Spec
-------------------------------------------------------------------------------
(* Fast forward. *)

FFTypes ==
    /\ {ffFrames, ffDone, asked, extra} \subseteq 0 .. MaxFF + 1 /\ majors \in 0 .. 1
    /\ pc \in {"game", "catching", "drawing", "forward"}

\* Every frame asked for is waiting or begun; beyond the limit only that
\* there are too many is known.
Accounted ==
    /\ asked <= MaxFF => asked = ffFrames + ffDone
    /\ asked > MaxFF => ffFrames + ffDone > MaxFF

\* A frame of fast forward is begun at its frame tick: the last one begun has
\* not met it before majors counts it.
Begun ==
    /\ pc # "forward" => ffDone = 0 /\ extra = 0 /\ majors = 0
    /\ pc = "forward" =>
           /\ ffFrames > 0 \/ ffDone > 0
           /\ ffDone <= MaxFF
           /\ extra = IF ffDone > 0 THEN ffDone - 1 + majors ELSE 0
           /\ ffDone = 0 => majors = 0

FFInv == FFTypes /\ Accounted /\ Begun

\* A tick may ask for one more frame, which is counted up to the limit.
LEMMA Requested ==
    ASSUME FFInv, NEW asks \in BOOLEAN, CountRequest(asks), ffDone' = ffDone
    PROVE  /\ ffFrames' \in 0 .. MaxFF + 1 /\ asked' \in 0 .. MaxFF + 1
           /\ Accounted' /\ ffFrames' >= ffFrames
  BY PacingConstants DEF FFInv, FFTypes, Accounted, CountRequest, Count

\* Every step keeps the account of the frames asked for.
LEMMA FFNext == FFInv /\ [Next]_vars => FFInv'
  <1> SUFFICES ASSUME FFInv, [Next]_vars PROVE FFInv'
    OBVIOUS
  <1>0. MaxFF \in Nat \ {0}
    BY PacingConstants
  <1>1. ASSUME NEW e \in Elapses, Frame(e) PROVE FFInv'
    BY <1>1 DEF Frame, ffVars, FFInv, FFTypes, Accounted, Begun
  <1>2. ASSUME NEW asks \in BOOLEAN, NEW leaves \in BOOLEAN, CatchUp(asks, leaves) PROVE FFInv'
    <2>1. /\ CountRequest(asks) /\ UNCHANGED <<ffDone, majors, extra>>
          /\ pc = "catching" /\ pc' \in {"game", "drawing", "catching"}
      BY <1>2 DEF CatchUp
    <2> QED BY <2>1, Requested DEF FFInv, FFTypes, Begun
  <1>3. ASSUME NEW asks \in BOOLEAN, Draw(asks) PROVE FFInv'
    <2>1. /\ UNCHANGED <<ffDone, majors, extra>> /\ pc = "drawing"
          /\ pc' = IF ffFrames' > 0 THEN "forward" ELSE "game"
          /\ CountRequest(asks) \/ UNCHANGED <<asked, ffFrames>>
      BY <1>3 DEF Draw
    <2>2. /\ ffFrames' \in 0 .. MaxFF + 1 /\ asked' \in 0 .. MaxFF + 1 /\ Accounted'
      BY <2>1, Requested DEF FFInv, FFTypes, Accounted
    <2> QED BY <1>0, <2>1, <2>2 DEF FFInv, FFTypes, Begun
  <1>4. CASE ForwardFrame
    <2>1. /\ pc = "forward" /\ pc' = pc /\ ffFrames > 0 /\ ffDone < MaxFF
          /\ ffDone > 0 => majors > 0
          /\ ffFrames' = ffFrames - 1 /\ ffDone' = ffDone + 1 /\ majors' = 0
          /\ UNCHANGED <<asked, extra>>
      BY <1>0, <1>4 DEF ForwardFrame, MayForward, FrameRun, Count, FFInv, FFTypes
    <2> QED BY <1>0, <2>1 DEF FFInv, FFTypes, Accounted, Begun
  <1>5. ASSUME NEW asks \in BOOLEAN, NEW leaves \in BOOLEAN, ForwardTick(asks, leaves) PROVE FFInv'
    <2>1. CASE leaves
      BY <1>0, <1>5, <2>1 DEF ForwardTick, ForwardOver, FFInv, FFTypes, Accounted, Begun
    <2>2. CASE ~leaves
      <3>1. /\ CountRequest(asks) /\ UNCHANGED <<ffDone, pc>> /\ pc = "forward" /\ ffDone > 0
            /\ majors' = IF AdvancesFrame THEN majors + 1 ELSE majors
            /\ extra' = IF AdvancesFrame THEN Count(extra) ELSE extra
            /\ majors > 0 => ~AdvancesFrame
        BY <1>5, <2>2 DEF ForwardTick, FrameRun
      <3>2. /\ ffFrames' \in 0 .. MaxFF + 1 /\ asked' \in 0 .. MaxFF + 1 /\ Accounted'
        BY <3>1, Requested
      <3>3. CASE AdvancesFrame
        <4>1. majors = 0 /\ majors' = 1 /\ extra = ffDone - 1 /\ extra' = ffDone
          BY <1>0, <3>1, <3>3 DEF FFInv, FFTypes, Begun, Count
        <4> QED BY <1>0, <3>1, <3>2, <4>1 DEF FFInv, FFTypes, Begun
      <3>4. CASE ~AdvancesFrame
        BY <1>0, <3>1, <3>2, <3>4 DEF FFInv, FFTypes, Begun
      <3> QED BY <3>3, <3>4
    <2> QED BY <2>1, <2>2
  <1>6. CASE ForwardEnds
    BY <1>0, <1>6 DEF ForwardEnds, ForwardOver, FFInv, FFTypes, Accounted, Begun
  <1>7. ASSUME UNCHANGED <<pc, ffVars>> PROVE FFInv'
    BY <1>7 DEF ffVars, FFInv, FFTypes, Accounted, Begun
  <1> QED
    <2>1. CASE \/ \E s \in SpeedInputs : SetGameSpeed(s)
               \/ \E r \in RateInputs : RecomputeRate(r) \/ ReplayRate(r)
               \/ SetVSync \/ UNCHANGED vars
      BY <1>7, <2>1 DEF SetGameSpeed, RecomputeRate, ReplayRate, SetVSync, vars
    <2> QED BY <1>1, <1>2, <1>3, <1>4, <1>5, <1>6, <2>1 DEF Next, Presentation, Forward

\* ForwardsWholeFrames (frame.c:18-23): for every limit, whatever ticks ask for
\* frames and wherever in a frame a fast forward begins, it ends at a frame's
\* end and has begun as many frames as were asked for, or the limit.
THEOREM FastForwardIsWhole == Spec => ForwardsWholeFrames
  <1>1. Init => FFInv
    BY PacingConstants DEF Init, FFInv, FFTypes, Accounted, Begun
  <1>2. FFInv /\ [Next]_vars => FFInv'
    BY FFNext
  <1>3. FFInv /\ [Next]_vars
            => [ForwardEnds /\ ~quit
                  => /\ extra = (IF asked < MaxFF THEN asked ELSE MaxFF)
                     /\ AdvancesFrame]_vars
    <2> SUFFICES ASSUME FFInv, ForwardEnds
                 PROVE  extra = (IF asked < MaxFF THEN asked ELSE MaxFF) /\ AdvancesFrame
      OBVIOUS
    <2>1. pc = "forward" /\ (ffDone = 0 \/ FrameRun) /\ (ffFrames = 0 \/ ffDone >= MaxFF)
      BY PacingConstants DEF ForwardEnds, MayForward, FFInv, FFTypes
    <2>2. ffDone > 0 /\ FrameRun
      BY <2>1, PacingConstants DEF FFInv, FFTypes, Begun
    <2>3. majors = 1 /\ AdvancesFrame /\ extra = ffDone /\ ffDone <= MaxFF
      BY <2>1, <2>2 DEF FrameRun, FFInv, FFTypes, Begun
    <2> QED BY <2>1, <2>3, PacingConstants DEF FFInv, FFTypes, Accounted
  <1> QED BY <1>1, <1>2, <1>3, PTL DEF Spec, ForwardsWholeFrames
-------------------------------------------------------------------------------
(* The menu key. *)

Messages == {"down", "up", "kill"}

KeyTypes ==
    /\ phase \in {"pump", "poll", "read", "draw"}
    /\ queue \in Seq(Messages) /\ owed \in Nat
    /\ hw \in BOOLEAN /\ focus \in BOOLEAN /\ level \in BOOLEAN
    /\ msgDown \in BOOLEAN /\ msgTapped \in BOOLEAN /\ sent \in BOOLEAN

\* A key that is held, or was reported, is the last poll's or is owed.
Reports ==
    /\ hw /\ focus /\ ~level => owed > 0
    /\ (Reported \/ msgTapped \/ msgDown) /\ ~level => owed > 0
    /\ sent => msgTapped \/ Reported

\* What is reported after the messages were delivered is a press of its own.
LateReports ==
    phase = "poll" /\ Reported =>
        /\ owed > 0
        /\ msgTapped /\ ~level => owed > 1

KeyInv == KeyTypes /\ Reports /\ LateReports /\ OnePressOneToggle

\* A message is posted at the queue's end,
LEMMA Appended ==
    ASSUME NEW m \in Messages, queue \in Seq(Messages), queue' = Append(queue, m)
    PROVE  queue' \in Seq(Messages) /\ (Reported' <=> Reported \/ m = "down")
  <1>1. queue' \in Seq(Messages)
    OBVIOUS
  <1>2. /\ Len(queue') = Len(queue) + 1 /\ queue'[Len(queue) + 1] = m
        /\ \A i \in 1 .. Len(queue) : queue'[i] = queue[i]
    OBVIOUS
  <1>3. DOMAIN queue = 1 .. Len(queue) /\ DOMAIN queue' = 1 .. Len(queue') /\ Len(queue) \in Nat
    BY <1>1
  <1>4. Reported => Reported'
    BY <1>2, <1>3 DEF Reported
  <1>5. m = "down" => Reported'
    BY <1>2, <1>3 DEF Reported
  <1>6. Reported' => Reported \/ m = "down"
    <2>1. ASSUME NEW i \in 1 .. Len(queue) + 1, queue'[i] = "down", m # "down"
          PROVE  i \in 1 .. Len(queue) /\ queue[i] = "down"
      BY <1>2, <1>3, <2>1
    <2> QED BY <1>2, <1>3, <2>1 DEF Reported
  <1> QED BY <1>1, <1>4, <1>5, <1>6

\* and taken from its head.
LEMMA Delivered ==
    ASSUME queue \in Seq(Messages), queue # <<>>, queue' = Tail(queue)
    PROVE  /\ queue' \in Seq(Messages) /\ Head(queue) \in Messages
           /\ Reported => Reported' \/ Head(queue) = "down"
           /\ Reported' \/ Head(queue) = "down" => Reported
  <1>1. queue' \in Seq(Messages) /\ Head(queue) \in Messages /\ Head(queue) = queue[1]
    OBVIOUS
  <1>2. /\ Len(queue) \in Nat /\ Len(queue) > 0 /\ Len(queue') = Len(queue) - 1
        /\ \A i \in 1 .. Len(queue) - 1 : queue'[i] = queue[i + 1]
    OBVIOUS
  <1>3. DOMAIN queue = 1 .. Len(queue) /\ DOMAIN queue' = 1 .. Len(queue')
    BY <1>1
  <1>4. Head(queue) = "down" => Reported
    BY <1>1, <1>2, <1>3 DEF Reported
  <1>5. Reported' => Reported
    <2>1. ASSUME NEW i \in 1 .. Len(queue) - 1, queue'[i] = "down"
          PROVE  i + 1 \in 1 .. Len(queue) /\ queue[i + 1] = "down"
      BY <1>2, <2>1
    <2> QED BY <1>2, <1>3, <2>1 DEF Reported
  <1>6. Reported => Reported' \/ Head(queue) = "down"
    <2>1. ASSUME NEW i \in 1 .. Len(queue), queue[i] = "down", Head(queue) # "down"
          PROVE  i - 1 \in 1 .. Len(queue) - 1 /\ queue'[i - 1] = "down"
      <3>1. i # 1
        BY <1>1, <2>1
      <3>2. i - 1 \in 1 .. Len(queue) - 1 /\ i - 1 + 1 = i
        BY <1>2, <3>1
      <3> QED BY <1>2, <2>1, <3>2
    <2> QED BY <1>2, <1>3, <2>1 DEF Reported
  <1> QED BY <1>1, <1>4, <1>5, <1>6

\* Nothing is reported to an empty queue.
LEMMA Unreported == queue = <<>> => ~Reported
  BY DEF Reported

\* A message posted, or kept from the window.
LEMMA Posted ==
    ASSUME KeyTypes, NEW m \in Messages, Posts(m)
    PROVE  /\ queue' \in Seq(Messages)
           /\ Reported' <=> Reported \/ (posted /\ focus /\ m = "down")
  <1>1. CASE posted /\ focus
    BY <1>1, Appended DEF Posts, KeyTypes
  <1>2. CASE ~(posted /\ focus)
    BY <1>2 DEF Posts, KeyTypes, Reported
  <1> QED BY <1>1, <1>2

\* The key goes down: the press is owed one toggle.
LEMMA PressKeeps ==
    ASSUME KeyInv, Press
    PROVE  KeyInv'
  <1> USE DEF KeyInv
  <1>1. /\ ~hw /\ hw' = TRUE /\ Posts("down") /\ owed' = owed + (IF focus THEN 1 ELSE 0)
        /\ sent' = (sent \/ (posted /\ focus))
        /\ UNCHANGED <<phase, posted, focus, level, msgDown, msgTapped, doubled, missed>>
    BY DEF Press, menuKey
  <1>2. queue' \in Seq(Messages) /\ (Reported' <=> Reported \/ (posted /\ focus))
    BY <1>1, Posted DEF Messages
  <1>3. owed' \in Nat /\ owed' >= owed /\ (focus => owed' = owed + 1)
    BY <1>1 DEF KeyTypes
  <1>4. KeyTypes'
    BY <1>1, <1>2, <1>3 DEF KeyTypes
  <1>5. Reports'
    BY <1>1, <1>2, <1>3 DEF Reports, KeyTypes
  <1>6. LateReports'
    BY <1>1, <1>2, <1>3 DEF LateReports, Reports, KeyTypes
  <1>7. OnePressOneToggle'
    BY <1>1 DEF OnePressOneToggle
  <1> QED BY <1>4, <1>5, <1>6, <1>7

\* A held key is repeated, but not between the messages and the poll of a round.
LEMMA RepeatKeeps ==
    ASSUME KeyInv, Repeat, ~LateRepeats
    PROVE  KeyInv'
  <1> USE DEF KeyInv
  <1>1. /\ hw /\ focus /\ phase # "poll" /\ Posts("down")
        /\ UNCHANGED <<phase, hw, focus, level, msgDown, msgTapped, owed, sent, doubled, missed>>
    BY DEF Repeat, menuKey, past
  <1>2. queue' \in Seq(Messages) /\ (Reported => Reported')
    BY <1>1, Posted DEF Messages
  <1>3. KeyTypes'
    BY <1>1, <1>2 DEF KeyTypes
  <1>4. Reports'
    BY <1>1, <1>2 DEF Reports
  <1>5. LateReports' /\ OnePressOneToggle'
    BY <1>1 DEF LateReports, OnePressOneToggle
  <1> QED BY <1>3, <1>4, <1>5

\* The key goes up, or the focus goes: nothing new is owed.
LEMMA ReleaseKeeps ==
    ASSUME KeyInv, Release \/ LoseFocus
    PROVE  KeyInv'
  <1> USE DEF KeyInv
  <1>1. /\ UNCHANGED <<phase, level, msgDown, msgTapped, owed, sent, doubled, missed>>
        /\ hw' \in BOOLEAN /\ focus' \in BOOLEAN /\ (hw' => hw) /\ (focus' => focus)
    <2>1. CASE Release
      BY <2>1 DEF Release, menuKey, past, KeyTypes
    <2>2. CASE LoseFocus
      BY <2>2 DEF LoseFocus, menuKey, past, KeyTypes
    <2> QED BY <2>1, <2>2
  <1>2. queue' \in Seq(Messages) /\ (Reported' <=> Reported)
    <2>1. CASE Release /\ Posts("up")
      BY <2>1, Posted DEF Messages
    <2>2. CASE UNCHANGED queue
      BY <2>2 DEF Reported, KeyTypes
    <2>3. CASE LoseFocus
      BY <2>3, Appended DEF LoseFocus, KeyTypes, Messages
    <2> QED BY <2>1, <2>2, <2>3 DEF Release
  <1>3. KeyTypes'
    BY <1>1, <1>2 DEF KeyTypes
  <1>4. Reports' /\ LateReports' /\ OnePressOneToggle'
    BY <1>1, <1>2 DEF Reports, LateReports, OnePressOneToggle
  <1> QED BY <1>3, <1>4

\* Focus comes back: a key still held is not a new press.
LEMMA GainFocusKeeps ==
    ASSUME KeyInv, GainFocus
    PROVE  KeyInv'
  <1> USE DEF KeyInv
  <1>1. /\ focus' = TRUE /\ queue = <<>> /\ owed' = IF hw /\ ~level /\ owed = 0 THEN 1 ELSE owed
        /\ UNCHANGED <<phase, hw, queue, level, msgDown, msgTapped, sent, doubled, missed>>
    BY DEF GainFocus, menuKey
  <1>2. ~Reported /\ ~Reported' /\ owed' \in Nat /\ owed' >= owed /\ (hw /\ ~level => owed' > 0)
    BY <1>1, Unreported DEF KeyTypes, Reported
  <1>3. KeyTypes'
    BY <1>1, <1>2 DEF KeyTypes
  <1>4. Reports' /\ LateReports' /\ OnePressOneToggle'
    BY <1>1, <1>2 DEF Reports, LateReports, OnePressOneToggle, KeyTypes
  <1> QED BY <1>3, <1>4

\* menu_message: a key-down that is reported toggles for an owed press only.
LEMMA DeliverKeeps ==
    ASSUME KeyInv, Deliver
    PROVE  KeyInv'
  <1> USE DEF KeyInv
  <1> DEFINE down == Head(queue) = "down"
  <1>1. /\ phase = "pump" /\ queue # <<>> /\ queue' = Tail(queue)
        /\ msgDown' = down /\ msgTapped' = (msgTapped \/ down)
        /\ UNCHANGED <<phase, hw, focus, level, owed, sent, doubled, missed>>
    BY DEF Deliver, KeyDown, past
  <1>2. /\ queue' \in Seq(Messages) /\ (Reported => Reported' \/ down)
        /\ Reported' \/ down => Reported
    BY <1>1, Delivered DEF KeyTypes
  <1>3. down \in BOOLEAN
    OBVIOUS
  <1> HIDE DEF down
  <1>4. KeyTypes'
    BY <1>1, <1>2, <1>3 DEF KeyTypes
  <1>5. Reports'
    BY <1>1, <1>2 DEF Reports
  <1>6. LateReports' /\ OnePressOneToggle'
    BY <1>1 DEF LateReports, OnePressOneToggle
  <1> QED BY <1>4, <1>5, <1>6

\* The poll answers what is reported and what is held, once.
LEMMA PollKeeps ==
    ASSUME KeyInv, Poll
    PROVE  KeyInv'
  <1> USE DEF KeyInv
  <1> DEFINE down  == focus /\ (MsgDownNow \/ hw)
             press == ~level /\ focus /\ (MsgDownNow \/ hw \/ msgTapped)
             rest  == IF press /\ owed > 0 THEN owed - 1 ELSE owed
  <1>1. down \in BOOLEAN /\ MsgDownNow \in BOOLEAN /\ press \in BOOLEAN /\ (Presses(down) <=> press)
    BY DEF KeyTypes, Presses, Tapped, MsgDownNow
  <1>2. /\ phase = "poll" /\ phase' = "read"
        /\ msgDown' = MsgDownNow /\ msgTapped' = FALSE /\ level' = down
        /\ owed' = IF Reported THEN rest ELSE 0
        /\ sent' = (sent /\ Reported)
        /\ doubled' = (press /\ owed = 0)
        /\ missed' = (Due /\ ~press)
        /\ UNCHANGED <<hw, focus, queue>>
    BY <1>1 DEF Poll, typedKey
  <1>3. Reported' <=> Reported
    BY <1>2 DEF Reported
  <1>4. press => owed > 0
    BY DEF Reports, MsgDownNow
  <1>5. Due => press
    BY Unreported DEF Due, Reports
  <1>6. rest \in Nat /\ (Reported /\ ~down => rest > 0)
    <2>1. rest \in Nat
      BY DEF KeyTypes
    <2>2. CASE press
      BY <1>2, <1>4, <2>2 DEF LateReports, KeyTypes
    <2>3. CASE ~press
      <3>1. rest = owed
        BY <2>3
      <3>2. Reported => owed > 0
        BY <1>2 DEF LateReports
      <3> QED BY <2>1, <3>1, <3>2
    <2> QED BY <2>1, <2>2, <2>3
  <1>7. KeyTypes'
    BY <1>1, <1>2, <1>6 DEF KeyTypes, Reported
  <1>8. Reports'
    <2>1. MsgDownNow => focus
      BY DEF MsgDownNow
    <2>2. owed' = IF Reported THEN rest ELSE 0
      BY <1>2
    <2>3. (hw /\ focus) \/ MsgDownNow => down
      BY <2>1
    <2> HIDE DEF down, rest, press
    <2>4. Reported /\ ~down => owed' > 0
      BY <1>6, <2>2
    <2> QED BY <1>2, <1>3, <2>3, <2>4 DEF Reports
  <1>9. LateReports'
    BY <1>2 DEF LateReports
  <1>10. OnePressOneToggle'
    <2>1. ~(press /\ owed = 0) /\ ~(Due /\ ~press)
      BY <1>4, <1>5 DEF KeyTypes
    <2> HIDE DEF press
    <2>2. ~doubled' /\ ~missed'
      BY <1>2, <2>1
    <2> QED BY <2>2 DEF OnePressOneToggle
  <1> QED BY <1>7, <1>8, <1>9, <1>10

\* What has no part in the menu key.
LEMMA OthersKeep ==
    ASSUME KeyInv,
           \/ TypeKey \/ Pumped \/ DrawMenu \/ UNCHANGED keyVars
           \/ \E r \in Routes : Read(r)
    PROVE  KeyInv'
  <1> USE DEF KeyInv
  <1>1. /\ UNCHANGED <<hw, focus, queue, level, msgDown, msgTapped, owed, sent, doubled, missed>>
        /\ phase' \in {"pump", "poll", "read", "draw"}
        /\ phase' = "poll" => phase = "poll" \/ queue = <<>>
    BY DEF TypeKey, Pumped, DrawMenu, Read, keyVars, menuKey, typedKey, past, KeyTypes
  <1>2. Reported' <=> Reported
    BY <1>1 DEF Reported
  <1>3. KeyTypes'
    BY <1>1 DEF KeyTypes
  <1>4. Reports' /\ OnePressOneToggle'
    BY <1>1, <1>2 DEF Reports, OnePressOneToggle
  <1>5. LateReports'
    BY <1>1, <1>2, Unreported DEF LateReports
  <1> QED BY <1>3, <1>4, <1>5

\* A press of the menu key toggles the menu once, whichever ways report it and
\* however late (menu_key.h:2-13, 27-43), as long as no repeat of a held key
\* comes between the messages and the poll of a round.
THEOREM PressTogglesOnce ==
    ASSUME ~LateRepeats
    PROVE  KeysSpec => []OnePressOneToggle
  <1>1. KeysInit => KeyInv
    <2> SUFFICES ASSUME KeysInit PROVE KeyInv
      OBVIOUS
    <2>1. ~Reported
      BY Unreported DEF KeysInit
    <2>2. KeyTypes
      <3>1. queue \in Seq(Messages)
        BY DEF KeysInit
      <3>2. /\ phase = "pump" /\ owed = 0 /\ hw = FALSE /\ focus = TRUE /\ level = FALSE
            /\ msgDown = FALSE /\ msgTapped = FALSE /\ sent = FALSE
        BY DEF KeysInit
      <3> QED BY <3>1, <3>2 DEF KeyTypes
    <2>3. Reports /\ LateReports /\ OnePressOneToggle
      BY <2>1 DEF KeysInit, Reports, LateReports, OnePressOneToggle
    <2> QED BY <2>2, <2>3 DEF KeyInv
  <1>2. KeyInv /\ [KeysNext]_keyVars => KeyInv'
    BY PressKeeps, RepeatKeeps, ReleaseKeeps, GainFocusKeeps, DeliverKeeps, PollKeeps, OthersKeep
       DEF KeysNext, Loop
  <1>3. KeyInv => OnePressOneToggle
    BY DEF KeyInv
  <1> QED BY <1>1, <1>2, <1>3, PTL DEF KeysSpec

-------------------------------------------------------------------------------
(* The keys typed into the menu. *)

\* A key typed into a field stays held back until it is up; a read that a field
\* refused has held every key back, and was not one that saw the key.
TypedInv ==
    /\ typed \in BOOLEAN /\ heldBack \in [Routes -> BOOLEAN]
    /\ blocked => \A r \in Routes : heldBack[r]
    /\ intoField => typed /\ \A r \in Routes : heldBack[r]
    /\ seen => ~intoField /\ ~blocked

\* What is typed into a field of the menu never reaches the game
\* (typing_block.h:2-13), if the game reads its keyboard in one way.
THEOREM TypedNeverReaches ==
    ASSUME NEW route, Routes = {route}
    PROVE  KeysSpec => []TypedStaysInMenu
  <1>1. KeysInit => TypedInv
    BY DEF KeysInit, TypedInv
  <1>2. TypedInv /\ [KeysNext]_keyVars => TypedInv'
    <2> SUFFICES ASSUME TypedInv, [KeysNext]_keyVars PROVE TypedInv'
      OBVIOUS
    <2>1. CASE TypeKey
      BY <2>1 DEF TypeKey, TypedInv
    <2>2. CASE Read(route)
      <3>1. heldBack' = [heldBack EXCEPT ![route] = HeldNow(route)] /\ HeldNow(route) \in BOOLEAN
        BY <2>2 DEF Read, HeldNow, TypedInv
      <3>2. heldBack' \in [Routes -> BOOLEAN] /\ heldBack'[route] = HeldNow(route)
        BY <3>1 DEF TypedInv
      <3>3. /\ seen' = Sees(route) /\ blocked' = Typing
            /\ UNCHANGED <<typed, intoField>>
        BY <2>2 DEF Read
      <3>4. intoField => typed /\ heldBack[route]
        BY DEF TypedInv
      <3>5. Typing => HeldNow(route)
        BY DEF HeldNow
      <3>6. intoField => HeldNow(route)
        BY <3>4 DEF HeldNow
      <3>7. Sees(route) => ~Typing /\ ~intoField
        BY <3>4 DEF Sees
      <3> QED BY <3>2, <3>3, <3>4, <3>5, <3>6, <3>7 DEF TypedInv
    <2>3. CASE UNCHANGED typedKey
      BY <2>3 DEF typedKey, TypedInv
    <2>4. CASE DrawMenu
      BY <2>4 DEF DrawMenu, TypedInv
    <2>5. CASE Press \/ Repeat \/ Release \/ LoseFocus \/ GainFocus \/ Deliver \/ Pumped \/ Poll
               \/ UNCHANGED keyVars
      <3>1. UNCHANGED typedKey
        <4>1. CASE Press \/ Repeat \/ Release \/ LoseFocus \/ GainFocus
          BY <4>1 DEF Press, Repeat, Release, LoseFocus, GainFocus
        <4>2. CASE Deliver \/ Pumped \/ Poll
          BY <4>2 DEF Deliver, Pumped, Poll
        <4>3. CASE UNCHANGED keyVars
          BY <4>3 DEF keyVars, typedKey
        <4> QED BY <2>5, <4>1, <4>2, <4>3
      <3> QED BY <3>1, <2>3
    <2> QED BY <2>1, <2>2, <2>4, <2>5 DEF KeysNext, Loop
  <1>3. TypedInv => TypedStaysInMenu
    BY DEF TypedInv, TypedStaysInMenu
  <1> QED BY <1>1, <1>2, <1>3, PTL DEF KeysSpec

-------------------------------------------------------------------------------
(* Sizes. *)

\* A set of natural numbers has a least element, and Min is that.
LEMMA MinIs ==
    ASSUME NEW S, S \subseteq Nat, S # {}
    PROVE  Min(S) \in S
  <1> DEFINE R == OpToRel(<, Nat)
  <1>1. IsWellFoundedOn(R, Nat)
    BY NatLessThanWellFounded
  <1>2. PICK x \in S : \A y \in S : <<y, x>> \notin R
    <2> HIDE DEF R
    <2> QED BY <1>1, WFMin
  <1>3. \A y \in S : ~(y < x)
    BY <1>2 DEF OpToRel
  <1>4. \A y \in S : x <= y
    BY <1>3
  <1> QED BY <1>4 DEF Min

\* The larger and the smaller of two numbers.
LEMMA OfTwo ==
    ASSUME NEW a \in Int, NEW b \in Int
    PROVE  /\ Max({a, b}) = IF a >= b THEN a ELSE b
           /\ Min({a, b}) = IF a <= b THEN a ELSE b
  BY DEF Max, Min

-------------------------------------------------------------------------------
(* The window. *)

Thick == [caption |-> TRUE, thick |-> TRUE, popup |-> FALSE]
Styles == {Windowed, Thick, Full}

Outline == [style : Styles, outer : Int, wanted : Int, own : BOOLEAN, saved : {Windowed, Thick},
           active : BOOLEAN, scaled : BOOLEAN, scale : Nat]

\* The window's class is the game's or that of the patch's own full screen, ...
OfClass(w) ==
    /\ w \in Outline
    /\ w.own => w.style = Full /\ ~gameFull
    /\ ~w.own => (w.style = Full <=> gameFull)

\* ... and one with a frame has the size last asked for.
Asked(w) == w.style # Full => w.outer - Pad(w.style) = w.wanted

\* The styles a window may have, and how much each adds.
LEMMA StyleFacts ==
    /\ Windowed # Full /\ Thick # Full
    /\ Pad(Windowed) = 1 /\ Pad(Thick) = 2 /\ Pad(Full) = 0
    /\ [Windowed EXCEPT !.thick = TRUE] = Thick /\ [Thick EXCEPT !.thick = TRUE] = Thick
    /\ \A st \in Styles :
        /\ st # Full => st \in {Windowed, Thick} /\ st.caption /\ ~st.popup
        /\ st = Full => ~st.caption /\ st.popup /\ ~st.thick
        /\ st = Thick => st.thick
        /\ Pad(st) \in Int
  <1>1. Windowed.caption = TRUE /\ Windowed.thick = FALSE /\ Windowed.popup = FALSE
    BY DEF Windowed
  <1>2. Thick.caption = TRUE /\ Thick.thick = TRUE /\ Thick.popup = FALSE
    BY DEF Thick
  <1>3. Full.caption = FALSE /\ Full.thick = FALSE /\ Full.popup = TRUE
    BY DEF Full
  <1>4. [Windowed EXCEPT !.thick = TRUE] = Thick /\ [Thick EXCEPT !.thick = TRUE] = Thick
    <2> DEFINE frames == [caption : BOOLEAN, thick : BOOLEAN, popup : BOOLEAN]
    <2>1. Windowed \in frames /\ Thick \in frames
      BY DEF Windowed, Thick
    <2>2. \A x \in frames : /\ [x EXCEPT !.thick = TRUE] \in frames
                            /\ [x EXCEPT !.thick = TRUE].thick = TRUE
                            /\ [x EXCEPT !.thick = TRUE].caption = x.caption
                            /\ [x EXCEPT !.thick = TRUE].popup = x.popup
      OBVIOUS
    <2>3. \A x, y \in frames :
            x.thick = y.thick /\ x.caption = y.caption /\ x.popup = y.popup => x = y
      OBVIOUS
    <2>4. PICK x \in frames : x = Windowed
      BY <2>1
    <2>5. PICK y \in frames : y = Thick
      BY <2>1
    <2> HIDE DEF frames
    <2>6. [x EXCEPT !.thick = TRUE] = y
      <3>1. x.caption = y.caption /\ x.popup = y.popup /\ y.thick = TRUE
        BY <1>1, <1>2, <2>4, <2>5
      <3>2. PICK z \in frames : z = [x EXCEPT !.thick = TRUE]
        BY <2>2
      <3>3. z.thick = TRUE /\ z.caption = x.caption /\ z.popup = x.popup
        BY <2>2, <3>2
      <3> QED BY <2>3, <3>1, <3>2, <3>3
    <2>7. [y EXCEPT !.thick = TRUE] = y
      BY ZenonT(40), <1>2, <2>2, <2>3, <2>5
    <2> QED BY <2>4, <2>5, <2>6, <2>7
  <1>5. Pad(Windowed) = 1 /\ Pad(Thick) = 2 /\ Pad(Full) = 0
    BY <1>1, <1>2, <1>3 DEF Pad
  <1> QED BY <1>1, <1>2, <1>3, <1>4, <1>5 DEF Styles

\* game_fullscreen tells the game's own full screen from the patch's.
LEMMA FullscreenIs ==
    ASSUME NEW w, OfClass(w)
    PROVE  GameFullscreen(w) <=> ~w.own /\ w.style = Full
  BY StyleFacts DEF GameFullscreen, OfClass, Outline

\* window_apply_scale gives the size asked for and changes nothing else.
LEMMA ScaledWindow ==
    ASSUME NEW w, OfClass(w), NEW scale \in Nat
    PROVE  /\ OfClass(Scaled(w, scale)) /\ Asked(Scaled(w, scale))
           /\ Scaled(w, scale).style = w.style /\ Scaled(w, scale).own = w.own
           /\ Scaled(w, scale).active = w.active
  <1> DEFINE room == WorkArea - Pad(w.style)
             want == IF scale = Largest THEN Native * Max({room \div Native, 1}) ELSE scale
             most == Max({want, Native \div 4})
             size == Min({room, most})
  <1>1. w \in Outline /\ Pad(w.style) \in Int /\ WorkArea \in Nat /\ Native \in Int
    <2>1. w \in Outline /\ w.style \in Styles
      BY DEF OfClass, Outline
    <2> QED BY <2>1, StyleFacts, WindowConstants DEF Native
  <1>2. room \in Int /\ room \div Native \in Int /\ Native \div 4 \in Int
    BY <1>1 DEF Native
  <1>3. Max({room \div Native, 1}) \in Int
    <2> HIDE DEF room
    <2> QED BY <1>2, OfTwo
  <1>4. want \in Int
    BY <1>1, <1>3 DEF Largest
  <1>5. most \in Int
    <2> HIDE DEF want
    <2> QED BY <1>2, <1>4, OfTwo
  <1>6. size \in Int
    <2> HIDE DEF most, room
    <2> QED BY <1>2, <1>5, OfTwo
  <1>7. Scaled(w, scale) = [w EXCEPT !.outer = size + Pad(w.style), !.wanted = size]
    BY DEF Scaled
  <1> HIDE DEF size
  <1>8. size + Pad(w.style) \in Int
    BY <1>1, <1>6
  <1>9. /\ Scaled(w, scale) \in Outline
        /\ Scaled(w, scale).outer = size + Pad(w.style) /\ Scaled(w, scale).wanted = size
        /\ Scaled(w, scale).style = w.style /\ Scaled(w, scale).own = w.own
        /\ Scaled(w, scale).active = w.active
    <2> DEFINE o == size + Pad(w.style)
               v == [w EXCEPT !.outer = o, !.wanted = size]
    <2>1. /\ v \in Outline /\ v.outer = o /\ v.wanted = size
          /\ v.style = w.style /\ v.own = w.own /\ v.active = w.active
      <3> HIDE DEF o
      <3>1. o \in Int /\ size \in Int /\ w \in Outline
        BY <1>1, <1>6, <1>8 DEF o
      <3> QED BY <3>1 DEF Outline
    <2>2. Scaled(w, scale) = v
      BY <1>7
    <2> HIDE DEF v
    <2> QED BY <2>1, <2>2
  <1> QED BY <1>1, <1>6, <1>9 DEF OfClass, Asked

\* window_cycle_size: the patch's own full screen is entered from the window and
\* left for the smallest of the sizes.
LEMMA CycledWindow ==
    ASSUME NEW w, OfClass(w), Asked(w)
    PROVE  OfClass(Cycled(w)) /\ Asked(Cycled(w))
  <1> DEFINE next == {p \in Presets : p > w.outer - Pad(w.style) /\ p <= WorkArea - Pad(w.style)}
             To(v, p) == Scaled([v EXCEPT !.scale = p], p)
  <1>1. w \in Outline
    BY DEF OfClass
  <1>2. ASSUME NEW v, OfClass(v), NEW p \in Nat
        PROVE  OfClass(To(v, p)) /\ Asked(To(v, p))
    <2>1. OfClass([v EXCEPT !.scale = p])
      BY <1>2 DEF OfClass, Outline
    <2> QED BY <2>1, ScaledWindow
  <1>3. CASE GameFullscreen(w)
    <2>1. Cycled(w) = w
      BY <1>3 DEF Cycled, GameFullscreen
    <2> QED BY <2>1
  <1>4. CASE ~GameFullscreen(w) /\ w.own
    <2>1. Cycled(w) = To(LeaveOwn(w), Min(Presets))
      BY <1>4 DEF Cycled
    <2>2. Min(Presets) \in Nat
      BY MinIs, WindowConstants
    <2>3. OfClass(LeaveOwn(w))
      <3>1. LeaveOwn(w) \in Outline /\ LeaveOwn(w).own = FALSE /\ LeaveOwn(w).style = w.saved
        BY <1>1 DEF LeaveOwn, Outline, Styles
      <3>2. w.saved # Full /\ ~gameFull
        BY <1>1, <1>4, StyleFacts DEF OfClass, Outline
      <3> QED BY <3>1, <3>2 DEF OfClass
    <2> HIDE DEF To
    <2> QED BY <1>2, <2>1, <2>2, <2>3
  <1>5. CASE ~GameFullscreen(w) /\ ~w.own /\ next # {}
    <2>1. Cycled(w) = To(w, Min(next))
      BY <1>5 DEF Cycled
    <2>2. Min(next) \in Nat
      <3>1. next \subseteq Nat
        BY WindowConstants
      <3> HIDE DEF next
      <3> QED BY <1>5, <3>1, MinIs
    <2> HIDE DEF To
    <2> QED BY <1>2, <2>1, <2>2
  <1>6. CASE ~GameFullscreen(w) /\ ~w.own /\ ~(next # {})
    <2>1. Cycled(w) = EnterOwn(w)
      BY <1>6 DEF Cycled
    <2>2. EnterOwn(w) = [w EXCEPT !.own = TRUE, !.saved = w.style, !.style = Full]
      BY DEF EnterOwn, Full
    <2>3. w.style # Full /\ w.style \in {Windowed, Thick} /\ ~gameFull
      BY <1>1, <1>6, FullscreenIs, StyleFacts DEF OfClass, Outline
    <2>4. EnterOwn(w) \in Outline /\ EnterOwn(w).own = TRUE /\ EnterOwn(w).style = Full
      <3> HIDE DEF Full, Windowed, Thick
      <3> QED BY <1>1, <2>2, <2>3 DEF Outline, Styles
    <2> QED BY <2>1, <2>3, <2>4 DEF OfClass, Asked
  <1> QED BY <1>3, <1>4, <1>5, <1>6

\* window_enforce, of a window that is neither minimised nor another renderer's.
LEMMA EnforcedWindow ==
    ASSUME NEW w, OfClass(w), Asked(w), ~external, ~minimized, conf.resizable \in BOOLEAN
    PROVE  LET e == Enforced(w) IN
           /\ OfClass(e) /\ Asked(e)
           /\ WantsBorderless(w) => e.outer = Screen /\ e.active
           /\ ~WantsBorderless(w) =>
                /\ ~e.active
                /\ e.style # Full /\ conf.resizable => e.style.thick
           /\ e.own = w.own /\ (e.style = Full <=> w.style = Full)
  <1> DEFINE e == Enforced(w)
  <1>1. w \in Outline /\ Screen \in Nat
    BY WindowConstants DEF OfClass
  <1>2. CASE WantsBorderless(w)
    <2>1. e = [w EXCEPT !.active = TRUE, !.outer = Screen]
      BY <1>2 DEF Enforced
    <2>2. e \in Outline /\ e.outer = Screen /\ e.active = TRUE /\ e.style = w.style /\ e.own = w.own
      <3>1. Screen \in Int
        BY <1>1
      <3> HIDE DEF e
      <3> QED BY <1>1, <2>1, <3>1 DEF Outline
    <2>3. w.style = Full
      BY <1>2, FullscreenIs DEF WantsBorderless, OfClass
    <2> HIDE DEF e
    <2>4. OfClass(e) /\ Asked(e)
      BY <2>2, <2>3 DEF OfClass, Asked
    <2> QED BY <1>2, <2>2, <2>4 DEF e
  <1>3. CASE ~WantsBorderless(w)
    <2> DEFINE v == [w EXCEPT !.active = FALSE]
               b == Bordered(v)
    <2>1. e = Started(b)
      BY <1>3 DEF Enforced
    <2>2. /\ v \in Outline /\ v.active = FALSE /\ v.style = w.style /\ v.own = w.own
          /\ v.outer = w.outer /\ v.wanted = w.wanted
      BY <1>1 DEF Outline
    <2>3. OfClass(v) /\ Asked(v) /\ ~v.own
      BY <1>3, <2>2 DEF OfClass, Asked, WantsBorderless
    <2>4. GameFullscreen(v) <=> v.style = Full
      BY <2>3, FullscreenIs
    <2> HIDE DEF v
    <2>5. /\ OfClass(b) /\ Asked(b) /\ b.active = FALSE /\ b.own = v.own
          /\ b.style = Full <=> v.style = Full
          /\ b.style # Full /\ conf.resizable => b.style.thick
      <3>1. CASE conf.resizable /\ v.style # Full
        <4> DEFINE o == v.outer - Pad(v.style) + Pad(Thick)
        <4>1. v.style \in {Windowed, Thick}
          BY <2>2, <3>1, StyleFacts DEF Outline
        <4>2. [v.style EXCEPT !.thick = TRUE] = Thick
          BY <4>1, StyleFacts
        <4>3. b = [v EXCEPT !.style = Thick, !.outer = o]
          BY <2>4, <3>1, <4>2 DEF Bordered
        <4>4. o \in Int /\ v.outer \in Int
          BY <2>2, <4>1, StyleFacts DEF Outline
        <4>5. o - Pad(Thick) = v.outer - Pad(v.style)
          BY <4>1, <4>4, StyleFacts
        <4> HIDE DEF o, b
        <4>6. /\ b \in Outline /\ b.style = Thick /\ b.outer = o /\ b.wanted = v.wanted
              /\ b.own = v.own /\ b.active = v.active
          BY <2>2, <4>3, <4>4 DEF Outline, Styles
        <4>7. ~gameFull /\ b.own = FALSE /\ Thick # Full /\ Thick.thick
          BY <2>3, <3>1, <4>6, StyleFacts DEF OfClass, Thick
        <4>8. OfClass(b)
          BY <4>6, <4>7 DEF OfClass
        <4>9. Asked(b)
          BY <2>3, <3>1, <4>5, <4>6 DEF Asked
        <4> QED BY <2>2, <3>1, <4>6, <4>7, <4>8, <4>9
      <3>2. CASE ~(conf.resizable /\ v.style # Full)
        <4>1. b = v
          BY <2>4, <3>2 DEF Bordered
        <4> HIDE DEF b
        <4> QED BY <2>2, <2>3, <3>2, <4>1
      <3> QED BY <3>1, <3>2
    <2> HIDE DEF b
    <2>6. /\ OfClass(e) /\ Asked(e) /\ e.active = b.active /\ e.own = b.own /\ e.style = b.style
      <3>1. CASE b.scaled \/ GameFullscreen(b)
        BY <2>1, <2>5, <3>1 DEF Started
      <3>2. CASE ~(b.scaled \/ GameFullscreen(b))
        <4> DEFINE s == [b EXCEPT !.scaled = TRUE]
        <4>1. e = IF b.scale = Leave THEN s ELSE Scaled(s, b.scale)
          BY <2>1, <3>2 DEF Started
        <4>2. /\ s \in Outline /\ s.active = b.active /\ s.style = b.style /\ s.own = b.own
              /\ s.outer = b.outer /\ s.wanted = b.wanted /\ b.scale \in Nat
          BY <2>5 DEF OfClass, Outline
        <4> HIDE DEF s, e
        <4>3. OfClass(s) /\ Asked(s)
          BY <2>5, <4>2 DEF OfClass, Asked
        <4>4. CASE b.scale = Leave
          BY <4>1, <4>2, <4>3, <4>4
        <4>5. CASE b.scale # Leave
          <5>1. PICK scale \in Nat : scale = b.scale
            BY <4>2
          <5>2. /\ OfClass(Scaled(s, scale)) /\ Asked(Scaled(s, scale))
                /\ Scaled(s, scale).style = s.style /\ Scaled(s, scale).own = s.own
                /\ Scaled(s, scale).active = s.active
            BY <4>3, ScaledWindow
          <5> QED BY <4>1, <4>2, <4>5, <5>1, <5>2
        <4> QED BY <4>4, <4>5
      <3> QED BY <3>1, <3>2
    <2> HIDE DEF e
    <2> QED BY <1>3, <2>2, <2>5, <2>6 DEF e
  <1> QED BY <1>2, <1>3

-------------------------------------------------------------------------------
(* The window, the pointer and the frame. *)

Settings == [resizable : BOOLEAN, mode : {GameFs, Borderless}, scale : Nat, pointer : Pointers]

\* The window's parts, as Now puts them together.
Shaped ==
    /\ style \in Styles /\ outer \in Int /\ wanted \in Int /\ own \in BOOLEAN
    /\ saved \in {Windowed, Thick} /\ active \in BOOLEAN /\ scaled \in BOOLEAN
    /\ own => style = Full /\ ~gameFull
    /\ ~own => (style = Full <=> gameFull)
    /\ style # Full => outer - Pad(style) = wanted

\* Windows' count has the sign of what was last wanted.
Counted == shownNow \in BOOLEAN /\ winCount \in {-1, 0} /\ (shownNow <=> winCount = 0)

ShapeInv ==
    /\ conf \in Settings /\ minimized \in BOOLEAN /\ external \in BOOLEAN /\ gameFull \in BOOLEAN
    /\ Shaped /\ Counted /\ WindowAsAsked

\* The window as one record.
LEMMA NowIs == conf \in Settings => (Shaped <=> OfClass(Now) /\ Asked(Now))
  <1> SUFFICES ASSUME conf \in Settings PROVE Shaped <=> OfClass(Now) /\ Asked(Now)
    OBVIOUS
  <1>1. /\ Now.style = style /\ Now.outer = outer /\ Now.wanted = wanted /\ Now.own = own
        /\ Now.saved = saved /\ Now.active = active /\ Now.scaled = scaled
    BY DEF Now
  <1>2. Now \in Outline <=> /\ style \in Styles /\ outer \in Int /\ wanted \in Int /\ own \in BOOLEAN
                           /\ saved \in {Windowed, Thick} /\ active \in BOOLEAN
                           /\ scaled \in BOOLEAN
    BY DEF Now, Outline, Settings
  <1> QED BY <1>1, <1>2 DEF Shaped, OfClass, Asked

\* cursor_apply: the count has the sign that is wanted.
LEMMA PointerApplied ==
    ASSUME Counted, NEW want \in BOOLEAN, Applied(want)
    PROVE  Counted' /\ ((winCount' >= 0) <=> want)
  <1>1. Max({winCount + 1, 0}) = IF winCount = 0 THEN 1 ELSE 0
    <2>1. winCount + 1 \in Int
      BY DEF Counted
    <2> QED BY <2>1, OfTwo DEF Counted
  <1>2. Min({winCount - 1, -1}) = IF winCount = 0 THEN -1 ELSE -2
    <2>1. PICK a \in Int : a = winCount - 1
      BY DEF Counted
    <2>2. PICK b \in Int : b = -1
      OBVIOUS
    <2>3. Min({a, b}) = IF a <= b THEN a ELSE b
      BY OfTwo
    <2>4. Min({winCount - 1, -1}) = IF a <= b THEN a ELSE b
      BY <2>1, <2>2, <2>3
    <2> QED BY <2>1, <2>2, <2>4 DEF Counted
  <1>3. shownNow' = want
    BY DEF Applied
  <1>4. winCount' = IF want THEN 0 ELSE -1
    BY <1>1, <1>2 DEF Applied, Counted
  <1> QED BY <1>3, <1>4 DEF Counted

\* What does not come at the start of a frame leaves the property to the next.
LEMMA NotFresh ==
    ASSUME Counted', fresh' = FALSE
    PROVE  WindowAsAsked'
  BY DEF WindowAsAsked, Counted

\* window_pump, once a frame, leaves the window as it was asked to be.
LEMMA FrameKeeps ==
    ASSUME ShapeInv, NEW cycle \in BOOLEAN, NEW toggle \in BOOLEAN, Upkeep(cycle, toggle)
    PROVE  ShapeInv'
  <1> USE DEF ShapeInv
  <1> DEFINE set == IF rescale /\ ~active THEN Scaled(Now, conf.scale) ELSE Now
             v == IF cycle THEN Cycled(set) ELSE set
             w == Enforced(v)
  <1>1. OfClass(set) /\ Asked(set)
    <2>1. OfClass(Now) /\ Asked(Now)
      BY NowIs
    <2>2. PICK scale \in Nat : scale = conf.scale
      BY DEF Settings
    <2>3. OfClass(Scaled(Now, scale)) /\ Asked(Scaled(Now, scale))
      BY <2>1, ScaledWindow
    <2> QED BY <2>1, <2>2, <2>3
  <1>2. OfClass(v) /\ Asked(v)
    <2> HIDE DEF set
    <2>1. OfClass(Cycled(set)) /\ Asked(Cycled(set))
      BY <1>1, CycledWindow
    <2> QED BY <1>1, <2>1
  <1>3. /\ style' = w.style /\ outer' = w.outer /\ wanted' = w.wanted /\ own' = w.own
        /\ saved' = w.saved /\ active' = w.active /\ scaled' = w.scaled
        /\ conf' = [conf EXCEPT !.scale = w.scale] /\ fresh' = TRUE
        /\ Applied(Want(menu', count, w.active, moved))
        /\ UNCHANGED <<external, gameFull, minimized, moved, count>>
    BY DEF Upkeep, Becomes
  <1> HIDE DEF v
  <1>4. OfClass(w) /\ Asked(w)
    <2>1. CASE external \/ minimized
      BY <1>2, <2>1 DEF Enforced
    <2>2. CASE ~external /\ ~minimized
      BY <1>2, <2>2, EnforcedWindow DEF Settings
    <2> QED BY <2>1, <2>2
  <1>5. /\ ~external /\ ~minimized /\ WantsBorderless(v) => w.outer = Screen /\ w.active
        /\ ~external /\ ~minimized /\ ~WantsBorderless(v) =>
             /\ ~w.active
             /\ w.style # Full /\ conf.resizable => w.style.thick
        /\ ~external /\ ~minimized => w.own = v.own /\ (w.style = Full <=> v.style = Full)
    BY <1>2, EnforcedWindow DEF Settings
  <1> HIDE DEF w
  <1>6. conf' \in Settings /\ conf'.mode = conf.mode /\ conf'.resizable = conf.resizable
        /\ conf'.pointer = conf.pointer
    BY <1>3, <1>4 DEF Settings, OfClass, Outline
  <1>7. Shaped'
    BY <1>3, <1>4 DEF Shaped, OfClass, Asked, Outline
  <1>8. Counted' /\ ((winCount' >= 0) <=> Want(menu', count, w.active, moved))
    BY <1>3, PointerApplied DEF Want
  <1>9. ~external /\ ~minimized => ShapeAsAsked'
    <2> SUFFICES ASSUME ~external, ~minimized PROVE ShapeAsAsked'
      OBVIOUS
    <2>1. WantsBorderless(v) <=> v.own \/ (conf.mode = Borderless /\ ~v.own /\ v.style = Full)
      BY <1>2, FullscreenIs DEF WantsBorderless
    <2>2. GameFullscreen(Now)' <=> ~own' /\ style' = Full
      BY <1>7, StyleFacts DEF GameFullscreen, Now, Shaped
    <2>3. WantsBorderless(Now)' <=> own' \/ (conf'.mode = Borderless /\ ~own' /\ style' = Full)
      <3>1. WantsBorderless(Now)' <=> own' \/ (conf'.mode = Borderless /\ GameFullscreen(Now)')
        BY DEF WantsBorderless, Now
      <3> QED BY <2>2, <3>1
    <2>4. WantsBorderless(Now)' <=> WantsBorderless(v)
      BY <1>3, <1>5, <1>6, <2>1, <2>3
    <2>5. WantsBorderless(Now)' => outer' = Screen /\ active' /\ Pad(style') = 0
      <3>1. WantsBorderless(Now)' => style' = Full
        BY <1>7, <2>3 DEF Shaped
      <3> QED BY <1>3, <1>5, <2>4, <3>1, StyleFacts
    <2>6. ~WantsBorderless(Now)' => ~active'
      BY <1>3, <1>5, <2>4
    <2>7. style'.caption => style' # Full /\ Client' = wanted'
      BY <1>7, StyleFacts DEF Shaped, Client
    <2>8. style'.caption /\ conf'.resizable => style'.thick
      <3>1. style' # Full => ~WantsBorderless(v)
        BY <1>7, <2>3, <2>4 DEF Shaped
      <3> QED BY <1>3, <1>5, <1>6, <2>7, <3>1
    <2>9. ~own' => (GameFullscreen(Now)' <=> gameFull')
      BY <1>7, <2>2 DEF Shaped
    <2>10. gameFull' \in BOOLEAN /\ GameFullscreen(Now)' \in BOOLEAN
      BY <1>3 DEF GameFullscreen
    <2> QED BY <2>5, <2>6, <2>7, <2>8, <2>9, <2>10 DEF ShapeAsAsked
  <1>10. Want(menu', count, w.active, moved) <=> Want(menu, count, active, moved)'
    BY <1>3, <1>6 DEF Want
  <1>11. WindowAsAsked'
    <2>1. ((winCount >= 0) = Want(menu, count, active, moved))'
      <3> DEFINE shows == (winCount >= 0)'
                 wants == Want(menu, count, active, moved)'
      <3>1. shows <=> wants
        BY <1>8, <1>10
      <3>2. shows \in BOOLEAN /\ wants \in BOOLEAN
        BY <1>8 DEF Want, Counted
      <3> HIDE DEF shows, wants
      <3>3. shows = wants
        BY <3>1, <3>2
      <3> QED BY <3>3 DEF shows, wants
    <2> QED BY <1>3, <1>8, <1>9, <2>1 DEF WindowAsAsked, Counted
  <1> QED BY <1>3, <1>6, <1>7, <1>8, <1>11

\* The game's reset, which the patch's own full screen keeps it from.
LEMMA GameResetsKeeps ==
    ASSUME ShapeInv, Surprises = {}, NEW full \in BOOLEAN, GameResets(full)
    PROVE  ShapeInv'
  <1> USE DEF ShapeInv
  <1>1. /\ ~own /\ gameFull' = full /\ wanted' = Native
        /\ style' = (IF full THEN Full ELSE Windowed) /\ outer' = Native + Pad(style')
        /\ fresh' = FALSE
        /\ UNCHANGED <<conf, external, own, saved, active, scaled, minimized, shownNow, winCount>>
    BY DEF GameResets, pointer, Shaped
  <1>2. outer' \in Int /\ wanted' \in Int /\ outer' - Pad(style') = wanted'
    BY <1>1, StyleFacts DEF Native
  <1>3. style' \in Styles /\ (style' = Full <=> full)
    BY <1>1, StyleFacts DEF Styles
  <1>4. Shaped'
    BY <1>1, <1>2, <1>3 DEF Shaped
  <1>5. Counted'
    BY <1>1 DEF Counted
  <1> QED BY <1>1, <1>4, <1>5, NotFresh

\* A drag of the border.
LEMMA ResizesKeeps ==
    ASSUME ShapeInv, NEW size \in Nat, Resizes(size)
    PROVE  ShapeInv'
  <1> USE DEF ShapeInv
  <1>1. /\ style.thick /\ outer' = Max({size, Native \div 4 + Pad(style)})
        /\ wanted' = outer' - Pad(style) /\ fresh' = FALSE
        /\ UNCHANGED <<conf, external, gameFull, style, own, saved, active, scaled, minimized,
                       shownNow, winCount>>
    BY DEF Resizes, pointer
  <1>2. outer' \in Int /\ Pad(style) \in Int
    <2>1. Pad(style) \in Int
      BY StyleFacts DEF Shaped
    <2>2. PICK least \in Int : least = Native \div 4 + Pad(style)
      BY <2>1 DEF Native
    <2>3. Max({size, least}) \in Int
      BY OfTwo
    <2> QED BY <1>1, <2>1, <2>2, <2>3
  <1>3. wanted' \in Int
    BY <1>1, <1>2
  <1>4. Shaped'
    BY <1>1, <1>2, <1>3 DEF Shaped
  <1>5. Counted'
    BY <1>1 DEF Counted
  <1> QED BY <1>1, <1>4, <1>5, NotFresh

\* The pointer, which the game shows and hides and the mouse moves.
LEMMA PointerKeeps ==
    ASSUME ShapeInv,
           \/ \E show \in BOOLEAN : GameShowsCursor(show)
           \/ MouseMoves \/ MouseRests
    PROVE  ShapeInv'
  <1> USE DEF ShapeInv
  <1>1. UNCHANGED <<conf, external, shape, minimized>> /\ fresh' = FALSE
    BY DEF GameShowsCursor, MouseMoves, MouseRests
  <1>2. Counted'
    <2>1. ASSUME NEW show \in BOOLEAN, GameShowsCursor(show)
          PROVE  Counted'
      <3>1. Want(menu, count', active, moved) \in BOOLEAN
        BY DEF Want
      <3> QED BY <2>1, <3>1, PointerApplied DEF GameShowsCursor
    <2>2. CASE MouseMoves
      <3>1. Want(menu, count, active, TRUE) \in BOOLEAN
        BY DEF Want
      <3>2. Applied(Want(menu, count, active, TRUE)) \/ UNCHANGED <<shownNow, winCount>>
        BY <2>2 DEF MouseMoves
      <3>3. CASE Applied(Want(menu, count, active, TRUE))
        <4> DEFINE want == Want(menu, count, active, TRUE)
        <4> HIDE DEF want
        <4>1. want \in BOOLEAN /\ Applied(want)
          BY <3>1, <3>3 DEF want
        <4> QED BY <4>1, PointerApplied
      <3>4. CASE UNCHANGED <<shownNow, winCount>>
        BY <3>4 DEF Counted
      <3> QED BY <3>2, <3>3, <3>4
    <2>3. CASE MouseRests
      BY <2>3 DEF MouseRests, pointer, Counted
    <2> QED BY <2>1, <2>2, <2>3
  <1>3. Shaped' /\ gameFull' = gameFull
    BY <1>1 DEF shape, Shaped
  <1> QED BY <1>1, <1>2, <1>3, NotFresh

\* Minimising, and the menu's settings.
LEMMA SettingKeeps ==
    ASSUME ShapeInv, Minimizes \/ MenuSets
    PROVE  ShapeInv'
  <1> USE DEF ShapeInv
  <1>1. /\ UNCHANGED <<external, gameFull, style, outer, wanted, own, saved, active, scaled,
                       shownNow, winCount>>
        /\ fresh' = FALSE
    BY DEF Minimizes, MenuSets, shape, pointer
  <1>2. minimized' \in BOOLEAN
    BY DEF Minimizes, MenuSets
  <1>3. conf' \in Settings
    <2>1. ASSUME NEW p \in Pointers, conf' = [conf EXCEPT !.pointer = p]
          PROVE  conf' \in Settings
      BY <2>1 DEF Settings
    <2>2. CASE conf' = [conf EXCEPT !.resizable = ~@]
      BY <2>2 DEF Settings
    <2>3. ASSUME NEW m \in {GameFs, Borderless}, conf' = [conf EXCEPT !.mode = m]
          PROVE  conf' \in Settings
      BY <2>3 DEF Settings
    <2>4. ASSUME NEW s \in Scales, conf' = [conf EXCEPT !.scale = s]
          PROVE  conf' \in Settings
      BY <2>4, WindowConstants DEF Settings
    <2> QED BY <2>1, <2>2, <2>3, <2>4 DEF Minimizes, MenuSets
  <1>4. Shaped' /\ Counted'
    BY <1>1 DEF Shaped, Counted
  <1> QED BY <1>1, <1>2, <1>3, <1>4, NotFresh

\* At the start of every frame the window and the pointer are as they were asked
\* to be, whatever came since the last (window.c:1-11, 78-92, 250-252), as long
\* as the game does not reset its device under the patch's own full screen.
THEOREM WindowIsAsAsked ==
    ASSUME Surprises = {}
    PROVE  WindowSpec => []WindowAsAsked
  <1>1. WindowInit => ShapeInv
    <2> SUFFICES ASSUME WindowInit PROVE ShapeInv
      OBVIOUS
    <2>1. conf \in Settings
      BY WindowConstants DEF WindowInit, Settings
    <2>2. Shaped
      <3>1. /\ style = Windowed /\ saved = Windowed /\ wanted = Native
            /\ outer = Native + Pad(Windowed)
            /\ own = FALSE /\ active = FALSE /\ scaled = FALSE /\ gameFull = FALSE
        BY DEF WindowInit
      <3>2. outer \in Int /\ wanted \in Int /\ outer - Pad(style) = wanted
        BY <3>1, StyleFacts DEF Native
      <3>3. style \in Styles /\ style # Full
        BY <3>1, StyleFacts DEF Styles
      <3> QED BY <3>1, <3>2, <3>3 DEF Shaped
    <2>3. Counted
      BY DEF WindowInit, Counted
    <2>4. WindowAsAsked
      BY <2>3 DEF WindowInit, WindowAsAsked, Counted
    <2> QED BY <2>1, <2>2, <2>3, <2>4 DEF WindowInit, ShapeInv
  <1>2. ShapeInv /\ [WindowNext]_windowVars => ShapeInv'
    <2> SUFFICES ASSUME ShapeInv, [WindowNext]_windowVars PROVE ShapeInv'
      OBVIOUS
    <2>1. CASE UNCHANGED windowVars
      <3>1. WindowAsAsked' <=> WindowAsAsked
        BY <2>1 DEF windowVars, shape, pointer, WindowAsAsked, ShapeAsAsked, WantsBorderless,
                    GameFullscreen, Now, Client, Pad, Want
      <3> QED BY <2>1, <3>1 DEF windowVars, shape, pointer, ShapeInv, Shaped, Counted
    <2>2. ASSUME NEW size \in Drags \cup {WorkArea}, Resizes(size)
          PROVE  ShapeInv'
      BY <2>2, ResizesKeeps, WindowConstants
    <2> QED BY <2>1, <2>2, FrameKeeps, GameResetsKeeps, PointerKeeps, SettingKeeps DEF WindowNext
  <1>3. ShapeInv => WindowAsAsked
    BY DEF ShapeInv
  <1> QED BY <1>1, <1>2, <1>3, PTL DEF WindowSpec

===============================================================================
