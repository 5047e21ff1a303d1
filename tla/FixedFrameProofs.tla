---------------------------- MODULE FixedFrameProofs ---------------------------
(***************************************************************************)
(* Proofs about FixedFrame, for every clock, speed and length of the wait  *)
(* between two iterations.                                                 *)
(*                                                                         *)
(* That the slices of a frame neither lose nor repeat motion rests on the  *)
(* phase only growing within a frame (Onward), which holds as long as the  *)
(* game speed is not raised in it, and on each slice starting where the    *)
(* last one ended (Sliced).  A whole frame needs, besides, that the switch *)
(* thrown when it began still stands (Kept).                               *)
(***************************************************************************)
EXTENDS FixedFrame, TLAPS

-------------------------------------------------------------------------------
(* Arithmetic. *)

\* Multiplication by a natural number is monotone.
LEMMA MulMono ==
    ASSUME NEW a \in Int, NEW b \in Int, NEW c \in Nat, a <= b
    PROVE  a * c <= b * c
  OBVIOUS

\* A positive factor can be cancelled.
LEMMA MulCancel ==
    ASSUME NEW a \in Nat, NEW b \in Nat, NEW c \in Nat \ {0}, a * c <= b * c
    PROVE  a <= b
  OBVIOUS

\* Floor division, by its two bounds.
LEMMA Floor ==
    ASSUME NEW n \in Int, NEW s \in Nat \ {0}
    PROVE  /\ n \div s \in Int
           /\ (n \div s) * s <= n
           /\ \A k \in Int : k * s <= n => k <= n \div s
  <1> DEFINE q == n \div s
  <1>1. q \in Int /\ q * s <= n /\ n < (q + 1) * s
    OBVIOUS
  <1>2. ASSUME NEW k \in Int, k * s <= n, k > q PROVE FALSE
    <2>1. (q + 1) * s <= k * s
      BY <1>1, <1>2, MulMono
    <2> QED BY <1>1, <1>2, <2>1
  <1> QED BY <1>1, <1>2

\* The constants, in the forms the proofs use.
LEMMA Constants ==
    /\ Grain \in Nat \ {0} /\ MaxAhead \in Nat /\ MaxExtra \in Nat
    /\ WaitInputs \subseteq Nat \ {0} /\ GuardMayFail \in BOOLEAN
    /\ SubstepInputs \subseteq BOOLEAN /\ SubtickInputs \subseteq BOOLEAN
    /\ RateInputs \subseteq BOOLEAN /\ Far = -3 * Grain
    /\ \A s \in SpeedInputs \cup {FullSpeed} : s \in Nat \ {0} /\ Step(s) \in Nat \ {0}
  <1>1. \A s \in SpeedInputs \cup {FullSpeed} : s \in Nat \ {0} /\ Step(s) \in Nat \ {0}
    <2> SUFFICES ASSUME NEW s \in SpeedInputs \cup {FullSpeed}
                 PROVE  s \in Nat \ {0} /\ Step(s) \in Nat \ {0}
      OBVIOUS
    <2>1. s \in Nat \ {0} /\ Step(s) > 0 /\ FrameTime * FullSpeed \in Int
      BY FixedConstants
    <2> QED BY <2>1, Floor DEF Step
  <1> QED BY <1>1, FixedConstants DEF Far

\* A lower speed has a longer step.
LEMMA SlowerIsLonger ==
    ASSUME NEW s \in SpeedInputs \cup {FullSpeed}, NEW t \in SpeedInputs \cup {FullSpeed},
           s <= t
    PROVE  Step(t) <= Step(s)
  <1> DEFINE a == Step(s)
             b == Step(t)
  <1>1. s \in Nat \ {0} /\ t \in Nat \ {0} /\ a \in Nat \ {0} /\ b \in Nat \ {0}
    BY Constants
  <1>2. a * s = b * t
    BY FixedConstants
  <1> HIDE DEF a, b
  <1>3. s * b <= t * b
    BY <1>1, MulMono
  <1>4. b * s <= a * s
    BY <1>1, <1>2, <1>3
  <1>5. b <= a
    BY <1>1, <1>4, MulCancel
  <1> QED BY <1>5 DEF a, b

-------------------------------------------------------------------------------
(* The phase. *)

\* Phase p is no later than the one the clock shows, with so much time left
\* of a step of s.
Reached(p, left, s) == p = 0 \/ left * Grain <= (Grain - p) * s

\* fixed_clock_step_at: the phase lies within the frame and is what the time left gives.
LEMMA PhaseType ==
    ASSUME NEW left \in Int, speed \in SpeedInputs \cup {FullSpeed}
    PROVE  PhaseAt(left) \in 0 .. Grain /\ Reached(PhaseAt(left), left, Step(speed))
  <1> DEFINE S == Step(speed)
             n == (S - left) * Grain
             q == n \div S
  <1>1. S \in Nat \ {0} /\ Grain \in Nat \ {0}
    BY Constants
  <1>2. n \in Int
    BY <1>1
  <1>3. q \in Int /\ q * S <= n
    BY <1>1, <1>2, Floor
  <1>4. PhaseAt(left) = IF q < 0 THEN 0 ELSE IF q > Grain THEN Grain ELSE q
    BY DEF PhaseAt, Bounded
  <1>5. n = S * Grain - left * Grain
    BY <1>1
  <1> HIDE DEF n, q, S
  <1>6. ASSUME NEW p \in 0 .. Grain, p <= q PROVE Reached(p, left, S)
    <2>1. p * S <= q * S
      BY <1>1, <1>3, <1>6, MulMono
    <2>2. (Grain - p) * S = S * Grain - p * S
      BY <1>1
    <2>3. p * S \in Int /\ q * S \in Int /\ S * Grain \in Int /\ left * Grain \in Int
      BY <1>1, <1>3
    <2> QED BY <1>3, <1>5, <2>1, <2>2, <2>3 DEF Reached
  <1>7. CASE q < 0
    BY <1>1, <1>4, <1>7 DEF Reached
  <1>8. CASE q >= 0
    BY <1>1, <1>3, <1>4, <1>6, <1>8 DEF S
  <1> QED BY <1>3, <1>7, <1>8

\* Once reached, a phase is not gone back behind while the time left shrinks.
LEMMA PhaseGrows ==
    ASSUME NEW p \in 0 .. Grain, NEW due0 \in Int, NEW left \in Int, left <= due0,
           speed \in SpeedInputs \cup {FullSpeed}, Reached(p, due0, Step(speed))
    PROVE  p <= PhaseAt(left)
  <1> DEFINE S == Step(speed)
             n == (S - left) * Grain
             q == n \div S
  <1>1. S \in Nat \ {0} /\ Grain \in Nat \ {0}
    BY Constants
  <1>2. n \in Int
    BY <1>1
  <1>3. q \in Int /\ \A k \in Int : k * S <= n => k <= q
    BY <1>1, <1>2, Floor
  <1>4. PhaseAt(left) = IF q < 0 THEN 0 ELSE IF q > Grain THEN Grain ELSE q
    BY DEF PhaseAt, Bounded
  <1>5. n = S * Grain - left * Grain
    BY <1>1
  <1>6. p = 0 \/ due0 * Grain <= (Grain - p) * S
    BY DEF Reached
  <1> HIDE DEF n, q, S
  <1>7. CASE p = 0
    BY <1>1, <1>3, <1>4, <1>7
  <1>8. CASE due0 * Grain <= (Grain - p) * S
    <2>1. left * Grain <= due0 * Grain
      BY <1>1, MulMono
    <2>2. (Grain - p) * S = S * Grain - p * S
      BY <1>1
    <2>3. p * S \in Int /\ S * Grain \in Int /\ left * Grain \in Int /\ due0 * Grain \in Int
      BY <1>1
    <2>4. p * S <= n
      BY <1>5, <1>8, <2>1, <2>2, <2>3
    <2>5. p <= q
      BY <1>3, <2>4
    <2> QED BY <1>1, <1>3, <1>4, <2>5
  <1> QED BY <1>6, <1>7, <1>8

-------------------------------------------------------------------------------
(* The invariants. *)

\* The phase only grows until the frame is over.
Onward ==
    /\ ~started => due = 0 /\ phase = 0
    /\ ~rushed => Reached(phase, due, Step(speed))

\* Each slice starts where the last one ended; motion that was forgotten by the
\* switch is not repeated.
Sliced ==
    ~rushed =>
        /\ playerTo = phase /\ playerLag = 0
        /\ projMoved <= Grain + phase
        /\ projTo = Far \/ (projTo \in 0 .. phase /\ projMoved <= Grain + projTo)

\* While nothing has been switched in a frame, the bullets go on as they began
\* it: whole, or as far as the slices have come.
Kept ==
    /\ guardFailed => ~fast
    /\ switched = "no" => RateNow = fast
    /\ switched = "no" /\ projArmed => projDt = ~SubstepActive(fast)
    /\ switched = "no" /\ projArmed /\ ~rushed =>
          IF projDt THEN projMoved = Grain ELSE projTo \in 0 .. phase /\ projMoved = projTo

IInv == TypeOK /\ Onward /\ Sliced /\ Kept

\* A fresh start satisfies the invariant.
LEMMA InitIInv == Init => IInv
  <1> SUFFICES ASSUME Init PROVE IInv
    OBVIOUS
  <1>1. Far \in Int /\ 0 \in Far .. Grain /\ 0 \in 0 .. Grain /\ 0 <= MaxAhead
        /\ 0 \in 0 .. MaxExtra
    BY Constants
  <1>2. substep \in BOOLEAN /\ subtick \in BOOLEAN
    BY Constants DEF Init
  <1>3. TypeOK
    <2>1. {started, fast, pendingRate, wantFast, guardFailed, substep, subtick, projDt,
           projArmed, playerArmed, rushed, uncovered} \subseteq BOOLEAN
      BY <1>2 DEF Init
    <2>2. /\ due \in Int /\ due <= MaxAhead /\ phase \in 0 .. Grain
          /\ projTo \in Far .. Grain /\ playerTo \in Far .. Grain
          /\ extras \in 0 .. MaxExtra /\ projMoved \in Nat /\ playerLag \in Int
      BY <1>1 DEF Init
    <2> QED BY <2>1, <2>2 DEF Init, TypeOK
  <1>4. Onward
    BY DEF Init, Onward, Reached
  <1>5. Sliced
    BY <1>1, Constants DEF Init, Sliced
  <1>6. Kept
    BY DEF Init, Kept, RateNow
  <1> QED BY <1>3, <1>4, <1>5, <1>6 DEF IInv

\* Slices, and moved_to a frame later.
LEMMA SliceIs ==
    ASSUME NEW to \in Far .. Grain, NEW tau \in 0 .. Grain, NEW armed \in BOOLEAN
    PROVE  /\ Slice(to, tau, armed) \in 0 .. 2 * Grain
           /\ ~armed \/ to = Far => Slice(to, tau, armed) = 0
           /\ armed /\ to \in 0 .. tau => Slice(to, tau, armed) = tau - to
           /\ to \in 0 .. Grain =>
                 /\ Slice(to, tau, armed) <= Grain
                 /\ Slice(to, tau, armed) > 0 => Slice(to, tau, armed) <= tau - to
           /\ Back(to) \in Far .. Grain
  BY Constants DEF Slice, Back

\* From the last frame's phase to this one's.
LEMMA SliceAcross ==
    ASSUME NEW p \in 0 .. Grain, NEW tau \in 0 .. Grain
    PROVE  Slice(Back(p), tau, TRUE) = Grain + tau - p
  BY Constants DEF Slice, Back

\* The ranges that the invariant gives.
LEMMA TypeFacts ==
    ASSUME IInv
    PROVE  /\ due \in Int /\ phase \in 0 .. Grain /\ speed \in SpeedInputs \cup {FullSpeed}
           /\ projTo \in Far .. Grain /\ playerTo \in Far .. Grain
           /\ projMoved \in Nat /\ playerLag \in Int /\ RateNow \in BOOLEAN
           /\ Step(speed) \in Nat \ {0}
  BY Constants DEF IInv, TypeOK, RateNow

\* What is left of the frame's clock at the next iteration.
LEMMA DueIs ==
    ASSUME IInv, NEW d \in WaitInputs
    PROVE  /\ DueAt(d) \in Int /\ DueAt(d) <= MaxAhead
           /\ ~IsMajor(d) => DueAt(d) <= due
           /\ ~started => IsMajor(d)
  BY Constants, TypeFacts DEF DueAt, IsMajor, IInv, TypeOK

\* An iteration between two native frames (update_minor) keeps the invariant.
LEMMA MinorKeeps ==
    ASSUME IInv, NEW d \in WaitInputs, MinorUpdate(d)
    PROVE  IInv'
  <1> DEFINE left == DueAt(d)
             tau == PhaseAt(left)
             on == SubstepActive(RateNow) /\ projArmed
             playerOn == SubtickActive(RateNow) /\ playerArmed
  <1>1. /\ stage' = "updated" /\ ~IsMajor(d) /\ major' = FALSE
        /\ due' = left /\ phase' = tau /\ projTo' = tau /\ playerTo' = tau
        /\ projMoved' = projMoved + Slice(projTo, tau, on)
        /\ playerLag' = IF playerOn
                        THEN playerLag + Slice(playerTo, tau, TRUE) - (tau - phase)
                        ELSE 0
        /\ uncovered' = Dropped(tau)
        /\ fast' = RateNow /\ pendingRate' = FALSE
        /\ UNCHANGED <<started, speed, wantFast, guardFailed, substep, subtick,
                       projDt, projArmed, playerArmed, extras, rushed, switched>>
    BY DEF MinorUpdate, TakeRate
  <1>2. /\ left \in Int /\ left <= MaxAhead /\ left <= due /\ started
        /\ tau \in 0 .. Grain /\ Reached(tau, left, Step(speed))
    BY <1>1, DueIs, TypeFacts, PhaseType
  <1>3. on \in BOOLEAN /\ playerOn \in BOOLEAN
    BY DEF IInv, TypeOK, SubstepActive, SubtickActive
  <1> HIDE DEF left, tau, on, playerOn
  <1>4. PICK moved \in Nat, walked \in Nat :
            moved = Slice(projTo, tau, on) /\ walked = Slice(playerTo, tau, TRUE)
    <2>1. \A to \in Far .. Grain, armed \in BOOLEAN : Slice(to, tau, armed) \in Nat
      BY <1>2, SliceIs
    <2> QED BY <1>3, <2>1, TypeFacts
  <1>5. TypeOK'
    <2>1. RateNow \in BOOLEAN /\ Dropped(tau) \in BOOLEAN
      BY TypeFacts DEF Dropped
    <2>2. projMoved' \in Nat /\ playerLag' \in Int
      <3>1. tau \in Int /\ phase \in Int
        BY <1>2, TypeFacts
      <3>2. projMoved' \in Nat
        BY <1>1, <1>4, TypeFacts
      <3>3. CASE playerOn
        <4>1. playerLag' = playerLag + walked - (tau - phase)
          BY <1>1, <1>4, <3>3
        <4> QED BY <3>1, <3>2, <4>1, TypeFacts
      <3>4. CASE ~playerOn
        <4>1. playerLag' = 0
          BY <1>1, <3>4
        <4> QED BY <3>2, <4>1
      <3> QED BY <3>3, <3>4
    <2>3. projTo' \in Far .. Grain /\ playerTo' \in Far .. Grain
      BY <1>1, <1>2, Constants
    <2> QED BY <1>1, <1>2, <2>1, <2>2, <2>3 DEF IInv, TypeOK
  <1>6. Onward'
    BY <1>1, <1>2 DEF Onward, Reached, Step
  <1>7. ASSUME ~rushed PROVE phase <= tau
    BY <1>2, <1>7, TypeFacts, PhaseGrows DEF IInv, Onward, left, tau
  <1>8. Sliced'
    <2> SUFFICES ASSUME ~rushed PROVE Sliced'
      BY <1>1 DEF Sliced
    <2>1. /\ phase <= tau /\ playerTo = phase /\ playerLag = 0
          /\ projMoved <= Grain + phase
          /\ projTo = Far \/ (projTo \in 0 .. phase /\ projMoved <= Grain + projTo)
      BY <1>7 DEF IInv, Sliced
    <2>2. playerLag' = 0
      <3>1. playerTo \in Far .. Grain /\ playerTo \in 0 .. tau
        BY <1>2, <2>1, TypeFacts
      <3>2. Slice(playerTo, tau, TRUE) = tau - phase
        BY <1>2, <2>1, <3>1, SliceIs
      <3>3. CASE playerOn
        <4>1. playerLag' = 0 + (tau - phase) - (tau - phase)
          BY <1>1, <2>1, <3>2, <3>3
        <4> QED BY <1>2, <4>1, TypeFacts
      <3>4. CASE ~playerOn
        BY <1>1, <3>4
      <3> QED BY <3>3, <3>4
    <2>3. projMoved' <= Grain + tau
      <3>1. CASE projTo = Far
        <4>1. moved = 0
          BY <1>2, <1>3, <1>4, <3>1, TypeFacts, SliceIs
        <4> QED BY <1>1, <1>2, <1>4, <2>1, <4>1, TypeFacts, Constants
      <3>2. CASE projTo \in 0 .. phase /\ projMoved <= Grain + projTo
        <4>1. moved > 0 => moved <= tau - projTo
          <5>1. projTo \in 0 .. Grain
            BY <3>2, TypeFacts
          <5> QED BY <1>2, <1>3, <1>4, <5>1, TypeFacts, SliceIs
        <4> QED BY <1>1, <1>2, <1>4, <2>1, <3>2, <4>1, TypeFacts, Constants
      <3> QED BY <2>1, <3>1, <3>2
    <2>4. tau \in 0 .. tau
      BY <1>2
    <2> QED BY <1>1, <1>2, <2>2, <2>3, <2>4 DEF Sliced
  <1>9. Kept'
    <2>1. (guardFailed => ~fast)'
      BY <1>1 DEF IInv, Kept, RateNow
    <2>2. (switched = "no" => RateNow = fast)'
      BY <1>1 DEF RateNow
    <2>3. (switched = "no" /\ projArmed => projDt = ~SubstepActive(fast))'
      BY <1>1 DEF IInv, Kept, SubstepActive
    <2>4. ASSUME switched = "no", projArmed, ~rushed
          PROVE  (IF projDt THEN projMoved = Grain
                            ELSE projTo \in 0 .. phase /\ projMoved = projTo)'
      <3>1. projDt = ~SubstepActive(fast) /\ RateNow = fast
            /\ IF projDt THEN projMoved = Grain
                         ELSE projTo \in 0 .. phase /\ projMoved = projTo
        BY <2>4 DEF IInv, Kept
      <3>2. CASE projDt
        <4>1. ~on
          BY <3>1, <3>2 DEF on
        <4>2. Slice(projTo, tau, on) = 0
          BY <1>2, <1>3, <4>1, TypeFacts, SliceIs
        <4> QED BY <1>1, <3>1, <3>2, <4>2, Constants
      <3>3. CASE ~projDt
        <4>1. on
          BY <2>4, <3>1, <3>3 DEF IInv, TypeOK, on, SubstepActive
        <4>2. projTo \in 0 .. tau
          BY <1>2, <1>7, <2>4, <3>1, <3>3, TypeFacts
        <4>3. Slice(projTo, tau, on) = tau - projTo
          BY <1>2, <1>3, <4>1, <4>2, TypeFacts, SliceIs
        <4> QED BY <1>1, <1>2, <3>1, <3>3, <4>2, <4>3
      <3> QED BY <3>2, <3>3 DEF IInv, TypeOK
    <2> QED BY <1>1, <2>1, <2>2, <2>3, <2>4 DEF Kept
  <1> QED BY <1>5, <1>6, <1>8, <1>9 DEF IInv

\* So does a native frame (update_first),
LEMMA MajorKeeps ==
    ASSUME IInv, NEW d \in WaitInputs, NEW playerRan \in BOOLEAN, NEW projRan \in BOOLEAN,
           MajorUpdate(d, playerRan, projRan)
    PROVE  IInv'
  <1> DEFINE left == DueAt(d) + Step(speed)
             tau == PhaseAt(left)
             playerOn == SubtickActive(RateNow) /\ playerRan
  <1>1. /\ stage' = "updated" /\ major' = TRUE /\ left <= MaxAhead
        /\ due' = left /\ phase' = tau /\ started' = TRUE
        /\ projDt' = ~SubstepActive(RateNow) /\ projArmed' = projRan /\ projTo' = 0
        /\ projMoved' = IF projRan /\ projDt' THEN Grain ELSE 0
        /\ playerArmed' = playerRan /\ playerTo' = tau
        /\ playerLag' = IF playerOn /\ ~rushed
                        THEN Slice(Back(playerTo), tau, TRUE) - (Grain + tau - phase)
                        ELSE 0
        /\ extras' = 0 /\ uncovered' = Dropped(Grain)
        /\ rushed' = FALSE /\ switched' = "no"
        /\ fast' = RateNow /\ pendingRate' = FALSE
        /\ UNCHANGED <<speed, wantFast, guardFailed, substep, subtick>>
    BY DEF MajorUpdate, TakeRate
  <1>2. left \in Int /\ tau \in 0 .. Grain /\ Reached(tau, left, Step(speed))
    BY DueIs, TypeFacts, PhaseType
  <1> HIDE DEF left, tau
  <1>3. playerLag' = 0
    <2>1. CASE playerOn /\ ~rushed
      <3>1. playerTo = phase
        BY <2>1 DEF IInv, Sliced
      <3>2. Slice(Back(playerTo), tau, TRUE) = Grain + tau - phase
        BY <1>2, <3>1, TypeFacts, SliceAcross
      <3>3. playerLag' = (Grain + tau - phase) - (Grain + tau - phase)
        BY <1>1, <2>1, <3>2
      <3> QED BY <1>2, <3>3, TypeFacts, Constants
    <2>2. CASE ~(playerOn /\ ~rushed)
      BY <1>1, <2>2
    <2> QED BY <2>1, <2>2
  <1>4. projMoved' \in {0, Grain} /\ Grain \in Nat /\ Far \in Int /\ Far <= 0
    BY <1>1, Constants
  <1>5. TypeOK'
    <2>1. RateNow \in BOOLEAN /\ Dropped(Grain) \in BOOLEAN /\ projDt' \in BOOLEAN
      BY <1>1, TypeFacts DEF Dropped
    <2>2. projTo' \in Far .. Grain /\ playerTo' \in Far .. Grain /\ extras' \in 0 .. MaxExtra
          /\ projMoved' \in Nat
      BY <1>1, <1>2, <1>4, Constants
    <2>3. {started, fast, pendingRate, wantFast, guardFailed, substep, subtick, projDt,
           projArmed, playerArmed, rushed, uncovered}' \subseteq BOOLEAN
      BY <1>1, <2>1 DEF IInv, TypeOK
    <2>4. due' \in Int /\ due' <= MaxAhead /\ phase' \in 0 .. Grain
      BY <1>1, <1>2
    <2>5. speed' \in SpeedInputs \cup {FullSpeed} /\ playerLag' \in Int
      <3>1. speed' = speed /\ speed \in SpeedInputs \cup {FullSpeed}
        BY <1>1, TypeFacts
      <3> QED BY <1>3, <3>1
    <2> QED BY <1>1, <2>2, <2>3, <2>4, <2>5 DEF TypeOK
  <1>6. Onward'
    BY <1>1, <1>2 DEF Onward, Reached, Step
  <1>7. Sliced'
    <2>1. 0 \in 0 .. tau /\ projMoved' <= Grain + 0 /\ projMoved' <= Grain + tau
      BY <1>2, <1>4
    <2> QED BY <1>1, <1>3, <2>1 DEF Sliced
  <1>8. Kept'
    <2>1. (guardFailed => ~fast)'
      BY <1>1 DEF IInv, Kept, RateNow
    <2>2. (switched = "no" => RateNow = fast)'
      BY <1>1 DEF RateNow
    <2>3. projDt' = ~SubstepActive(fast)'
      BY <1>1 DEF SubstepActive
    <2>4. projArmed' => IF projDt' THEN projMoved' = Grain
                                   ELSE projTo' \in 0 .. phase' /\ projMoved' = projTo'
      BY <1>1, <1>2
    <2> QED BY <2>1, <2>2, <2>3, <2>4 DEF Kept
  <1> QED BY <1>5, <1>6, <1>7, <1>8 DEF IInv

\* The game's own fast forward and the guard.
LEMMA ExtraKeeps == IInv /\ UpdateExtra => IInv'
  <1> SUFFICES ASSUME IInv, UpdateExtra PROVE IInv'
    OBVIOUS
  <1>1. Back(projTo) \in Far .. Grain /\ Back(playerTo) \in Far .. Grain
    <2>1. 0 \in 0 .. Grain
      BY Constants
    <2> QED BY <2>1, TypeFacts, SliceIs
  <1>2. TypeOK'
    BY <1>1, Constants DEF IInv, TypeOK, UpdateExtra, clockVars, settings
  <1>3. Onward' /\ Sliced'
    BY DEF IInv, Onward, Sliced, UpdateExtra, clockVars
  <1>4. Kept'
    BY DEF IInv, Kept, UpdateExtra, settings, RateNow, SubstepActive
  <1> QED BY <1>2, <1>3, <1>4 DEF IInv

\* a drawing, its guard failing or not,
LEMMA DrawKeeps ==
    ASSUME IInv, NEW fails \in BOOLEAN, DrawFrame(fails)
    PROVE  IInv'
  <1>1. TypeOK'
    BY DEF IInv, TypeOK, DrawFrame, clockVars, sliceVars
  <1>2. Onward' /\ Sliced'
    BY DEF IInv, Onward, Sliced, DrawFrame, clockVars, sliceVars, Reached, Step
  <1>3. Kept'
    BY DEF IInv, TypeOK, Kept, DrawFrame, clockVars, sliceVars, RateNow, SubstepActive
  <1> QED BY <1>1, <1>2, <1>3 DEF IInv

-------------------------------------------------------------------------------
(* The menu. *)

\* and the menu's switches, in the middle of a frame or not: the speed,
LEMMA GameSpeedKeeps ==
    ASSUME IInv, NEW s \in SpeedInputs, UiGameSpeed(s)
    PROVE  IInv'
  <1>1. /\ speed' = s /\ rushed' = (rushed \/ s > speed)
        /\ UNCHANGED <<stage, clockVars, fast, pendingRate, wantFast, guardFailed,
                       substep, subtick, sliceVars, projMoved, playerLag, switched,
                       uncovered>>
    BY DEF UiGameSpeed
  <1>2. TypeOK'
    BY <1>1 DEF IInv, TypeOK, clockVars, sliceVars
  <1>3. Onward'
    <2>1. ASSUME ~rushed, s <= speed, phase # 0 PROVE Reached(phase, due, Step(s))
      <3>1. due * Grain <= (Grain - phase) * Step(speed)
        BY <2>1 DEF IInv, Onward, Reached
      <3>2. Step(speed) <= Step(s) /\ Step(speed) \in Nat /\ Step(s) \in Nat
        BY <2>1, TypeFacts, SlowerIsLonger, Constants
      <3>3. Grain - phase \in Nat /\ due * Grain \in Int
        BY TypeFacts, Constants
      <3>4. Step(speed) * (Grain - phase) <= Step(s) * (Grain - phase)
        BY <3>2, <3>3, MulMono
      <3>5. PICK a \in Nat, b \in Nat, c \in Nat :
                a = Step(speed) /\ b = Step(s) /\ c = Grain - phase
        BY <3>2, <3>3
      <3>6. a * c = c * a /\ b * c = c * b /\ a * c \in Int /\ b * c \in Int
        OBVIOUS
      <3>7. due * Grain <= c * b
        BY <3>1, <3>3, <3>4, <3>5, <3>6
      <3> QED BY <3>5, <3>7 DEF Reached
    <2>2. ~rushed' => ~rushed /\ s <= speed
      <3>1. s \in Nat /\ speed \in Nat /\ rushed \in BOOLEAN
        BY TypeFacts, Constants DEF IInv, TypeOK
      <3>2. CASE rushed \/ s > speed
        BY <1>1, <3>2
      <3>3. CASE ~rushed /\ ~(s > speed)
        BY <3>1, <3>3
      <3> QED BY <3>2, <3>3
    <2>3. Reached(phase, due, Step(s))' = Reached(phase, due, Step(s))
      BY <1>1 DEF clockVars, Reached, Step
    <2>4. phase = 0 => Reached(phase, due, Step(s))
      BY DEF Reached
    <2> QED BY <1>1, <2>1, <2>2, <2>3, <2>4 DEF IInv, Onward, clockVars, Reached, Step
  <1>4. Sliced' /\ Kept'
    BY <1>1 DEF IInv, Sliced, Kept, clockVars, sliceVars, RateNow, SubstepActive
  <1> QED BY <1>2, <1>3, <1>4 DEF IInv

\* the frame rate,
LEMMA FpsKeeps ==
    ASSUME IInv, NEW high \in RateInputs, UiFps(high)
    PROVE  IInv'
  <1>1. high \in BOOLEAN
    BY Constants
  <1>2. TypeOK'
    BY <1>1 DEF IInv, TypeOK, UiFps, clockVars, sliceVars
  <1>3. Onward' /\ Sliced'
    BY DEF IInv, Onward, Sliced, UiFps, clockVars, sliceVars, Reached, Step
  <1>4. Kept'
    BY <1>1 DEF IInv, TypeOK, Kept, UiFps, clockVars, sliceVars, RateNow, SubstepActive
  <1> QED BY <1>2, <1>3, <1>4 DEF IInv

\* sub-stepping,
LEMMA SubstepKeeps ==
    ASSUME IInv, NEW on \in SubstepInputs, UiSubstep(on)
    PROVE  IInv'
  <1>1. on \in BOOLEAN /\ Far \in Far .. Grain
    BY Constants
  <1>2. TypeOK'
    BY <1>1 DEF IInv, TypeOK, UiSubstep, clockVars
  <1>3. Onward' /\ Sliced'
    BY DEF IInv, Onward, Sliced, UiSubstep, clockVars, Reached, Step
  <1>4. Kept'
    BY DEF IInv, Kept, UiSubstep
  <1> QED BY <1>2, <1>3, <1>4 DEF IInv

\* and the player's sub-ticks.
LEMMA SubtickKeeps ==
    ASSUME IInv, NEW on \in SubtickInputs, UiSubtick(on)
    PROVE  IInv'
  <1>1. on \in BOOLEAN
    BY Constants
  <1>2. TypeOK'
    BY <1>1 DEF IInv, TypeOK, UiSubtick, clockVars, sliceVars, history
  <1>3. Onward' /\ Sliced'
    BY DEF IInv, Onward, Sliced, UiSubtick, clockVars, sliceVars, history, Reached, Step
  <1>4. Kept'
    BY DEF IInv, Kept, UiSubtick, clockVars, sliceVars, history, RateNow, SubstepActive
  <1> QED BY <1>2, <1>3, <1>4 DEF IInv

-------------------------------------------------------------------------------
(* Every step. *)

\* Every step keeps the invariant,
LEMMA NextIInv == IInv /\ [Next]_vars => IInv'
  <1> SUFFICES ASSUME IInv, [Next]_vars PROVE IInv'
    OBVIOUS
  <1>1. CASE UpdateFirst
    BY <1>1, MinorKeeps, MajorKeeps DEF UpdateFirst
  <1>2. CASE UpdateExtra
    BY <1>2, ExtraKeeps
  <1>3. CASE Draw
    BY <1>3, DrawKeeps, Constants DEF Draw
  <1>4. CASE \E s \in SpeedInputs : UiGameSpeed(s)
    BY <1>4, GameSpeedKeeps
  <1>5. CASE \E high \in RateInputs : UiFps(high)
    BY <1>5, FpsKeeps
  <1>6. CASE \E on \in SubstepInputs \ {substep} : UiSubstep(on)
    BY <1>6, SubstepKeeps
  <1>7. CASE \E on \in SubtickInputs \ {subtick} : UiSubtick(on)
    BY <1>7, SubtickKeeps
  <1>8. CASE UNCHANGED vars
    <2>1. UNCHANGED <<stage, clockVars, settings, sliceVars, history>>
      BY <1>8 DEF vars
    <2>2. TypeOK'
      BY <2>1 DEF IInv, TypeOK, clockVars, settings, sliceVars, history
    <2>3. Onward' /\ Sliced'
      BY <2>1 DEF IInv, Onward, Sliced, clockVars, settings, sliceVars, history,
                  Reached, Step
    <2>4. Kept'
      BY <2>1 DEF IInv, Kept, clockVars, settings, sliceVars, history, RateNow,
                  SubstepActive
    <2> QED BY <2>2, <2>3, <2>4 DEF IInv
  <1> QED BY <1>1, <1>2, <1>3, <1>4, <1>5, <1>6, <1>7, <1>8 DEF Next

\* so it holds throughout.
LEMMA Invariance == Spec => []IInv
  BY InitIInv, NextIInv, PTL DEF Spec

\* The state of the frame stays in its ranges, for every clock and speed.
THEOREM TypeCorrect == Spec => []TypeOK
  <1>1. IInv => TypeOK
    BY DEF IInv
  <1> QED BY <1>1, Invariance, PTL

\* Whatever is switched in a frame whose speed is not raised, it moves the
\* bullets by two frames at most, and the player stays with the clock
\* (projectiles_slice, subtick_move).
THEOREM KeepsMotion == Spec => []MotionKept
  <1>1. ASSUME IInv PROVE MotionKept
    <2> SUFFICES ASSUME ~rushed PROVE FrameMotion <= 2 * Grain /\ playerLag = 0
      BY DEF MotionKept, ExtraMotionBounded, PlayerKeepsTime
    <2> DEFINE on == SubstepActive(RateNow) /\ projArmed
    <2>1. on \in BOOLEAN /\ Grain \in 0 .. Grain /\ Grain \in Nat
      BY TypeFacts, Constants DEF IInv, TypeOK, SubstepActive
    <2>2. FrameMotion = projMoved + Slice(projTo, Grain, on)
      BY DEF FrameMotion
    <2>3. /\ playerLag = 0 /\ projMoved <= Grain + phase
          /\ projTo = Far \/ (projTo \in 0 .. phase /\ projMoved <= Grain + projTo)
      BY <1>1 DEF IInv, Sliced
    <2> HIDE DEF on
    <2>4. CASE projTo = Far
      <3>1. Slice(projTo, Grain, on) = 0
        BY <1>1, <2>1, <2>4, TypeFacts, SliceIs
      <3> QED BY <1>1, <2>1, <2>2, <2>3, <3>1, TypeFacts
    <2>5. CASE projTo \in 0 .. phase /\ projMoved <= Grain + projTo
      <3>1. projTo \in 0 .. Grain
        BY <1>1, <2>5, TypeFacts
      <3>2. /\ Slice(projTo, Grain, on) \in 0 .. 2 * Grain
            /\ Slice(projTo, Grain, on) > 0 => Slice(projTo, Grain, on) <= Grain - projTo
        BY <1>1, <2>1, <3>1, TypeFacts, SliceIs
      <3> QED BY <1>1, <2>1, <2>2, <2>3, <2>5, <3>1, <3>2, TypeFacts
    <2> QED BY <2>3, <2>4, <2>5
  <1> QED BY <1>1, Invariance, PTL

\* At every native tick the bullets have been moved by one frame exactly, through
\* stalls and lowered speeds, unless this frame was rushed or switched.
THEOREM FramesAreWhole == Spec => FrameWhole
  <1>1. ASSUME IInv, projArmed, ~rushed, switched = "no" PROVE FrameMotion = Grain
    <2> DEFINE on == SubstepActive(RateNow) /\ projArmed
    <2>1. on \in BOOLEAN /\ Grain \in 0 .. Grain /\ Grain \in Nat
      BY <1>1, TypeFacts, Constants DEF IInv, TypeOK, SubstepActive
    <2>2. /\ projDt = ~SubstepActive(fast) /\ RateNow = fast /\ projDt \in BOOLEAN
          /\ IF projDt THEN projMoved = Grain
                       ELSE projTo \in 0 .. phase /\ projMoved = projTo
      BY <1>1 DEF IInv, Kept, TypeOK
    <2>3. FrameMotion = projMoved + Slice(projTo, Grain, on)
      BY DEF FrameMotion
    <2>4. on = ~projDt
      BY <1>1, <2>2 DEF IInv, TypeOK, SubstepActive
    <2> HIDE DEF on
    <2>5. CASE projDt
      <3>1. Slice(projTo, Grain, on) = 0
        BY <1>1, <2>1, <2>4, <2>5, TypeFacts, SliceIs
      <3> QED BY <2>1, <2>2, <2>3, <2>5, <3>1
    <2>6. CASE ~projDt
      <3>1. projTo \in 0 .. Grain
        BY <1>1, <2>2, <2>6, TypeFacts
      <3>2. Slice(projTo, Grain, on) = Grain - projTo
        BY <1>1, <2>1, <2>4, <2>6, <3>1, TypeFacts, SliceIs
      <3> QED BY <2>1, <2>2, <2>3, <2>6, <3>1, <3>2
    <2> QED BY <2>2, <2>5, <2>6
  <1>2. IInv => (NativePass /\ projArmed /\ ~rushed /\ switched = "no"
                   => FrameMotion = Grain)
    BY <1>1
  <1> QED BY <1>2, Invariance, PTL DEF FrameWhole
===============================================================================
