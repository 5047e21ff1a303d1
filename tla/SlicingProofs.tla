------------------------------ MODULE SlicingProofs -----------------------------
(***************************************************************************)
(* Proofs about ReplayStream, SlicedSystems and Th08Field, for every rate, *)
(* and for every length of a stage, of a life, of a cycle, and every       *)
(* velocity.                                                               *)
(*                                                                         *)
(* The stream.  It has no positions of its own, so everything rests on the *)
(* number of ticks streamed so far being a function of the replay frame    *)
(* (StreamInStep): while a frame of the stage runs, of the frame and the   *)
(* tick; while the stage is paused, of the frame that comes next, wherever *)
(* the schedule has drifted to.  A frame's ticks are those from            *)
(* FrameTick(f) up to the next frame's, which is what makes the two agree  *)
(* when a pause begins and when it ends.                                   *)
(*                                                                         *)
(* The systems.  Where the next tick starts, from the end of the last      *)
(* frame that has begun (Past), moves on by each tick's length and back by *)
(* a frame with each frame.  What runs with the ticks moves by the same    *)
(* amounts, so it keeps its distance to that place (Lagging), and an       *)
(* object born within a frame is within a frame of the unmodified game's   *)
(* ever after.  Every site of every game is of one of sixteen kinds        *)
(* (EffectsAreKinds), and each kind keeps what it does as a function of    *)
(* the object's timer as it was at the last call (Alike).                  *)
(*                                                                         *)
(* TH08's field.  Its object and the stock game's are related in the same  *)
(* way, by what the ticks from the end of the last frame amount to         *)
(* (FieldInv): the exact relation where every frame is cut alike (Exact,   *)
(* Swept, Striding), and the distance that ticks of uneven frames leave    *)
(* (Nearby, Grazing).                                                      *)
(***************************************************************************)
EXTENDS ReplayStream, SlicedSystems, Th08Field, TLAPS

-------------------------------------------------------------------------------
(* Arithmetic. *)

\* Multiplication by a natural number is monotone.
LEMMA MulMono ==
    ASSUME NEW a \in Int, NEW b \in Int, NEW c \in Nat, a <= b
    PROVE  a * c <= b * c
  OBVIOUS

\* A product of natural numbers is one.
LEMMA MulNat ==
    ASSUME NEW a \in Nat, NEW b \in Nat
    PROVE  a * b \in Nat
  OBVIOUS

\* A positive factor can be cancelled.
LEMMA MulCancel ==
    ASSUME NEW a \in Int, NEW b \in Int, NEW c \in Nat \ {0}, a * c <= b * c
    PROVE  a <= b
  OBVIOUS

\* Floor division, by its bounds.
LEMMA Floor ==
    ASSUME NEW n \in Nat, NEW s \in Nat \ {0}
    PROVE  /\ n \div s \in Nat
           /\ \A k \in Int : k <= n \div s <=> k * s <= n
  <1> DEFINE q == n \div s
  <1>1. q \in Nat /\ q * s <= n /\ n < (q + 1) * s
    OBVIOUS
  <1> HIDE DEF q
  <1>2. ASSUME NEW k \in Int, k <= q PROVE k * s <= n
    <2>1. k * s <= q * s
      BY <1>1, <1>2, MulMono
    <2> QED BY <1>1, <2>1
  <1>3. ASSUME NEW k \in Int, k * s <= n, k > q PROVE FALSE
    <2>1. (q + 1) * s <= k * s
      BY <1>1, <1>3, MulMono
    <2> QED BY <1>1, <1>3, <2>1
  <1> QED BY <1>1, <1>2, <1>3 DEF q

\* Division with a remainder, and the next number's.
LEMMA DivMod ==
    ASSUME NEW a \in Nat, NEW b \in Nat \ {0}
    PROVE  /\ a \div b \in Nat /\ a % b \in 0 .. b - 1
           /\ a = (a \div b) * b + (a % b)
  OBVIOUS

\* Quotient and remainder are unique,
LEMMA DivModUnique ==
    ASSUME NEW b \in Nat \ {0}, NEW q \in Nat, NEW r \in 0 .. b - 1
    PROVE  (q * b + r) \div b = q /\ (q * b + r) % b = r
  OBVIOUS

\* and those of the next number follow.
LEMMA NextDivMod ==
    ASSUME NEW a \in Nat, NEW b \in Nat \ {0}
    PROVE  IF (a % b) + 1 < b
           THEN (a + 1) \div b = a \div b /\ (a + 1) % b = (a % b) + 1
           ELSE (a + 1) \div b = a \div b + 1 /\ (a + 1) % b = 0
  <1> DEFINE q == a \div b
             r == a % b
  <1>1. q \in Nat /\ r \in 0 .. b - 1 /\ a = q * b + r
    BY DivMod
  <1> HIDE DEF q, r
  <1>2. CASE r + 1 < b
    <2>1. a + 1 = q * b + (r + 1) /\ r + 1 \in 0 .. b - 1
      BY <1>1, <1>2
    <2>2. PICK s \in 0 .. b - 1 : s = r + 1
      BY <2>1
    <2>3. (q * b + s) \div b = q /\ (q * b + s) % b = s
      BY <1>1, DivModUnique
    <2>4. (a + 1) \div b = q /\ (a + 1) % b = r + 1
      BY <2>1, <2>2, <2>3
    <2> QED BY <1>2, <2>4 DEF q, r
  <1>3. CASE r + 1 >= b
    <2>1. (q + 1) * b = q * b + b
      BY <1>1
    <2>2. a + 1 = (q + 1) * b + 0 /\ 0 \in 0 .. b - 1 /\ q + 1 \in Nat
      BY <1>1, <1>3, <2>1
    <2>3. PICK p \in Nat : p = q + 1
      BY <2>2
    <2>4. (p * b + 0) \div b = p /\ (p * b + 0) % b = 0
      BY <2>2, DivModUnique
    <2>5. (a + 1) \div b = q + 1 /\ (a + 1) % b = 0
      BY <2>2, <2>3, <2>4
    <2> QED BY <1>1, <1>3, <2>5 DEF q, r
  <1> QED BY <1>1, <1>2, <1>3

\* The next place of a period.
LEMMA NextInPeriod ==
    ASSUME NEW b \in Nat \ {0}, NEW r \in 0 .. b - 1
    PROVE  (r + 1) % b = IF r + 1 < b THEN r + 1 ELSE 0
  <1>1. r \in Nat /\ 0 \in Nat
    OBVIOUS
  <1>2. r % b = r
    <2>1. (0 * b + r) % b = r
      BY DivModUnique
    <2>2. 0 * b + r = r
      OBVIOUS
    <2> QED BY <2>1, <2>2
  <1>3. IF (r % b) + 1 < b
        THEN (r + 1) \div b = r \div b /\ (r + 1) % b = (r % b) + 1
        ELSE (r + 1) \div b = r \div b + 1 /\ (r + 1) % b = 0
    BY <1>1, NextDivMod
  <1> QED BY <1>2, <1>3

\* Two ways to write a number with a remainder are one.
LEMMA SamePlace ==
    ASSUME NEW b \in Nat \ {0}, NEW q \in Nat, NEW r \in 0 .. b - 1,
           NEW p \in Nat, NEW s \in 0 .. b - 1, q * b + r = p * b + s
    PROVE  q = p /\ r = s
  BY DivModUnique

-------------------------------------------------------------------------------
(* Frames and ticks. *)

\* The constants, in the forms the proofs use.
LEMMA Period ==
    /\ Fps \in Nat \ {0} /\ UnitsPerFrame \in Nat \ {0} /\ MaxRate \in Nat
    /\ \A R \in Rates : R \in Nat \ {0} /\ R >= Fps /\ R <= MaxRate
  BY ClockConstants DEF Rates

LEMMA StreamClock ==
    /\ Fps \in Nat \ {0, 1} /\ UnitsPerFrame \in Nat \ {0}
    /\ RateInputs \subseteq Rates /\ Fps \in Rates
    /\ MaxFrame \in Nat /\ NoManager = -1
    /\ \A R \in Rates : R \in Nat \ {0} /\ R >= Fps /\ (R # Fps => R > Fps)
  BY ClockConstants, StreamConstants DEF Rates, NoManager

\* Tick n is in frame f or a later one if it starts at f/Fps of the period or
\* later: the units it is rounded down to make no difference.
LEMMA FrameAtIs ==
    ASSUME NEW R \in Nat \ {0}, NEW n \in Nat
    PROVE  /\ FrameAt(n, R) \in Nat
           /\ \A f \in Int : f <= FrameAt(n, R) <=> f * R <= n * Fps
  <1> DEFINE U == UnitsPerFrame
             s == Start(n, R)
  <1>1. U \in Nat \ {0} /\ Fps \in Nat /\ Span = Fps * U
    BY Period DEF Span
  <1>2. n * Span \in Nat
    BY <1>1
  <1>3. s \in Nat /\ \A k \in Int : k <= s <=> k * R <= n * Span
    BY <1>2, Floor DEF Start
  <1>4. FrameAt(n, R) = s \div U
    BY DEF FrameAt
  <1> HIDE DEF s, U
  <1>5. FrameAt(n, R) \in Nat /\ \A f \in Int : f <= FrameAt(n, R) <=> f * U <= s
    BY <1>1, <1>3, <1>4, Floor
  <1>6. ASSUME NEW f \in Int PROVE f * U <= s <=> f * R <= n * Fps
    <2>1. f * U \in Int /\ f * R \in Int /\ n * Fps \in Int
      BY <1>1
    <2>2. f * U <= s <=> (f * U) * R <= n * Span
      BY <1>3, <2>1
    <2>3. (f * U) * R = (f * R) * U /\ n * Span = (n * Fps) * U
      BY <1>1
    <2>4. (f * R) * U <= (n * Fps) * U <=> f * R <= n * Fps
      BY <1>1, <2>1, MulMono, MulCancel
    <2> QED BY <2>2, <2>3, <2>4
  <1> QED BY <1>5, <1>6

\* A tick's frame is one of the period's; from one tick to the next it is the
\* same or the next one, and the last tick is in the last frame.
LEMMA FrameSteps ==
    ASSUME NEW R \in Rates, NEW n \in 0 .. R - 1
    PROVE  /\ FrameAt(n, R) \in 0 .. Fps - 1
           /\ FrameAt(0, R) = 0 /\ FrameAt(R - 1, R) = Fps - 1
           /\ n + 1 < R => FrameAt(n + 1, R) \in {FrameAt(n, R), FrameAt(n, R) + 1}
  <1>1. R \in Nat \ {0} /\ R >= Fps /\ Fps \in Nat \ {0}
    BY Period
  <1>2. \A m \in Nat : FrameAt(m, R) \in Nat
                       /\ \A f \in Int : f <= FrameAt(m, R) <=> f * R <= m * Fps
    BY <1>1, FrameAtIs
  <1>3. \A m \in 0 .. R - 1 : FrameAt(m, R) \in 0 .. Fps - 1
    <2> SUFFICES ASSUME NEW m \in 0 .. R - 1, Fps <= FrameAt(m, R) PROVE FALSE
      BY <1>1, <1>2
    <2>1. Fps * R <= m * Fps
      <3>1. m \in Nat /\ Fps \in Int
        BY <1>1
      <3> QED BY <1>2, <3>1
    <2>2. (m + 1) * Fps <= R * Fps /\ (m + 1) * Fps = m * Fps + Fps /\ R * Fps = Fps * R
      BY <1>1, MulMono
    <2>3. m * Fps \in Int /\ Fps * R \in Int
      BY <1>1
    <2> QED BY <1>1, <2>1, <2>2, <2>3
  <1>4. FrameAt(0, R) = 0
    <2>1. ~(1 <= FrameAt(0, R))
      BY <1>1, <1>2
    <2> QED BY <1>2, <2>1
  <1>5. FrameAt(R - 1, R) = Fps - 1
    <2>1. (Fps - 1) * R = Fps * R - R /\ (R - 1) * Fps = R * Fps - Fps /\ R * Fps = Fps * R
      BY <1>1
    <2>2. Fps * R \in Int /\ R - 1 \in Nat
      BY <1>1
    <2>3. (Fps - 1) * R <= (R - 1) * Fps
      BY <1>1, <2>1, <2>2
    <2>4. Fps - 1 <= FrameAt(R - 1, R)
      BY <1>1, <1>2, <2>2, <2>3
    <2> QED BY <1>1, <1>3, <2>2, <2>4
  <1>6. ASSUME n + 1 < R PROVE FrameAt(n + 1, R) \in {FrameAt(n, R), FrameAt(n, R) + 1}
    <2> DEFINE f == FrameAt(n, R)
               g == FrameAt(n + 1, R)
    <2>1. f \in Nat /\ g \in Nat
      BY <1>1, <1>2
    <2>2. f * R <= n * Fps /\ ~((f + 1) * R <= n * Fps)
      BY <1>1, <1>2, <2>1
    <2>3. ~(g <= f + 1) => (f + 2) * R <= (n + 1) * Fps
      BY <1>1, <1>2, <2>1
    <2>4. (n + 1) * Fps = n * Fps + Fps /\ (f + 2) * R = (f + 1) * R + R
      BY <1>1, <2>1
    <2>5. n * Fps \in Int /\ (f + 1) * R \in Int
      BY <1>1, <2>1
    <2>6. g <= f + 1
      BY <1>1, <2>2, <2>3, <2>4, <2>5
    <2>7. f <= g
      BY <1>1, <1>2, <2>1, <2>2, <2>4, <2>5
    <2> QED BY <2>1, <2>6, <2>7
  <1> QED BY <1>1, <1>3, <1>4, <1>5, <1>6

\* FrameTick(f) is the first tick of frame f.
LEMMA FrameTickIs ==
    ASSUME NEW R \in Rates, NEW f \in 0 .. Fps - 1
    PROVE  /\ FrameTick(f, R) \in 0 .. R - 1
           /\ FrameAt(FrameTick(f, R), R) = f
           /\ \A n \in Nat : f <= FrameAt(n, R) <=> FrameTick(f, R) <= n
  <1> DEFINE t == FrameTick(f, R)
             a == f * R + Fps - 1
  <1>1. R \in Nat \ {0} /\ R >= Fps /\ Fps \in Nat \ {0}
    BY Period
  <1>2. a \in Nat /\ f * R \in Nat
    BY <1>1
  <1>3. t \in Nat /\ \A k \in Int : k <= t <=> k * Fps <= a
    BY <1>1, <1>2, Floor DEF FrameTick
  <1>4. a = f * R + Fps - 1
    OBVIOUS
  <1> HIDE DEF t, a
  <1>5. \A n \in Nat : f <= FrameAt(n, R) <=> f * R <= n * Fps
    BY <1>1, FrameAtIs
  <1>6. ASSUME NEW n \in Nat PROVE f * R <= n * Fps <=> t <= n
    <2>1. t <= n <=> ~(n + 1 <= t)
      BY <1>3
    <2>2. n + 1 <= t <=> (n + 1) * Fps <= a
      BY <1>3
    <2>3. (n + 1) * Fps = n * Fps + Fps /\ n * Fps \in Int
      BY <1>1
    <2> QED BY <1>1, <1>2, <1>4, <2>1, <2>2, <2>3
  <1>7. f <= FrameAt(R - 1, R) /\ R - 1 \in Nat /\ R - 1 \in 0 .. R - 1
    BY <1>1, FrameSteps
  <1>8. t \in 0 .. R - 1
    BY <1>1, <1>3, <1>5, <1>6, <1>7
  <1>9. f <= FrameAt(t, R)
    BY <1>3, <1>5, <1>6
  <1>10. FrameAt(t, R) <= f
    <2>1. CASE t = 0
      BY <1>1, <1>8, <2>1, FrameSteps
    <2>2. CASE t > 0
      <3>1. t - 1 \in Nat /\ t - 1 \in 0 .. R - 1 /\ (t - 1) + 1 < R /\ (t - 1) + 1 = t
        BY <1>1, <1>8, <2>2
      <3>2. ~(f <= FrameAt(t - 1, R))
        BY <1>5, <1>6, <1>8, <3>1
      <3>3. FrameAt(t - 1, R) \in 0 .. Fps - 1
            /\ FrameAt(t, R) \in {FrameAt(t - 1, R), FrameAt(t - 1, R) + 1}
        BY <3>1, FrameSteps
      <3> QED BY <1>1, <3>2, <3>3
    <2> QED BY <1>8, <2>1, <2>2
  <1>11. FrameAt(t, R) \in Nat
    BY <1>1, <1>3, FrameAtIs
  <1> QED BY <1>5, <1>6, <1>8, <1>9, <1>10, <1>11 DEF t

\* Where frame f of a stage begins: at the first tick of its place in a period.
StageTick(f, R) == (f \div Fps) * R + FrameTick(f % Fps, R)

\* The tick after a frame's last one is the next frame's first.
LEMMA FrameEnds ==
    ASSUME NEW R \in Rates, R # Fps, NEW f \in Nat, NEW n \in 0 .. R - 1,
           FrameAt(n, R) = f % Fps, FrameAt((n + 1) % R, R) # FrameAt(n, R)
    PROVE  /\ (n + 1) % R \in 0 .. R - 1
           /\ FrameAt((n + 1) % R, R) = (f + 1) % Fps
           /\ ((f + 1) \div Fps) * R + ((n + 1) % R) = (f \div Fps) * R + n + 1
           /\ StageTick(f + 1, R) = (f \div Fps) * R + n + 1
  <1> DEFINE q == f \div Fps
             g == f % Fps
             m == (n + 1) % R
  <1>1. R \in Nat \ {0} /\ R > Fps /\ Fps \in Nat \ {0, 1}
    BY StreamClock
  <1>2. q \in Nat /\ g \in 0 .. Fps - 1
    BY <1>1, DivMod
  <1>3. IF g + 1 < Fps THEN (f + 1) \div Fps = q /\ (f + 1) % Fps = g + 1
                       ELSE (f + 1) \div Fps = q + 1 /\ (f + 1) % Fps = 0
    BY <1>1, NextDivMod
  <1>4. m = IF n + 1 < R THEN n + 1 ELSE 0
    BY <1>1, NextInPeriod
  <1>5. FrameAt(n, R) = g /\ FrameAt(m, R) # g
    OBVIOUS
  <1>6. q * R \in Nat /\ (q + 1) * R = q * R + R
    BY <1>1, <1>2
  <1> HIDE DEF q, g, m
  <1>7. CASE n + 1 < R
    <2>1. m = n + 1 /\ m \in 0 .. R - 1
      BY <1>1, <1>4, <1>7
    <2>2. FrameAt(m, R) = g + 1 /\ g + 1 < Fps
      <3>1. FrameAt(m, R) \in {g, g + 1}
        BY <1>5, <1>7, <2>1, FrameSteps
      <3>2. FrameAt(m, R) \in 0 .. Fps - 1
        BY <2>1, FrameSteps
      <3> QED BY <1>1, <1>2, <1>5, <3>1, <3>2
    <2>3. (f + 1) \div Fps = q /\ (f + 1) % Fps = g + 1
      BY <1>3, <2>2
    <2>4. FrameTick(g + 1, R) = m
      <3>1. PICK h \in 0 .. Fps - 1 : h = g + 1
        BY <1>1, <1>2, <2>2
      <3>2. /\ FrameTick(h, R) \in 0 .. R - 1
            /\ \A k \in Nat : h <= FrameAt(k, R) <=> FrameTick(h, R) <= k
        BY <3>1, FrameTickIs
      <3>3. FrameTick(h, R) <= m /\ ~(FrameTick(h, R) <= n)
        BY <1>1, <1>2, <1>5, <2>1, <2>2, <3>1, <3>2
      <3> QED BY <1>1, <2>1, <3>1, <3>2, <3>3
    <2> QED BY <1>1, <1>6, <2>1, <2>2, <2>3, <2>4 DEF StageTick, q, m
  <1>8. CASE n + 1 = R
    <2>1. m = 0 /\ n = R - 1
      BY <1>1, <1>4, <1>8
    <2>2. g = Fps - 1
      BY <1>1, <1>5, <2>1, FrameSteps
    <2>3. (f + 1) \div Fps = q + 1 /\ (f + 1) % Fps = 0
      BY <1>1, <1>3, <2>2
    <2>4. FrameAt(0, R) = 0 /\ 0 \in 0 .. R - 1
      BY <1>1, FrameSteps
    <2>5. FrameTick(0, R) = 0
      <3>1. 0 \in 0 .. Fps - 1 /\ 0 \in Nat
        BY <1>1
      <3>2. FrameTick(0, R) \in 0 .. R - 1 /\ FrameTick(0, R) <= 0
        BY <2>4, <3>1, FrameTickIs
      <3> QED BY <1>1, <3>2
    <2> QED BY <1>1, <1>6, <1>8, <2>1, <2>3, <2>4, <2>5 DEF StageTick, q, m
  <1> QED BY <1>1, <1>7, <1>8

\* Within a frame the next tick is in the same period.
LEMMA FrameGoesOn ==
    ASSUME NEW R \in Rates, R # Fps, NEW n \in 0 .. R - 1,
           FrameAt((n + 1) % R, R) = FrameAt(n, R)
    PROVE  (n + 1) % R = n + 1 /\ n + 1 \in 0 .. R - 1
  <1>1. R \in Nat \ {0} /\ R > Fps /\ Fps \in Nat \ {0, 1}
    BY StreamClock
  <1>2. (n + 1) % R = IF n + 1 < R THEN n + 1 ELSE 0
    BY <1>1, NextInPeriod
  <1>3. CASE n + 1 = R
    <2>1. FrameAt(n, R) = Fps - 1 /\ FrameAt(0, R) = 0
      BY <1>1, <1>3, FrameSteps
    <2> QED BY <1>1, <1>2, <1>3, <2>1
  <1>4. CASE n + 1 < R
    BY <1>1, <1>2, <1>4
  <1> QED BY <1>1, <1>3, <1>4

-------------------------------------------------------------------------------
(* The invariants. *)

\* A frame of the stage that runs is the one before the replay's next.
InStage ==
    /\ replayFrame > 0 => streaming /\ ticked /\ frameNo = replayFrame - 1
    /\ playing => rate = savedRate /\ replayFrame # NoManager

\* The number of ticks streamed is the stage's own.
StreamInStep ==
    replayFrame > 0 /\ Sliced =>
        IF active
        THEN /\ FrameAt(cur, rate) = frameNo % Fps
             /\ streamTick = (frameNo \div Fps) * rate + cur + 1
        ELSE streamTick = StageTick(replayFrame, rate)

\* Entry i of a stream is tick i of the stage, under the frame it belongs to.
IsTick(e, i, R) ==
    /\ e[2] \in 0 .. R - 1 /\ FrameAt(e[2], R) = e[1] % Fps
    /\ (e[1] \div Fps) * R + e[2] = i - 1
Ticks(s, R) == \A i \in 1 .. Len(s) : IsTick(s[i], i, R)

Streams ==
    /\ replayFrame > 0 /\ Sliced /\ ~playing => Len(rec) = streamTick /\ Ticks(rec, rate)
    /\ saved # <<>> => savedRate # Fps
    /\ Ticks(saved, savedRate)

IInv == TypeOK /\ InStage /\ StreamInStep /\ Streams

\* A fresh start satisfies the invariant.
LEMMA InitIInv == Init => IInv
  <1> SUFFICES ASSUME Init PROVE IInv
    OBVIOUS
  <1>1. Fps \in Rates /\ Fps \in Nat \ {0} /\ NoManager = -1 /\ MaxFrame \in Nat
    BY StreamClock
  <1>2. TypeOK
    <2>1. cur \in 0 .. rate - 1 /\ replayFrame \in NoManager .. MaxFrame
          /\ frameNo \in 0 .. MaxFrame /\ streamTick \in Nat
      BY <1>1 DEF Init
    <2>2. rec \in Seq(Nat \X Nat) /\ saved \in Seq(Nat \X Nat)
      BY DEF Init
    <2> QED BY <1>1, <2>1, <2>2 DEF Init, TypeOK
  <1> QED BY <1>1, <1>2 DEF Init, IInv, InStage, StreamInStep, Streams, Ticks

\* A tick joins the stream of the stage.
LEMMA AppendTick ==
    ASSUME NEW s \in Seq(Nat \X Nat), NEW R, NEW f \in Nat, NEW c \in 0 .. R - 1,
           Ticks(s, R), FrameAt(c, R) = f % Fps, (f \div Fps) * R + c = Len(s), R \in Nat
    PROVE  /\ Append(s, <<f, c>>) \in Seq(Nat \X Nat)
           /\ Len(Append(s, <<f, c>>)) = Len(s) + 1
           /\ Ticks(Append(s, <<f, c>>), R)
  <1> DEFINE e == <<f, c>>
             t == Append(s, e)
  <1>1. e \in Nat \X Nat /\ e[1] = f /\ e[2] = c
    OBVIOUS
  <1>2. t \in Seq(Nat \X Nat) /\ Len(t) = Len(s) + 1 /\ Len(s) \in Nat
    BY <1>1
  <1>3. \A i \in 1 .. Len(s) : t[i] = s[i]
    BY <1>1
  <1>4. t[Len(s) + 1] = e
    BY <1>1
  <1>5. IsTick(e, Len(s) + 1, R)
    BY <1>1, <1>2 DEF IsTick
  <1>6. \A i \in 1 .. Len(t) : i \in 1 .. Len(s) \/ i = Len(s) + 1
    BY <1>2
  <1> HIDE DEF t, e
  <1>7. Ticks(t, R)
    BY <1>3, <1>4, <1>5, <1>6 DEF Ticks
  <1> QED BY <1>2, <1>7 DEF t, e

\* The ranges that the invariant gives.
LEMMA TypeFacts ==
    ASSUME IInv
    PROVE  /\ rate \in Rates /\ rate \in Nat \ {0} /\ savedRate \in Rates
           /\ cur \in 0 .. rate - 1 /\ replayFrame \in Int /\ streamTick \in Nat
           /\ frameNo \in Nat /\ rec \in Seq(Nat \X Nat) /\ saved \in Seq(Nat \X Nat)
  BY StreamClock DEF IInv, TypeOK

\* The next tick is a tick of the period.
LEMMA AdvancedType ==
    ASSUME IInv
    PROVE  Advanced \in 0 .. rate - 1
  <1>1. (cur + 1) % rate \in 0 .. rate - 1 /\ 0 \in 0 .. rate - 1
    <2>1. cur + 1 \in Nat /\ rate \in Nat \ {0}
      BY TypeFacts
    <2> QED BY <2>1, DivMod
  <1> QED BY <1>1, TypeFacts DEF Advanced

\* A frame of the stage begins, at its first tick.
LEMMA FrameTickRunsKeeps == IInv /\ FrameTickRuns => IInv'
  <1> SUFFICES ASSUME IInv, FrameTickRuns PROVE IInv'
    OBVIOUS
  <1>1. /\ AdvancesFrame /\ replayFrame \in 0 .. MaxFrame - 1
        /\ cur' = IF replayFrame = 0 THEN 0
                  ELSE IF Resyncs THEN FrameTick(replayFrame % Fps, rate)
                  ELSE Advanced
        /\ ticked' = TRUE /\ major' = TRUE /\ active' = TRUE
        /\ frameNo' = replayFrame /\ replayFrame' = replayFrame + 1
        /\ streaming' = (streaming \/ replayFrame = 0)
        /\ UNCHANGED <<rate, playing, fileVars>>
    BY DEF FrameTickRuns
  <1>2. /\ Fps \in Nat \ {0, 1} /\ MaxFrame \in Nat /\ NoManager = -1
        /\ rate \in Rates /\ rate \in Nat \ {0} /\ streamTick \in Nat
        /\ rec \in Seq(Nat \X Nat) /\ replayFrame \in Nat
    BY <1>1, StreamClock, TypeFacts
  <1>3. streaming' = TRUE
    <2>1. CASE replayFrame = 0
      BY <1>1, <2>1
    <2>2. CASE replayFrame # 0
      <3>1. streaming /\ streaming \in BOOLEAN
        BY <1>2, <2>2 DEF IInv, InStage, TypeOK
      <3> QED BY <1>1, <3>1
    <2> QED BY <2>1, <2>2
  <1>4. InStage'
    BY <1>1, <1>2, <1>3 DEF IInv, InStage, fileVars
  <1>5. CASE replayFrame = 0
    <2>1. /\ cur' = 0 /\ frameNo' = 0 /\ replayFrame' = 1
          /\ streamTick' = IF Sliced THEN 1 ELSE 0
          /\ rec' = IF playing THEN rec ELSE IF Sliced THEN <<<<0, 0>>>> ELSE <<>>
      BY <1>1, <1>5 DEF FrameTickRuns
    <2>2. rec' \in Seq(Nat \X Nat)
      <3>1. <<<<0, 0>>>> \in Seq(Nat \X Nat) /\ <<>> \in Seq(Nat \X Nat)
        OBVIOUS
      <3> QED BY <1>2, <2>1, <3>1
    <2>3. 0 \in 0 .. rate - 1 /\ 0 \div Fps = 0 /\ 0 % Fps = 0 /\ 0 * rate = 0
      BY <1>2
    <2>4. Sliced => FrameAt(0, rate) = 0
      BY <1>2, <2>3, FrameSteps DEF Sliced
    <2>5. TypeOK'
      BY <1>1, <1>2, <1>3, <2>1, <2>2, <2>3 DEF IInv, TypeOK, fileVars
    <2>6. StreamInStep'
      BY <1>1, <1>2, <2>1, <2>3, <2>4 DEF StreamInStep, Sliced
    <2>7. Streams'
      <3>1. ASSUME Sliced, ~playing PROVE Len(rec') = 1 /\ Ticks(rec', rate)
        <4>1. rec' = <<<<0, 0>>>>
          BY <2>1, <3>1
        <4>2. Len(rec') = 1 /\ rec'[1] = <<0, 0>>
          BY <4>1
        <4> QED BY <2>3, <2>4, <3>1, <4>2 DEF Ticks, IsTick
      <3> QED BY <1>1, <2>1, <3>1 DEF IInv, Streams, Sliced, fileVars, Ticks
    <2> QED BY <1>4, <2>5, <2>6, <2>7 DEF IInv
  <1>6. CASE replayFrame > 0 /\ ~Sliced
    <2>1. UNCHANGED <<streamTick, rec>>
      BY <1>1, <1>2, <1>6 DEF FrameTickRuns, SubtickActive
    <2>2. cur' \in 0 .. rate - 1
      BY <1>1, <1>6, AdvancedType DEF Resyncs
    <2>3. TypeOK'
      BY <1>1, <1>2, <1>3, <2>1, <2>2 DEF IInv, TypeOK, fileVars
    <2>4. StreamInStep' /\ Streams'
      BY <1>1, <1>6, <2>1 DEF IInv, StreamInStep, Streams, Sliced, fileVars
    <2> QED BY <1>4, <2>3, <2>4 DEF IInv
  <1>7. CASE replayFrame > 0 /\ Sliced
    <2> DEFINE f == replayFrame
    <2>1. /\ streamTick' = streamTick + 1
          /\ rec' = IF playing THEN rec ELSE Append(rec, <<f, cur'>>)
      <3>1. SubtickActive(TRUE, streaming)
        BY <1>2, <1>7 DEF IInv, InStage, SubtickActive
      <3> QED BY <1>1, <1>7, <3>1 DEF FrameTickRuns, EndOfTick
    <2>2. /\ cur' \in 0 .. rate - 1 /\ FrameAt(cur', rate) = f % Fps
          /\ (f \div Fps) * rate + cur' = streamTick
      <3>1. CASE active
        <4>1. /\ ticked /\ f = frameNo + 1 /\ frameNo \in Nat
              /\ FrameAt(cur, rate) = frameNo % Fps
              /\ streamTick = (frameNo \div Fps) * rate + cur + 1
          BY <1>2, <1>7, <3>1, TypeFacts DEF IInv, InStage, StreamInStep
        <4>2. cur' = (cur + 1) % rate
          BY <1>1, <1>7, <3>1, <4>1 DEF Resyncs, Advanced
        <4>3. FrameAt((cur + 1) % rate, rate) # FrameAt(cur, rate)
          BY <1>1, <1>7, <4>1 DEF AdvancesFrame, Advanced
        <4> QED BY ZenonT(40), <1>2, <1>7, <4>1, <4>2, <4>3, TypeFacts, FrameEnds DEF Sliced
      <3>2. CASE ~active
        <4>1. Resyncs
          BY <1>7, <3>2 DEF IInv, InStage, Resyncs
        <4>2. cur' = FrameTick(f % Fps, rate)
          BY <1>1, <1>7, <4>1
        <4>3. streamTick = StageTick(f, rate)
          BY <1>7, <3>2 DEF IInv, StreamInStep
        <4>4. f % Fps \in 0 .. Fps - 1
          BY <1>2, DivMod
        <4> QED BY <1>2, <1>7, <4>2, <4>3, <4>4, FrameTickIs DEF Sliced, StageTick
      <3> QED BY <3>1, <3>2 DEF IInv, TypeOK
    <2>3. f \div Fps \in Nat /\ f \in Nat
      BY <1>2, DivMod
    <2>4. ASSUME ~playing
          PROVE  /\ rec' \in Seq(Nat \X Nat) /\ Len(rec') = streamTick' /\ Ticks(rec', rate)
      <3>1. Len(rec) = streamTick /\ Ticks(rec, rate)
        BY <1>7, <2>4 DEF IInv, Streams
      <3>2. rec' = Append(rec, <<f, cur'>>)
        BY <2>1, <2>4
      <3>3. PICK c \in 0 .. rate - 1 : c = cur'
        BY <2>2
      <3>4. FrameAt(c, rate) = f % Fps /\ (f \div Fps) * rate + c = Len(rec)
        BY <2>2, <3>1, <3>3
      <3>5. /\ Append(rec, <<f, c>>) \in Seq(Nat \X Nat)
            /\ Len(Append(rec, <<f, c>>)) = Len(rec) + 1
            /\ Ticks(Append(rec, <<f, c>>), rate)
        BY <1>2, <3>1, <3>4, AppendTick
      <3> QED BY <2>1, <3>1, <3>2, <3>3, <3>5
    <2>5. rec' \in Seq(Nat \X Nat)
      BY <1>2, <2>1, <2>4
    <2>6. TypeOK'
      <3>1. streamTick' \in Nat /\ frameNo' \in 0 .. MaxFrame
            /\ replayFrame' \in NoManager .. MaxFrame
        BY <1>1, <1>2, <2>1
      <3> QED BY <1>1, <1>3, <2>2, <2>5, <3>1 DEF IInv, TypeOK, fileVars
    <2>7. StreamInStep'
      <3>1. streamTick' = (f \div Fps) * rate + cur' + 1
        BY <1>2, <2>1, <2>2, <2>3
      <3> QED BY <1>1, <2>2, <3>1 DEF StreamInStep, Sliced
    <2>8. Streams'
      BY <1>1, <2>4 DEF IInv, Streams, fileVars, Ticks
    <2> QED BY <1>4, <2>6, <2>7, <2>8 DEF IInv
  <1> QED BY <1>2, <1>5, <1>6, <1>7

\* A pause, or what is no stage: the stage stands at its next frame.
LEMMA FrameTickIdleKeeps == IInv /\ FrameTickIdle => IInv'
  <1> SUFFICES ASSUME IInv, FrameTickIdle PROVE IInv'
    OBVIOUS
  <1>1. /\ AdvancesFrame /\ cur' = Advanced
        /\ ticked' = TRUE /\ major' = TRUE /\ active' = FALSE
        /\ UNCHANGED <<rate, replayFrame, playing, streaming, streamTick, rec, saved,
                       savedRate, frameNo>>
    BY DEF FrameTickIdle, fileVars
  <1>2. TypeOK'
    BY <1>1, AdvancedType DEF IInv, TypeOK
  <1>3. InStage' /\ Streams'
    BY <1>1 DEF IInv, InStage, Streams, Sliced, Ticks
  <1>4. ASSUME replayFrame > 0, Sliced PROVE streamTick = StageTick(replayFrame, rate)
    <2>1. CASE active
      <3>1. /\ ticked /\ replayFrame = frameNo + 1 /\ frameNo \in Nat
            /\ FrameAt(cur, rate) = frameNo % Fps
            /\ streamTick = (frameNo \div Fps) * rate + cur + 1
        BY <1>4, <2>1, TypeFacts DEF IInv, InStage, StreamInStep
      <3>2. FrameAt((cur + 1) % rate, rate) # FrameAt(cur, rate)
        BY <1>1, <1>4, <3>1 DEF AdvancesFrame, Advanced
      <3> QED BY <1>4, <3>1, <3>2, TypeFacts, FrameEnds DEF Sliced
    <2>2. CASE ~active
      BY <1>4, <2>2 DEF IInv, StreamInStep
    <2> QED BY <2>1, <2>2 DEF IInv, TypeOK
  <1>5. StreamInStep'
    BY <1>1, <1>4 DEF StreamInStep, Sliced
  <1> QED BY <1>2, <1>3, <1>5 DEF IInv

\* A tick within a frame.
LEMMA MinorTickGoesOn ==
    ASSUME IInv, MinorTick
    PROVE  /\ Sliced /\ ticked /\ cur' = cur + 1 /\ cur' \in 0 .. rate - 1
           /\ FrameAt(cur', rate) = FrameAt(cur, rate)
  <1>1. /\ Sliced /\ ticked /\ cur' = (cur + 1) % rate
        /\ FrameAt((cur + 1) % rate, rate) = FrameAt(cur, rate)
    BY DEF MinorTick, AdvancesFrame, Advanced
  <1> QED BY <1>1, TypeFacts, FrameGoesOn DEF Sliced

\* A tick between two frame ticks keeps the invariant.
LEMMA MinorTickKeeps == IInv /\ MinorTick => IInv'
  <1> SUFFICES ASSUME IInv, MinorTick PROVE IInv'
    OBVIOUS
  <1>1. /\ ticked' = TRUE /\ major' = FALSE
        /\ UNCHANGED <<rate, replayFrame, playing, active, streaming, saved, savedRate,
                       frameNo>>
        /\ IF SubtickActive(active, streaming)
           THEN EndOfTick(<<frameNo, cur'>>) ELSE UNCHANGED <<streamTick, rec>>
    BY DEF MinorTick, fileVars
  <1>2. /\ Sliced /\ cur' = cur + 1 /\ cur' \in 0 .. rate - 1
        /\ FrameAt(cur', rate) = FrameAt(cur, rate)
    BY MinorTickGoesOn
  <1>3. InStage'
    BY <1>1 DEF IInv, InStage
  <1>4. streamTick' \in Nat /\ rec' \in Seq(Nat \X Nat)
    <2>1. cur' \in Nat /\ frameNo \in Nat
      BY <1>2, TypeFacts
    <2>2. Append(rec, <<frameNo, cur'>>) \in Seq(Nat \X Nat)
      BY <2>1, TypeFacts
    <2>3. CASE SubtickActive(active, streaming)
      <3>1. streamTick' = streamTick + 1 /\ rec' \in {rec, Append(rec, <<frameNo, cur'>>)}
        BY <1>1, <2>3 DEF EndOfTick
      <3>2. streamTick \in Nat /\ rec \in Seq(Nat \X Nat)
        BY TypeFacts
      <3>3. streamTick' \in Nat
        BY <3>1, <3>2
      <3>4. rec' \in Seq(Nat \X Nat)
        BY <2>2, <3>1, <3>2
      <3> QED BY <3>3, <3>4
    <2>4. CASE ~SubtickActive(active, streaming)
      BY <1>1, <2>4, TypeFacts
    <2> QED BY <2>3, <2>4
  <1>5. TypeOK'
    BY <1>1, <1>2, <1>4 DEF IInv, TypeOK
  <1>6. ASSUME replayFrame > 0, active
        PROVE  /\ StreamInStep'
               /\ ~playing => Len(rec') = streamTick' /\ Ticks(rec', rate)
    <2>1. SubtickActive(active, streaming)
      BY <1>2, <1>6, StreamClock, TypeFacts DEF IInv, InStage, SubtickActive
    <2>2. /\ streamTick' = streamTick + 1
          /\ rec' = IF playing THEN rec ELSE Append(rec, <<frameNo, cur'>>)
      BY <1>1, <2>1 DEF EndOfTick
    <2>3. /\ FrameAt(cur, rate) = frameNo % Fps
          /\ streamTick = (frameNo \div Fps) * rate + cur + 1
      BY <1>2, <1>6 DEF IInv, StreamInStep
    <2>4. frameNo \in Nat /\ frameNo \div Fps \in Nat /\ (frameNo \div Fps) * rate \in Nat
      <3>1. frameNo \in Nat /\ rate \in Nat /\ Fps \in Nat \ {0}
        BY TypeFacts, StreamClock
      <3>2. frameNo \div Fps \in Nat
        BY <3>1, DivMod
      <3> QED BY <3>1, <3>2
    <2>5. (frameNo \div Fps) * rate + cur' = streamTick
      BY SMTT(40), <1>2, <2>3, <2>4, TypeFacts
    <2>6. StreamInStep'
      <3>1. streamTick' = (frameNo \div Fps) * rate + cur' + 1
        BY <2>2, <2>5, <2>4, <1>2
      <3> QED BY <1>1, <1>2, <1>6, <2>3, <3>1 DEF StreamInStep, Sliced
    <2>7. ASSUME ~playing PROVE Len(rec') = streamTick' /\ Ticks(rec', rate)
      <3>1. Len(rec) = streamTick /\ Ticks(rec, rate)
        BY <1>2, <1>6, <2>7 DEF IInv, Streams
      <3>2. PICK c \in 0 .. rate - 1 : c = cur'
        BY <1>2
      <3>3. FrameAt(c, rate) = frameNo % Fps /\ (frameNo \div Fps) * rate + c = Len(rec)
        BY <1>2, <2>3, <2>5, <3>1, <3>2
      <3>4. rate \in Nat /\ frameNo \in Nat /\ rec \in Seq(Nat \X Nat)
        BY TypeFacts
      <3>5. /\ Len(Append(rec, <<frameNo, c>>)) = Len(rec) + 1
            /\ Ticks(Append(rec, <<frameNo, c>>), rate)
        BY <3>1, <3>3, <3>4, AppendTick
      <3> QED BY <2>2, <2>7, <3>1, <3>2, <3>5
    <2> QED BY <2>6, <2>7
  <1>7. ASSUME ~active PROVE UNCHANGED <<streamTick, rec>>
    BY <1>1, <1>7 DEF SubtickActive
  <1>8. StreamInStep'
    BY <1>1, <1>6, <1>7 DEF IInv, StreamInStep, Sliced
  <1>9. Streams'
    BY <1>1, <1>6, <1>7 DEF IInv, Streams, Sliced, Ticks, TypeOK
  <1> QED BY <1>3, <1>5, <1>8, <1>9 DEF IInv

-------------------------------------------------------------------------------
(* Sessions. *)

\* What a change of the rate leaves of a stage, when it does not change it.
LEMMA SetLogicRateType ==
    ASSUME IInv, NEW r \in Rates, SetLogicRate(r)
    PROVE  /\ rate' \in Rates /\ cur' \in 0 .. rate' - 1
           /\ {ticked', major'} \subseteq BOOLEAN /\ rate' = r
  <1>1. rate' = r /\ ticked' = FALSE /\ cur' = 0 /\ major' = TRUE
    BY DEF SetLogicRate
  <1>2. 0 \in 0 .. r - 1
    BY StreamClock
  <1>3. cur' \in 0 .. rate' - 1
    BY <1>1, <1>2
  <1> QED BY <1>1, <1>3

\* So does a rate chosen in the menu,
LEMMA UiRateKeeps ==
    ASSUME IInv, NEW r \in RateInputs, UiRate(r)
    PROVE  IInv'
  <1>1. /\ replayFrame = NoManager /\ ~playing /\ r \in Rates
        /\ UNCHANGED <<replayFrame, playing, active, streaming, streamTick, rec, saved,
                       savedRate, frameNo>>
    BY StreamClock DEF UiRate, streamVars, fileVars
  <1>2. /\ rate' \in Rates /\ cur' \in 0 .. rate' - 1
        /\ {ticked', major'} \subseteq BOOLEAN
    <2>1. CASE SetLogicRate(r)
      BY <1>1, <2>1, SetLogicRateType
    <2>2. CASE UNCHANGED <<rate, ticked, cur, major>>
      BY <2>2 DEF IInv, TypeOK
    <2> QED BY <2>1, <2>2 DEF UiRate, Recompute
  <1>3. TypeOK'
    BY <1>1, <1>2 DEF IInv, TypeOK
  <1>4. InStage' /\ StreamInStep'
    BY <1>1, StreamClock DEF InStage, StreamInStep
  <1>5. Streams'
    BY <1>1, StreamClock DEF IInv, Streams, Ticks
  <1> QED BY <1>3, <1>4, <1>5 DEF IInv

\* Where the display keeps its rate, a reset of the device in a stage changes
\* nothing: a recording's rate is the display's, a playback's the recording's.
LEMMA DeviceResetKeeps ==
    ASSUME ~DisplayChanges, IInv, NEW r \in RateInputs, DeviceReset(r)
    PROVE  IInv'
  <1>1. /\ replayFrame # NoManager /\ ~playing => r = rate
        /\ r \in Rates
        /\ Recompute(IF playing THEN savedRate ELSE r)
        /\ UNCHANGED <<replayFrame, playing, active, streaming, streamTick, rec, saved,
                       savedRate, frameNo>>
    BY StreamClock DEF DeviceReset, streamVars, fileVars
  <1>2. PICK w \in Rates : w = IF playing THEN savedRate ELSE r
    BY <1>1, TypeFacts
  <1>3. CASE SetLogicRate(w) /\ (w # rate \/ ~ticked)
    <2>1. /\ rate' \in Rates /\ cur' \in 0 .. rate' - 1
          /\ {ticked', major'} \subseteq BOOLEAN /\ rate' = w
      BY <1>3, SetLogicRateType
    <2>2. TypeOK'
      BY <1>1, <2>1 DEF IInv, TypeOK
    <2>3. ~(replayFrame > 0)
      BY <1>1, <1>2, <1>3, StreamClock DEF IInv, InStage
    <2>4. InStage' /\ StreamInStep' /\ Streams'
      BY <1>1, <1>2, <2>1, <2>3 DEF IInv, InStage, StreamInStep, Streams, Ticks
    <2> QED BY <2>2, <2>4 DEF IInv
  <1>4. CASE UNCHANGED <<rate, ticked, cur, major>>
    <2>1. TypeOK' /\ InStage'
      BY <1>1, <1>4 DEF IInv, TypeOK, InStage
    <2>2. StreamInStep' /\ Streams'
      BY <1>1, <1>4 DEF IInv, StreamInStep, Streams, Sliced, Ticks
    <2> QED BY <2>1, <2>2 DEF IInv
  <1> QED BY <1>1, <1>2, <1>3, <1>4 DEF Recompute

\* a stage begun or begun again,
LEMMA BeginStageKeeps == IInv /\ BeginStage => IInv'
  <1> SUFFICES ASSUME IInv, BeginStage PROVE IInv'
    OBVIOUS
  <1>1. /\ ~playing /\ replayFrame' = 0
        /\ UNCHANGED <<rate, ticked, cur, major, playing, active, streaming, streamTick,
                       rec, saved, savedRate, frameNo>>
    BY DEF BeginStage, streamVars, fileVars
  <1>2. TypeOK'
    BY <1>1, StreamClock DEF IInv, TypeOK
  <1>3. InStage' /\ StreamInStep' /\ Streams'
    BY <1>1 DEF IInv, InStage, StreamInStep, Streams, Ticks
  <1> QED BY <1>2, <1>3 DEF IInv

\* a playback at the file's rate,
LEMMA BeginPlaybackKeeps == IInv /\ BeginPlayback => IInv'
  <1> SUFFICES ASSUME IInv, BeginPlayback PROVE IInv'
    OBVIOUS
  <1>1. /\ playing' = TRUE /\ replayFrame' = 0 /\ SetLogicRate(savedRate)
        /\ UNCHANGED <<active, streaming, streamTick, rec, saved, savedRate, frameNo>>
    BY DEF BeginPlayback, streamVars, fileVars
  <1>2. /\ rate' \in Rates /\ cur' \in 0 .. rate' - 1
        /\ {ticked', major'} \subseteq BOOLEAN /\ rate' = savedRate
    BY <1>1, TypeFacts, SetLogicRateType
  <1>3. TypeOK'
    <2>1. 0 \in NoManager .. MaxFrame
      BY StreamClock
    <2> QED BY <1>1, <1>2, <2>1 DEF IInv, TypeOK
  <1>4. InStage' /\ StreamInStep' /\ Streams'
    BY <1>1, <1>2, StreamClock DEF IInv, InStage, StreamInStep, Streams, Ticks
  <1> QED BY <1>3, <1>4 DEF IInv

\* What is saved is the stage as far as it has come, at the rate it has had.
LEMMA SaveReplayKeeps == IInv /\ SaveReplay => IInv'
  <1> SUFFICES ASSUME IInv, SaveReplay PROVE IInv'
    OBVIOUS
  <1>1. /\ ~playing /\ replayFrame > 0 /\ Sliced /\ saved' = rec /\ savedRate' = rate
        /\ UNCHANGED <<rate, ticked, cur, major, replayFrame, playing, active, streaming,
                       streamTick, rec, frameNo>>
    BY DEF SaveReplay, streamVars
  <1>2. TypeOK' /\ InStage'
    BY <1>1 DEF IInv, TypeOK, InStage
  <1>3. StreamInStep' /\ Streams'
    BY <1>1 DEF IInv, StreamInStep, Streams, Sliced, Ticks
  <1> QED BY <1>2, <1>3 DEF IInv

\* and leaving the stage.
LEMMA LeaveStageKeeps ==
    ASSUME IInv, NEW r \in RateInputs, LeaveStage(r)
    PROVE  IInv'
  <1>1. /\ replayFrame' = NoManager /\ playing' = FALSE /\ r \in Rates
        /\ UNCHANGED <<active, streaming, streamTick, rec, saved, savedRate, frameNo>>
    BY StreamClock DEF LeaveStage, streamVars, fileVars
  <1>2. /\ rate' \in Rates /\ cur' \in 0 .. rate' - 1
        /\ {ticked', major'} \subseteq BOOLEAN
    <2>1. CASE SetLogicRate(r)
      BY <1>1, <2>1, SetLogicRateType
    <2>2. CASE UNCHANGED <<rate, ticked, cur, major>>
      BY <2>2 DEF IInv, TypeOK
    <2> QED BY <2>1, <2>2 DEF LeaveStage
  <1>3. TypeOK'
    <2>1. NoManager \in NoManager .. MaxFrame
      BY StreamClock
    <2> QED BY <1>1, <1>2, <2>1 DEF IInv, TypeOK
  <1>4. InStage' /\ StreamInStep' /\ Streams'
    BY <1>1, StreamClock DEF IInv, InStage, StreamInStep, Streams, Ticks
  <1> QED BY <1>3, <1>4 DEF IInv

\* Every step keeps the invariant,
LEMMA NextIInv ==
    ASSUME ~DisplayChanges
    PROVE  IInv /\ [Next]_vars => IInv'
  <1> SUFFICES ASSUME IInv, [Next]_vars PROVE IInv'
    OBVIOUS
  <1>1. CASE FrameTickRuns
    BY <1>1, FrameTickRunsKeeps
  <1>2. CASE FrameTickIdle
    BY <1>2, FrameTickIdleKeeps
  <1>3. CASE MinorTick
    BY <1>3, MinorTickKeeps
  <1>4. CASE BeginStage
    BY <1>4, BeginStageKeeps
  <1>5. CASE BeginPlayback
    BY <1>5, BeginPlaybackKeeps
  <1>6. CASE SaveReplay
    BY <1>6, SaveReplayKeeps
  <1>7. CASE \E r \in RateInputs : UiRate(r)
    BY <1>7, UiRateKeeps
  <1>8. CASE \E r \in RateInputs : DeviceReset(r)
    BY <1>8, DeviceResetKeeps
  <1>9. CASE \E r \in RateInputs : LeaveStage(r)
    BY <1>9, LeaveStageKeeps
  <1>10. CASE UNCHANGED vars
    <2>1. UNCHANGED <<rate, ticked, cur, major, replayFrame, playing, active, streaming,
                      streamTick, rec, saved, savedRate, frameNo>>
      BY <1>10 DEF vars, streamVars, fileVars
    <2>2. TypeOK' /\ InStage'
      BY <2>1 DEF IInv, TypeOK, InStage
    <2>3. StreamInStep' /\ Streams'
      BY <2>1 DEF IInv, StreamInStep, Streams, Sliced, Ticks
    <2> QED BY <2>2, <2>3 DEF IInv
  <1> QED BY <1>1, <1>2, <1>3, <1>4, <1>5, <1>6, <1>7, <1>8, <1>9, <1>10 DEF Next

\* so it holds throughout.
LEMMA Invariance ==
    ASSUME ~DisplayChanges
    PROVE  Spec => []IInv
  BY InitIInv, NextIInv, PTL DEF Spec

\* While a stage is not re-sliced under way, the tick a frame is at and the
\* number of ticks streamed are functions of the replay frame, whatever pauses,
\* retries and sessions went before (advance_tick, pause_resync_begin).
THEOREM FramesSliceAlike ==
    ASSUME ~DisplayChanges
    PROVE  Spec => []SlicedByFrame
  <1>1. IInv => SlicedByFrame
    BY DEF IInv, StreamInStep, SlicedByFrame
  <1> QED BY <1>1, Invariance, PTL

\* A saved stream is the stage's ticks from the first, none missing and none
\* twice (subtick_input_end, hfr_replay_save).
THEOREM StreamsAreStages ==
    ASSUME ~DisplayChanges
    PROVE  Spec => []StreamIsTheStage
  <1>1. IInv => StreamIsTheStage
    BY DEF IInv, Streams, Ticks, IsTick, StreamIsTheStage
  <1> QED BY <1>1, Invariance, PTL

\* A playback reads on every tick what was recorded on that tick
\* (subtick_input_begin).
THEOREM PlaybackIsTheRecording ==
    ASSUME ~DisplayChanges
    PROVE  Spec => PlaybackReadsOwnTick
  <1>1. ASSUME IInv, MinorTick, playing, replayFrame > 0, SubtickActive(active, streaming),
               streamTick < Len(saved)
        PROVE  saved[streamTick + 1] = <<frameNo, cur'>>
    <2> DEFINE i == streamTick + 1
               e == saved[i]
    <2>1. /\ Sliced /\ active /\ savedRate = rate /\ rate \in Rates /\ rate \in Nat \ {0}
          /\ streamTick \in Nat /\ frameNo \in Nat /\ saved \in Seq(Nat \X Nat)
      BY <1>1, TypeFacts DEF IInv, InStage, SubtickActive
    <2>2. i \in 1 .. Len(saved) /\ e \in Nat \X Nat
      BY <1>1, <2>1
    <2>3. /\ e[2] \in 0 .. rate - 1 /\ FrameAt(e[2], rate) = e[1] % Fps
          /\ (e[1] \div Fps) * rate + e[2] = i - 1
      BY <1>1, <2>1, <2>2 DEF IInv, Streams, Ticks, IsTick
    <2>4. /\ cur' = cur + 1 /\ cur' \in 0 .. rate - 1
          /\ FrameAt(cur', rate) = FrameAt(cur, rate)
      BY <1>1, MinorTickGoesOn
    <2>5. /\ FrameAt(cur, rate) = frameNo % Fps
          /\ streamTick = (frameNo \div Fps) * rate + cur + 1
      BY <1>1, <2>1 DEF IInv, StreamInStep
    <2>6. Fps \in Nat \ {0} /\ e[1] \in Nat
      BY <2>2, StreamClock
    <2>7. e[1] \div Fps \in Nat /\ frameNo \div Fps \in Nat
      BY <2>1, <2>6, DivMod
    <2>8. (frameNo \div Fps) * rate + cur' = i - 1
      <3>1. (frameNo \div Fps) * rate \in Nat /\ cur \in Nat
        <4>1. \A a, b \in Nat : a * b \in Nat
          OBVIOUS
        <4>2. cur \in Nat
          BY <1>1, TypeFacts
        <4> QED BY <2>1, <2>7, <4>1, <4>2
      <3> QED BY <2>1, <2>4, <2>5, <3>1
    <2>9. e[1] \div Fps = frameNo \div Fps /\ e[2] = cur'
      <3>1. PICK q \in Nat, p \in Nat, r \in 0 .. rate - 1, s \in 0 .. rate - 1 :
                /\ q = e[1] \div Fps /\ p = frameNo \div Fps /\ r = e[2] /\ s = cur'
        BY <2>3, <2>4, <2>7
      <3>2. q * rate + r = p * rate + s
        BY <2>3, <2>8, <3>1
      <3>3. PICK b \in Nat \ {0} : b = rate
        BY <2>1
      <3>4. q * b + r = p * b + s /\ r \in 0 .. b - 1 /\ s \in 0 .. b - 1
        BY <3>1, <3>2, <3>3
      <3>5. q = p /\ r = s
        BY <3>4, SamePlace
      <3> QED BY <3>1, <3>5
    <2>10. e[1] % Fps = frameNo % Fps
      BY <2>3, <2>4, <2>5, <2>9
    <2>11. e[1] = frameNo
      <3>1. /\ e[1] = (e[1] \div Fps) * Fps + (e[1] % Fps)
            /\ frameNo = (frameNo \div Fps) * Fps + (frameNo % Fps)
        BY <2>1, <2>6, DivMod
      <3> QED BY <2>9, <2>10, <3>1
    <2> QED BY <2>2, <2>9, <2>11
  <1>2. IInv => (MinorTick /\ playing /\ replayFrame > 0 /\ SubtickActive(active, streaming)
                   => Fed \subseteq {<<frameNo, cur'>>})
    BY <1>1 DEF Fed
  <1> QED BY <1>2, Invariance, PTL DEF PlaybackReadsOwnTick

-------------------------------------------------------------------------------
(* The ticks of a stepped system. *)

\* The constants of the systems, in the forms the proofs use.
LEMMA SystemClock ==
    /\ TestRates \subseteq Rates /\ Full \in Nat \ {0} /\ Speeds \subseteq 1 .. Full
    /\ Cycle \in Nat \ {0} /\ Velocity \in Nat \ {0} /\ Life \in Nat \ {0}
    /\ One \in Nat \ {0} /\ One = Full * UnitsPerFrame
    /\ \A R \in Rates : R <= Span
  <1>1. Full * UnitsPerFrame \in Nat \ {0}
    BY SystemConstants, Period
  <1>2. Span \in Nat /\ \A R \in Rates : R \in Nat /\ R <= MaxRate
    BY Period DEF Span
  <1> QED BY SystemConstants, Period, <1>1, <1>2 DEF One

\* A tick starts where n/R of the period ends, rounded down.
LEMMA StartIs ==
    ASSUME NEW R \in Rates, NEW n \in Nat
    PROVE  /\ Start(n, R) \in Nat
           /\ \A k \in Int : k <= Start(n, R) <=> k * R <= n * Span
  <1>1. Span \in Nat /\ R \in Nat \ {0}
    BY Period DEF Span
  <1>2. n * Span \in Nat
    BY <1>1
  <1> QED BY <1>1, <1>2, Floor DEF Start

\* A tick has a unit or more, and a frame's at most.
LEMMA TickLength ==
    ASSUME NEW R \in Rates, NEW n \in Nat
    PROVE  Start(n + 1, R) - Start(n, R) \in 1 .. UnitsPerFrame
  <1> DEFINE a == Start(n, R)
             b == Start(n + 1, R)
             U == UnitsPerFrame
  <1>1. Span \in Nat /\ R \in Nat \ {0} /\ R <= Span /\ U \in Nat \ {0} /\ Span <= U * R
    <2>1. Fps * U <= R * U /\ R * U = U * R
      BY Period, MulMono
    <2> QED BY Period, SystemClock, <2>1 DEF Span
  <1>2. a \in Nat /\ \A k \in Int : k <= a <=> k * R <= n * Span
    BY StartIs
  <1>3. b \in Nat /\ \A k \in Int : k <= b <=> k * R <= (n + 1) * Span
    BY StartIs
  <1> HIDE DEF a, b, U
  <1>4. (n + 1) * Span = n * Span + Span /\ n * Span \in Nat
    BY <1>1
  <1>5. a * R <= n * Span /\ ~((a + 1) * R <= n * Span) /\ b * R <= n * Span + Span
    BY <1>2, <1>3, <1>4
  <1>6. (a + 1) * R = a * R + R /\ a * R \in Nat /\ b * R \in Nat
    BY <1>1, <1>2, <1>3
  <1>7. a + 1 <= b
    BY <1>1, <1>2, <1>3, <1>4, <1>5, <1>6
  <1>8. b <= a + U
    <2> SUFFICES ASSUME a + U + 1 <= b PROVE FALSE
      BY <1>1, <1>2, <1>3
    <2>1. (a + U + 1) * R = (a + 1) * R + U * R /\ U * R \in Nat
      BY <1>1, <1>2
    <2>2. (a + U + 1) * R <= b * R
      BY <1>1, <1>2, <1>3, MulMono
    <2> QED BY <1>1, <1>4, <1>5, <1>6, <2>1, <2>2
  <1> QED BY <1>1, <1>2, <1>3, <1>7, <1>8 DEF a, b, U

\* Where in its frame a tick starts, and whether it is the frame's first.
Place(n, R) == Start(n, R) - UnitsPerFrame * FrameAt(n, R)
OnTick(n, R) == n = FrameTick(FrameAt(n, R), R)

\* Where a tick starts, from the end of the last frame that has begun.
Past(n, R) == IF OnTick(n, R) THEN Place(n, R) ELSE Place(n, R) - UnitsPerFrame

LEMMA PastBounds ==
    ASSUME NEW R \in Rates, NEW n \in Nat
    PROVE  /\ Past(n, R) \in Int
           /\ OnTick(n, R) => Past(n, R) \in 0 .. UnitsPerFrame - 1
           /\ ~OnTick(n, R) => Past(n, R) \in -UnitsPerFrame .. -1
  <1> DEFINE s == Start(n, R)
             q == s \div UnitsPerFrame
             r == s % UnitsPerFrame
  <1>1. s \in Nat /\ UnitsPerFrame \in Nat \ {0}
    BY StartIs, Period
  <1>2. q \in Nat /\ r \in 0 .. UnitsPerFrame - 1 /\ s = q * UnitsPerFrame + r
    BY <1>1, DivMod
  <1>3. Place(n, R) = s - UnitsPerFrame * q
    BY DEF Place, FrameAt
  <1> HIDE DEF s, q, r
  <1>4. UnitsPerFrame * q = q * UnitsPerFrame /\ q * UnitsPerFrame \in Nat
    BY <1>1, <1>2
  <1>5. Place(n, R) = r
    BY <1>2, <1>3, <1>4
  <1> QED BY <1>1, <1>2, <1>5 DEF Past

\* A period's first tick is a frame's, and starts with it.
LEMMA FirstTick ==
    ASSUME NEW R \in Rates
    PROVE  OnTick(0, R) /\ Past(0, R) = 0
  <1>1. R \in Nat \ {0} /\ Fps \in Nat \ {0} /\ UnitsPerFrame \in Nat \ {0} /\ 0 \in 0 .. R - 1
    BY Period
  <1>2. FrameAt(0, R) = 0 /\ 0 \in 0 .. Fps - 1 /\ 0 \in Nat
    BY <1>1, FrameSteps
  <1>3. FrameTick(0, R) \in 0 .. R - 1 /\ FrameTick(0, R) <= 0
    BY <1>2, FrameTickIs
  <1>4. OnTick(0, R)
    BY <1>1, <1>2, <1>3 DEF OnTick
  <1>5. Start(0, R) = 0
    <2>1. Start(0, R) \in Nat /\ ~(1 <= Start(0, R))
      BY <1>1, StartIs, Period DEF Span
    <2> QED BY <2>1
  <1> QED BY <1>1, <1>2, <1>4, <1>5 DEF Past, Place

\* From one tick to the next that moves on by the tick's length, and back by a
\* frame where one begins.
LEMMA NextPast ==
    ASSUME NEW R \in Rates, NEW n \in 0 .. R - 1
    PROVE  /\ (n + 1) % R \in 0 .. R - 1
           /\ Past((n + 1) % R, R) = Past(n, R) + (Start(n + 1, R) - Start(n, R))
                                     - (IF OnTick(n, R) THEN UnitsPerFrame ELSE 0)
  <1> DEFINE f == FrameAt(n, R)
             U == UnitsPerFrame
             a == Start(n, R)
             b == Start(n + 1, R)
  <1>1. R \in Nat \ {0} /\ Fps \in Nat \ {0} /\ U \in Nat \ {0} /\ n \in Nat
    BY Period
  <1>2. (n + 1) % R = IF n + 1 < R THEN n + 1 ELSE 0
    BY <1>1, NextInPeriod
  <1>3. a \in Nat /\ b \in Nat
    BY <1>1, StartIs
  <1>4. f \in 0 .. Fps - 1
    BY FrameSteps
  <1>5. Past(n, R) = (a - U * f) - (IF OnTick(n, R) THEN 0 ELSE U)
    BY <1>1, <1>3, <1>4 DEF Past, Place
  <1>6. CASE n + 1 < R
    <2> DEFINE g == FrameAt(n + 1, R)
    <2>1. g \in {f, f + 1} /\ g \in 0 .. Fps - 1 /\ n + 1 \in 0 .. R - 1 /\ n + 1 \in Nat
      <3>1. n + 1 \in 0 .. R - 1
        BY <1>1, <1>6
      <3> QED BY <1>1, <1>6, <3>1, FrameSteps
    <2>2. OnTick(n + 1, R) <=> g = f + 1
      <3>1. \A k \in Nat : g <= FrameAt(k, R) <=> FrameTick(g, R) <= k
        BY <2>1, FrameTickIs
      <3>2. FrameTick(g, R) \in 0 .. R - 1
        BY <2>1, FrameTickIs
      <3>3. FrameTick(g, R) <= n + 1 /\ (g <= f <=> FrameTick(g, R) <= n)
        BY <1>1, <1>4, <2>1, <3>1
      <3> HIDE DEF f, g
      <3>4. n + 1 = FrameTick(g, R) <=> g = f + 1
        BY <1>1, <1>4, <2>1, <3>2, <3>3
      <3> QED BY <3>4 DEF OnTick, g
    <2>3. Past(n + 1, R) = (b - U * g) - (IF OnTick(n + 1, R) THEN 0 ELSE U)
      BY <1>1, <1>3, <2>1 DEF Past, Place
    <2>4. U * (f + 1) = U * f + U /\ U * f \in Nat
      BY <1>1, <1>4
    <2> HIDE DEF f, g, a, b, U
    <2>5. Past(n + 1, R) = b - U * f - U
      BY <1>1, <1>3, <1>4, <2>1, <2>2, <2>3, <2>4
    <2>6. (n + 1) % R = n + 1
      BY <1>2, <1>6
    <2>7. Past(n + 1, R) = Past(n, R) + (b - a) - (IF OnTick(n, R) THEN U ELSE 0)
      BY <1>1, <1>3, <1>5, <2>4, <2>5
    <2> QED BY <2>1, <2>6, <2>7 DEF a, b, U
  <1>7. CASE n + 1 = R
    <2>1. (n + 1) % R = 0 /\ 0 \in 0 .. R - 1 /\ n = R - 1
      BY <1>1, <1>2, <1>7
    <2>2. f = Fps - 1
      BY <2>1, FrameSteps
    <2>3. Past(0, R) = 0
      BY FirstTick
    <2>4. b = Fps * U
      <3>1. Span \in Nat /\ Span = Fps * U
        BY <1>1 DEF Span
      <3>2. \A k \in Int : k <= b <=> k * R <= R * Span
        BY <1>1, <1>7, StartIs
      <3>3. \A k \in Int : k * R <= Span * R <=> k <= Span
        BY <1>1, <3>1, MulMono, MulCancel
      <3>4. R * Span = Span * R
        BY <1>1, <3>1
      <3>5. \A k \in Int : k <= b <=> k <= Span
        BY <3>2, <3>3, <3>4
      <3> QED BY <1>3, <3>1, <3>5
    <2>5. U * (Fps - 1) = Fps * U - U /\ Fps * U \in Nat
      BY <1>1
    <2> HIDE DEF f, a, b, U
    <2>6. Past(0, R) = Past(n, R) + (b - a) - (IF OnTick(n, R) THEN U ELSE 0)
      BY <1>1, <1>3, <1>5, <2>2, <2>3, <2>4, <2>5
    <2> QED BY <2>1, <2>6 DEF a, b, U
  <1> QED BY <1>1, <1>6, <1>7

\* At a rate that cuts every frame alike a frame's tick starts where the frame
\* does, and unless a tick is a frame it is shorter than one.
LEMMA EvenTicks ==
    ASSUME NEW R \in Rates, R % Fps = 0, NEW n \in Nat, OnTick(n, R)
    PROVE  /\ Past(n, R) = 0
           /\ R # Fps => Start(n + 1, R) - Start(n, R) < UnitsPerFrame
           /\ R = Fps => Start(n + 1, R) - Start(n, R) = UnitsPerFrame
  <1> DEFINE U == UnitsPerFrame
             f == FrameAt(n, R)
             k == R \div Fps
  <1>1. R \in Nat \ {0} /\ Fps \in Nat \ {0} /\ U \in Nat \ {0} /\ R >= Fps
    BY Period
  <1>2. f \in Nat /\ n = FrameTick(f, R)
    BY <1>1, FrameAtIs DEF OnTick
  <1>3. k \in Nat /\ R = k * Fps
    <2>1. R = k * Fps + (R % Fps) /\ k \in Nat
      BY <1>1, DivMod
    <2> QED BY <1>1, <2>1
  <1>4. n = (f * R + Fps - 1) \div Fps
    BY <1>2 DEF FrameTick
  <1>5. FrameAt(n, R) = f
    OBVIOUS
  <1> HIDE DEF f, k, U
  <1>6. n = f * k
    <2>1. f * k \in Nat /\ f * R = (f * k) * Fps
      BY <1>1, <1>2, <1>3
    <2>2. PICK p \in Nat : p = f * k
      BY <2>1
    <2>3. PICK r \in 0 .. Fps - 1 : r = Fps - 1
      BY <1>1
    <2>4. (p * Fps + r) \div Fps = p
      BY <1>1, DivModUnique
    <2>5. f * R + Fps - 1 = p * Fps + r
      BY <1>1, <2>1, <2>2, <2>3
    <2> QED BY <1>4, <2>2, <2>4, <2>5
  <1>7. Span = Fps * U /\ n * Span = (f * U) * R /\ f * U \in Nat /\ Span \in Nat
    <2>1. (f * k) * (Fps * U) = (f * U) * (k * Fps)
      BY <1>1, <1>2, <1>3
    <2>2. Fps * U \in Nat /\ f * U \in Nat
      BY <1>1, <1>2
    <2> QED BY <1>3, <1>6, <2>1, <2>2 DEF Span, U
  <1>8. Start(n, R) = f * U
    <2>1. Start(n, R) \in Nat /\ \A j \in Int : j <= Start(n, R) <=> j * R <= (f * U) * R
      BY <1>7, StartIs
    <2>2. \A j \in Int : j * R <= (f * U) * R <=> j <= f * U
      BY <1>1, <1>7, MulMono, MulCancel
    <2> QED BY <1>7, <2>1, <2>2
  <1>9. Past(n, R) = 0
    <2>1. U * f = f * U
      BY <1>1, <1>2
    <2> QED BY <1>5, <1>7, <1>8, <2>1 DEF Past, Place, U
  <1>10. ASSUME R # Fps, f * U + U <= Start(n + 1, R) PROVE FALSE
    <2>1. n + 1 \in Nat /\ n \in Nat
      BY <1>2
    <2>2. f * U + U \in Int
      BY <1>1, <1>7
    <2>3. (f * U + U) * R <= (n + 1) * Span
      BY <1>10, <2>1, <2>2, StartIs
    <2>4. (f * U + U) * R = (f * U) * R + U * R /\ (n + 1) * Span = n * Span + Span
      BY <1>1, <1>7, <2>1
    <2>5. (f * U) * R \in Int /\ U * R \in Int /\ n * Span \in Int
      BY <1>1, <1>7, <2>1
    <2>6. U * R <= Span
      BY <1>7, <2>3, <2>4, <2>5
    <2>7. (Fps + 1) * U <= R * U /\ (Fps + 1) * U = Fps * U + U /\ R * U = U * R
      BY <1>1, <1>10, MulMono
    <2> QED BY <1>1, <1>7, <2>6, <2>7
  <1>11. Start(n + 1, R) \in Nat
    BY StartIs
  <1>12. ASSUME R = Fps PROVE f * U + U <= Start(n + 1, R)
    <2>1. n + 1 \in Nat /\ f * U + U \in Int
      BY <1>1, <1>2, <1>7
    <2>2. (f * U + U) * R = (f * U) * R + U * R /\ (n + 1) * Span = n * Span + Span
      BY <1>1, <1>2, <1>7
    <2>3. U * R = Span
      BY <1>1, <1>7, <1>12
    <2>4. (f * U) * R \in Int /\ U * R \in Int
      BY <1>1, <1>7
    <2>5. (f * U + U) * R <= (n + 1) * Span
      BY <1>7, <2>2, <2>3, <2>4
    <2> QED BY <2>1, <2>5, StartIs
  <1>13. Start(n + 1, R) - Start(n, R) \in 1 .. U
    <2>1. n \in Nat
      OBVIOUS
    <2> QED BY <2>1, TickLength DEF U
  <1> QED BY <1>1, <1>7, <1>8, <1>9, <1>10, <1>11, <1>12, <1>13 DEF U

-------------------------------------------------------------------------------
(* The kinds of site. *)

Kind(does, gate, atStock, by) == [does |-> does, gate |-> gate, stock |-> atStock, by |-> by]

Kinds ==
    { Kind("call", "timer", "one", "one"), Kind("call", "frame", "one", "one"),
      Kind("call", "tick", "one", "factor"), Kind("call", "tick", "one", "speed"),
      Kind("at", "timer", "one", "one"), Kind("nth", "timer", "one", "one"),
      Kind("nth", "frame", "one", "one"), Kind("ask", "frame", "one", "one"),
      Kind("fresh", "aged", "one", "factor"), Kind("lit", "moved", "one", "one"),
      Kind("hit", "moved", "one", "one"), Kind("hit", "whole", "one", "one"),
      Kind("clock", "frame", "speed", "logical"), Kind("jump", "tick", "speed", "logical"),
      Kind("wrap", "tick", "speed", "rest"), Kind("move", "tick", "speed", "speed") }

Pauses == {"kept", "read", "set"}

\* Every site of every game is of one of them.
LEMMA EffectsAreKinds ==
    \A p \in Effects : p[1] \in Kinds /\ p[2] \in Pauses
  <1>1. \A n, d, g, s, b : Effect(Site(n, d, g, s, b)) = Kind(d, g, s, b)
    BY DEF Effect, Site, Kind
  <1> DEFINE Known(S) == \A x \in S : Effect(x) \in Kinds
  <1>2. Known(Th10Sites)
    BY <1>1 DEF Th10Sites, Kinds, PerCall, Rate, Jump, Move, Hit, Spared
  <1>3. Known(Th11Sites)
    BY <1>1 DEF Th11Sites, Kinds, PerCall, AtFrame, EveryNth, Rate, Jump, Move, Hit,
                Spared, SparedStage
  <1>4. Known(Th12Sites)
    BY <1>1 DEF Th12Sites, Th12Fields, Th12Motion, Kinds, PerCall, AtFrame, EveryNth, Rate,
                Jump, Move, Hit, Spared, SparedStage
  <1>5. Known(Th13Sites)
    BY <1>1 DEF Th13Sites, Kinds, PerCall, AtFrame, EveryNth, Rate, Jump, Move, Hit, Clock,
                Spared, SparedStage
  <1>6. Known(Th14Sites)
    BY <1>1 DEF Th14Sites, Th14Bullets, Th14Fields, Th14Player, Th14Shots, SparedSprites,
                Kinds, PerCall, AtFrame, Ask, Rate, Move, Lit, Hit, Clock, Jump
  <1>7. Known(Th15Sites)
    BY <1>1 DEF Th15Sites, Th15Bullets, Th15Fields, Th15Player, Th15Shots, Th14Bullets,
                Th14Player, Th14Shots, SparedSprites,
                Kinds, PerCall, AtFrame, Ask, Rate, Move, Lit, Hit, Clock, Jump
  <1>8. Known(Th18Sites)
    BY <1>1 DEF Th18Sites, Th18Bullets, Th18Fields, Th18Player, Th18Shots, Th15Fields,
                Th14Player, Th14Shots, SparedSprites,
                Kinds, PerCall, Ask, Rate, Move, Lit, Hit, Clock, Jump, Fresh
  <1>9. Known(Th20Sites)
    BY <1>1 DEF Th20Sites, Th20Fields, Th20Player, Th20Shots,
                Kinds, PerCall, EveryNth, Rate, Move, Hit, Jump, Wrap
  <1>10. /\ Th10Pause \in Pauses /\ Th11Pause \in Pauses /\ Th12Pause \in Pauses
         /\ Th13Pause \in Pauses /\ Th14Pause \in Pauses /\ Th15Pause \in Pauses
         /\ Th18Pause \in Pauses /\ Th20Pause \in Pauses
    BY DEF Pauses, Th10Pause, Th11Pause, Th12Pause, Th13Pause, Th14Pause, Th15Pause,
           Th18Pause, Th20Pause
  <1>11. \A g \in DOMAIN Sites : Known(Sites[g]) /\ PauseOf[g] \in Pauses
    BY <1>2, <1>3, <1>4, <1>5, <1>6, <1>7, <1>8, <1>9, <1>10 DEF Sites, PauseOf
  <1> QED BY <1>11 DEF Effects

-------------------------------------------------------------------------------
(* The speed. *)

Objects == [was : Int, now : Int, mark : Int, sum : Int, rest : Int]

SystemType ==
    /\ tickRate \in TestRates /\ tick \in 0 .. tickRate - 1
    /\ effect \in Kinds /\ pausing \in Pauses
    /\ frames \in 0 .. Life /\ sliced \in Objects /\ whole \in Objects
    /\ logical \in 1 .. Full /\ shadow \in 1 .. Full
    /\ native \in 1 .. Full /\ kept \in 1 .. Full
    /\ units \in 1 .. UnitsPerFrame /\ word \in Nat /\ read \in Nat
    /\ paused \in BOOLEAN /\ slowed \in BOOLEAN

\* While the menu is open what it kept, wherever the game's patches keep it, is
\* the speed of before; otherwise the runtime's speed is the game's.
SpeedInv ==
    /\ SystemType
    /\ SpeedAsSet
    /\ ~paused => logical = native
    /\ paused =>
         /\ OnTick(tick, tickRate) /\ native = Full
         /\ pausing = "kept" => shadow = kept /\ logical = Full
         /\ pausing = "read" => logical = kept /\ read = kept * UnitsPerFrame
         /\ pausing = "set" => logical = Full /\ read = kept * UnitsPerFrame

\* A call: the word that the game reads is the speed times the factor.
Calls ==
    {c \in [major : BOOLEAN, patched : BOOLEAN, units : 1 .. UnitsPerFrame,
            logical : 1 .. Full, word : Nat, frames : Nat, early : BOOLEAN] :
        c.word = c.logical * c.units}

LEMMA ContextIs ==
    ASSUME NEW m \in BOOLEAN, NEW p \in BOOLEAN, NEW u \in 1 .. UnitsPerFrame,
           NEW l \in 1 .. Full, NEW f \in Nat, NEW e \in BOOLEAN
    PROVE  Context(m, p, u, l, f, e) \in Calls
  <1>1. \A a, b \in Nat : a * b \in Nat
    OBVIOUS
  <1>2. l \in Nat /\ u \in Nat
    BY Period, SystemClock
  <1>3. l * u \in Nat
    BY <1>1, <1>2
  <1> QED BY <1>3 DEF Context, Calls

LEMMA CallFacts ==
    ASSUME NEW c \in Calls
    PROVE  /\ c.units \in 1 .. UnitsPerFrame /\ c.logical \in 1 .. Full /\ c.frames \in Nat
           /\ c.major \in BOOLEAN /\ c.patched \in BOOLEAN /\ c.early \in BOOLEAN
           /\ c.word \in 1 .. One /\ c.word = c.logical * c.units
           /\ Full * c.units \in Full .. One /\ c.logical * UnitsPerFrame \in 1 .. One
           /\ Amount(c) \in Int
  <1>1. /\ c.units \in 1 .. UnitsPerFrame /\ c.logical \in 1 .. Full /\ c.frames \in Nat
        /\ c.major \in BOOLEAN /\ c.patched \in BOOLEAN /\ c.word = c.logical * c.units
        /\ c.early \in BOOLEAN
    BY DEF Calls
  <1>2. Full \in Nat \ {0} /\ UnitsPerFrame \in Nat \ {0} /\ One = Full * UnitsPerFrame
    BY SystemClock, Period
  <1>3. PICK u \in Nat \ {0}, l \in Nat \ {0} : u = c.units /\ l = c.logical
    BY <1>1
  <1>4. u <= UnitsPerFrame /\ l <= Full
    BY <1>1, <1>3
  <1>5. l * u <= Full * u /\ 1 * u <= l * u /\ 1 * u = u /\ l * u \in Int
    BY <1>2, <1>3, <1>4, MulMono
  <1>6. u * Full <= UnitsPerFrame * Full /\ 1 * Full <= u * Full /\ 1 * Full = Full
        /\ u * Full = Full * u /\ UnitsPerFrame * Full = Full * UnitsPerFrame
        /\ Full * u \in Int
    BY <1>2, <1>3, <1>4, MulMono
  <1>7. l * UnitsPerFrame <= Full * UnitsPerFrame /\ 1 * UnitsPerFrame <= l * UnitsPerFrame
        /\ 1 * UnitsPerFrame = UnitsPerFrame /\ l * UnitsPerFrame \in Int
    BY <1>2, <1>3, <1>4, MulMono
  <1>8. One \in Int /\ Full * UnitsPerFrame \in Int
    BY <1>2
  <1>9. l * u \in 1 .. One /\ Full * u \in Full .. One /\ l * UnitsPerFrame \in 1 .. One
    BY <1>2, <1>3, <1>5, <1>6, <1>7, <1>8
  <1>10. c.word \in Int /\ Full * c.units \in Int /\ c.logical * UnitsPerFrame \in Int
    BY <1>1, <1>3, <1>5, <1>6, <1>7
  <1>11. Amount(c) \in Int
    BY <1>8, <1>10 DEF Amount
  <1> QED BY <1>1, <1>3, <1>9, <1>11

\* A call leaves an object an object, whatever its site does.
LEMMA CalledType ==
    ASSUME NEW x \in Objects, NEW c \in Calls, effect \in Kinds
    PROVE  Called(x, c) \in Objects
  <1>1. One \in Nat \ {0} /\ UnitsPerFrame \in Nat /\ Cycle \in Nat /\ Velocity \in Nat
    BY Period, SystemClock
  <1>2. Amount(c) \in Int
    BY CallFacts
  <1>3. \A y \in Objects, t \in Int : Ticked(y, t) \in Objects
    BY DEF Ticked, Objects
  <1>4. \A y \in Objects, t \in Int : Add(y, t) \in Objects
    BY DEF Add, Objects
  <1>5. c.word \in Int /\ c.logical \in Int /\ c.units \in Int
    BY CallFacts, <1>1
  <1>6. x.now \in Int /\ x.rest \in Int /\ Cycle * One \in Int
    BY <1>1 DEF Objects
  <1>7. Once(x, c) \in Objects
    <2>1. x.now + c.word \in Int
      BY <1>5, <1>6
    <2> QED BY <1>2, <1>3, <1>4, <2>1 DEF Once
  <1>8. Jumped(x, c) \in Objects
    <2>1. x.now + c.word \in Int /\ x.now - Cycle * Amount(c) + c.word \in Int
      BY <1>1, <1>2, <1>5, <1>6
    <2> QED BY <1>1, <1>3, <1>4, <2>1 DEF Jumped
  <1>9. Wrapped(x, c) \in Objects
    <2> DEFINE t == x.now - Cycle * c.logical * UnitsPerFrame
                    - (IF c.patched THEN c.logical * (UnitsPerFrame - c.units) ELSE 0)
    <2>1. x.now + c.word \in Int /\ t \in Int
      <3>1. \A a, b \in Int : a * b \in Int
        OBVIOUS
      <3>2. Cycle * c.logical * UnitsPerFrame \in Int /\ UnitsPerFrame - c.units \in Int
        BY <1>1, <1>5, <3>1
      <3>3. c.logical * (UnitsPerFrame - c.units) \in Int
        BY <1>5, <3>1, <3>2
      <3> QED BY <1>5, <1>6, <3>2, <3>3
    <2> HIDE DEF t
    <2>2. Wrapped(x, c) = IF x.now < Cycle * One THEN Ticked(x, x.now + c.word)
                          ELSE Ticked(Add(x, One), t)
      BY DEF Wrapped, t
    <2> QED BY <1>1, <1>3, <1>4, <2>1, <2>2
  <1>10. Lighted(x, c) \in Objects
    <2>1. x.now + c.word \in Int /\ One \in Int
      BY <1>1, <1>5, <1>6
    <2>2. \A n \in Int : [x EXCEPT !.sum = n] \in Objects
      BY DEF Objects
    <2>3. [x EXCEPT !.sum = IF Nth(x) /\ Gate(x, c) THEN One ELSE 0] \in Objects
      <3>1. CASE Nth(x) /\ Gate(x, c)
        BY <2>1, <2>2, <3>1
      <3>2. CASE ~(Nth(x) /\ Gate(x, c))
        BY <2>2, <3>2
      <3> QED BY <3>1, <3>2
    <2> QED BY <1>3, <2>1, <2>3 DEF Lighted
  <1>11. HitOn(x, c) \in Objects
    <2> DEFINE y == Ticked(x, x.now + c.word)
    <2>1. y \in Objects
      BY <1>3, <1>5, <1>6
    <2>2. FrameOf(y.now) \in Int
      <3>1. y.now \in Int
        BY <2>1 DEF Objects
      <3> QED BY <1>1, <3>1 DEF FrameOf
    <2> HIDE DEF y
    <2>3. HitOn(x, c) = IF ~c.major THEN y
                        ELSE [y EXCEPT !.sum = IF Gate(y, c) THEN @ + One ELSE @,
                                       !.mark = FrameOf(y.now)]
      BY DEF HitOn, y
    <2>4. \A n, k \in Int : [y EXCEPT !.sum = n, !.mark = k] \in Objects
      BY <2>1 DEF Objects
    <2>5. y.sum \in Int /\ y.sum + One \in Int
      <3>1. y.sum \in Int
        BY <2>1 DEF Objects
      <3> QED BY <1>1, <3>1
    <2>6. CASE Gate(y, c)
      BY <2>1, <2>2, <2>3, <2>4, <2>5, <2>6
    <2>7. CASE ~Gate(y, c)
      BY <2>1, <2>2, <2>3, <2>4, <2>5, <2>7
    <2> QED BY <2>6, <2>7
  <1>12. Clocked(x, c) \in Objects
    <2> DEFINE y == Ticked(x, IF Gate(x, c) THEN x.now + Amount(c) ELSE x.now)
    <2>1. y \in Objects
      BY <1>2, <1>3, <1>6
    <2> HIDE DEF y
    <2>2. Clocked(x, c) = IF c.major /\ Crossed(y) /\ Nth(y) THEN Add(y, One) ELSE y
      BY DEF Clocked, y
    <2> QED BY <1>1, <1>4, <2>1, <2>2
  <1>13. Moved(x, c) \in Objects
    <2> DEFINE s == Velocity * c.word + Carry(x, c)
               y == Ticked(Add(x, s \div One), x.now + c.word)
    <2>1. s \in Int
      BY <1>1, <1>5, <1>6 DEF Carry
    <2> HIDE DEF s
    <2>2. s \div One \in Int /\ s % One \in Int
      BY <1>1, <2>1
    <2>3. y \in Objects
      <3>1. x.now + c.word \in Int
        BY <1>5, <1>6
      <3>2. Add(x, s \div One) \in Objects
        BY <1>4, <2>2, Zenon
      <3> QED BY <1>3, <3>1, <3>2, Zenon
    <2> HIDE DEF y
    <2>4. Moved(x, c) = [y EXCEPT !.rest = IF c.patched /\ c.units # UnitsPerFrame
                                           THEN s % One ELSE @]
      BY DEF Moved, y, s
    <2> QED BY <2>2, <2>3, <2>4 DEF Objects
  <1>14. Asked(x, c) \in Objects
    <2>1. x.now + c.word \in Int
      BY <1>5, <1>6
    <2>2. [x EXCEPT !.mark = x.now] \in Objects
      BY <1>6 DEF Objects
    <2> QED BY <1>3, <2>1, <2>2 DEF Asked
  <1> QED BY <1>7, <1>8, <1>9, <1>10, <1>11, <1>12, <1>13, <1>14 DEF Called

\* What the type invariant says of the next tick.
LEMMA TickFacts ==
    ASSUME SystemType
    PROVE  /\ tickRate \in Rates /\ tick \in Nat /\ tick \in 0 .. tickRate - 1
           /\ UnitsOfTick \in 1 .. UnitsPerFrame
           /\ OnFrameTick <=> OnTick(tick, tickRate)
           /\ (tick + 1) % tickRate \in 0 .. tickRate - 1
  <1>1. tickRate \in Rates /\ tick \in 0 .. tickRate - 1
    BY SystemClock DEF SystemType
  <1>2. tickRate \in Nat \ {0} /\ tick \in Nat
    BY <1>1, Period
  <1>3. UnitsOfTick \in 1 .. UnitsPerFrame
    BY <1>1, <1>2, TickLength DEF UnitsOfTick
  <1> QED BY <1>1, <1>2, <1>3, NextPast DEF OnFrameTick, OnTick

\* The speed, its factor and the word they make have their types.
LEMMA SpeedTimesFactor ==
    /\ Full \in 1 .. Full /\ UnitsPerFrame \in 1 .. UnitsPerFrame /\ One = Full * UnitsPerFrame
    /\ \A l \in 1 .. Full, u \in 1 .. UnitsPerFrame : l * u \in Nat
    /\ \A l \in 1 .. Full : (l * UnitsPerFrame) \div UnitsPerFrame = l
  <1>1. Full \in Nat \ {0} /\ UnitsPerFrame \in Nat \ {0} /\ One = Full * UnitsPerFrame
    BY SystemClock, Period
  <1>2. \A a, b \in Nat : a * b \in Nat
    OBVIOUS
  <1>3. \A l \in 1 .. Full : (l * UnitsPerFrame) \div UnitsPerFrame = l
    <2> TAKE l \in 1 .. Full
    <2>1. l \in Nat /\ 0 \in 0 .. UnitsPerFrame - 1
      BY <1>1
    <2>2. (l * UnitsPerFrame + 0) \div UnitsPerFrame = l
      BY <1>1, <2>1, DivModUnique
    <2>3. l * UnitsPerFrame + 0 = l * UnitsPerFrame
      BY <1>1, <2>1
    <2> QED BY <2>2, <2>3
  <1> QED BY <1>1, <1>2, <1>3

LEMMA BornType == Born \in Objects
  <1>1. -One \in Int /\ -1 \in Int
    BY SystemClock
  <1> QED BY <1>1 DEF Born, Objects

LEMMA InitSpeedInv == SystemInit => SpeedInv
  <1> SUFFICES ASSUME SystemInit PROVE SpeedInv
    OBVIOUS
  <1>1. tickRate \in TestRates /\ tick = 0 /\ 0 \in 0 .. tickRate - 1
    BY SystemClock, Period DEF SystemInit
  <1>2. effect \in Kinds /\ pausing \in Pauses
    BY EffectsAreKinds DEF SystemInit
  <1>3. frames = 0 /\ 0 \in 0 .. Life /\ sliced \in Objects /\ whole \in Objects
    BY BornType, SystemClock DEF SystemInit
  <1>4. /\ logical = Full /\ shadow = Full /\ native = Full /\ kept = Full
        /\ word = One /\ units = UnitsPerFrame /\ read = One /\ One \in Nat
        /\ paused = FALSE /\ slowed = FALSE
    BY SystemClock DEF SystemInit
  <1> QED BY <1>1, <1>2, <1>3, <1>4, SpeedTimesFactor DEF SpeedInv, SystemType, SpeedAsSet

\* A frame's step,
LEMMA FrameSpeedInv == SpeedInv /\ FrameStep => SpeedInv'
  <1> SUFFICES ASSUME SpeedInv, FrameStep PROVE SpeedInv'
    OBVIOUS
  <1> DEFINE old == frames = Life
             f == IF old THEN 1 ELSE frames + 1
  <1>1. SystemType
    BY DEF SpeedInv
  <1>2. native' \in 1 .. Full /\ logical' = native' /\ units' = UnitsOfTick
        /\ units' \in 1 .. UnitsPerFrame /\ word' = logical' * units'
    BY <1>1, SystemClock, TickFacts DEF FrameStep
  <1>3. f \in 1 .. Life /\ frames' = f
    BY <1>1, SystemClock DEF FrameStep, SystemType
  <1>4. PICK x \in Objects : x = IF old THEN Born ELSE sliced
    BY <1>1, BornType DEF SystemType
  <1>5. PICK y \in Objects : y = IF old THEN Born ELSE whole
    BY <1>1, BornType DEF SystemType
  <1>6. /\ \E e \in BOOLEAN : sliced' = Called(x, Context(TRUE, TRUE, units', logical', f, e))
        /\ whole' = Called(y, Context(TRUE, FALSE, UnitsPerFrame, logical', f, FALSE))
    BY <1>2, <1>4, <1>5 DEF FrameStep
  <1>7. sliced' \in Objects /\ whole' \in Objects
    <2>1. effect \in Kinds /\ f \in Nat /\ UnitsPerFrame \in 1 .. UnitsPerFrame
      BY <1>1, <1>3, SpeedTimesFactor DEF SystemType
    <2> HIDE DEF f
    <2>2. logical' \in 1 .. Full
      BY <1>2
    <2>3. /\ \A e \in BOOLEAN : Context(TRUE, TRUE, units', logical', f, e) \in Calls
          /\ Context(TRUE, FALSE, UnitsPerFrame, logical', f, FALSE) \in Calls
      BY <1>2, <2>1, <2>2, ContextIs
    <2> QED BY <1>6, <2>1, <2>3, CalledType
  <1>8. /\ tick' \in 0 .. tickRate' - 1 /\ slowed' \in BOOLEAN /\ paused' = FALSE
        /\ UNCHANGED <<tickRate, effect, pausing, shadow, paused, read, kept>>
    BY <1>1, TickFacts DEF FrameStep, NextTick, SystemType
  <1>9. word' \in Nat /\ f \in 0 .. Life
    <2>1. logical' \in 1 .. Full
      BY <1>2
    <2>2. logical' * units' \in Nat
      BY <1>2, <2>1, SpeedTimesFactor, Zenon
    <2>3. Life \in Nat
      BY SystemClock
    <2>4. f \in 0 .. Life
      <3> HIDE DEF f
      <3> QED BY <1>3, <2>3
    <2>5. word' \in Nat
      BY <1>2, <2>2, Zenon
    <2> QED BY <2>4, <2>5
  <1>10. SystemType'
    BY <1>1, <1>2, <1>3, <1>7, <1>8, <1>9 DEF SystemType
  <1> QED BY <1>2, <1>8, <1>10 DEF SpeedInv, SpeedAsSet

\* a minor tick's,
LEMMA MinorSpeedInv == SpeedInv /\ MinorStep => SpeedInv'
  <1> SUFFICES ASSUME SpeedInv, MinorStep PROVE SpeedInv'
    OBVIOUS
  <1>1. SystemType
    BY DEF SpeedInv
  <1>2. /\ units' \in 1 .. UnitsPerFrame /\ word' = logical * units'
        /\ tick' \in 0 .. tickRate' - 1 /\ ~paused /\ logical = native
        /\ UNCHANGED <<tickRate, effect, pausing, frames, whole, logical, shadow, paused,
                       read, native, kept, slowed>>
    BY <1>1, TickFacts DEF MinorStep, NextTick, SpeedInv
  <1>3. sliced' \in Objects
    <2>1. /\ sliced \in Objects /\ effect \in Kinds /\ logical \in 1 .. Full
          /\ frames \in Nat
          /\ sliced' = Called(sliced, Context(FALSE, TRUE, units', logical, frames, FALSE))
      BY <1>1 DEF SystemType, MinorStep
    <2>2. Context(FALSE, TRUE, units', logical, frames, FALSE) \in Calls
      BY <1>2, <2>1, ContextIs
    <2> QED BY <2>1, <2>2, CalledType
  <1>4. word' \in Nat
    BY <1>1, <1>2, SpeedTimesFactor DEF SystemType
  <1>5. SystemType'
    BY <1>1, <1>2, <1>3, <1>4 DEF SystemType
  <1> QED BY <1>2, <1>5 DEF SpeedInv, SpeedAsSet

\* a menu that opens,
LEMMA OpenSpeedInv == SpeedInv /\ Open => SpeedInv'
  <1> SUFFICES ASSUME SpeedInv, Open PROVE SpeedInv'
    OBVIOUS
  <1>1. SystemType /\ ~paused /\ logical = native /\ OnTick(tick, tickRate)
    BY TickFacts DEF SpeedInv, Open
  <1>2. /\ paused' = TRUE /\ kept' = native /\ native' = Full
        /\ units' = UnitsPerFrame /\ word' = One
        /\ UNCHANGED <<tickRate, tick, effect, pausing, frames, sliced, whole, slowed>>
    BY DEF Open, AtFactorOne, Others
  <1>3. One \in Nat /\ logical * UnitsPerFrame \in Nat /\ logical \in 1 .. Full
    BY <1>1, SpeedTimesFactor, SystemClock DEF SystemType
  <1>4. CASE pausing = "kept"
    <2>1. shadow' = logical /\ logical' = Full /\ read' = read
      BY <1>4 DEF Open
    <2>2. SystemType'
      BY <1>1, <1>2, <1>3, <2>1, SpeedTimesFactor DEF SystemType
    <2> QED BY <1>1, <1>2, <1>4, <2>1, <2>2, SpeedTimesFactor DEF SpeedInv, SpeedAsSet
  <1>5. CASE pausing = "read"
    <2>1. read' = logical * UnitsPerFrame /\ shadow' = shadow /\ logical' = logical
      BY <1>5 DEF Open, MenuReads
    <2>2. SystemType'
      BY <1>1, <1>2, <1>3, <2>1, SpeedTimesFactor DEF SystemType
    <2> QED BY <1>1, <1>2, <1>5, <2>1, <2>2 DEF SpeedInv, SpeedAsSet
  <1>6. CASE pausing = "set"
    <2>1. read' = logical * UnitsPerFrame /\ shadow' = shadow /\ logical' = Full
      BY <1>6 DEF Open, MenuReads
    <2>2. SystemType'
      BY <1>1, <1>2, <1>3, <2>1, SpeedTimesFactor DEF SystemType
    <2> QED BY <1>1, <1>2, <1>6, <2>1, <2>2, SpeedTimesFactor DEF SpeedInv, SpeedAsSet
  <1> QED BY <1>1, <1>4, <1>5, <1>6 DEF SystemType, Pauses

\* a node called while it is open,
LEMMA MenuSpeedInv == SpeedInv /\ MenuTick => SpeedInv'
  <1> SUFFICES ASSUME SpeedInv, MenuTick PROVE SpeedInv'
    OBVIOUS
  <1>1. SystemType /\ paused
    BY DEF SpeedInv, MenuTick
  <1>2. /\ word' = logical * units'
        /\ UNCHANGED <<tickRate, tick, effect, pausing, frames, sliced, whole, slowed, logical,
                       shadow, paused, read, native, kept>>
    BY DEF MenuTick, Others
  <1>3. units' \in 1 .. UnitsPerFrame
    <2>1. PICK t \in 0 .. tickRate - 1 :
              units' = Start(t + 1, tickRate) - Start(t, tickRate)
      BY DEF MenuTick
    <2> QED BY <1>1, <2>1, TickFacts, TickLength
  <1>4. word' \in Nat
    BY <1>1, <1>2, <1>3, SpeedTimesFactor DEF SystemType
  <1>5. SystemType'
    BY <1>1, <1>2, <1>3, <1>4 DEF SystemType
  <1>6. pausing # "read" => logical = native
    BY <1>1 DEF SpeedInv, SystemType, Pauses
  <1> QED BY <1>1, <1>2, <1>5, <1>6 DEF SpeedInv, SpeedAsSet

\* and a menu that closes, which gives the speed back.
LEMMA CloseSpeedInv == SpeedInv /\ Close => SpeedInv'
  <1> SUFFICES ASSUME SpeedInv, Close PROVE SpeedInv'
    OBVIOUS
  <1>1. SystemType /\ paused /\ kept \in 1 .. Full
    BY DEF SpeedInv, Close, SystemType
  <1>2. /\ paused' = FALSE /\ native' = kept /\ units' = UnitsPerFrame /\ logical' = Restored
        /\ word' = IF pausing = "read" THEN read ELSE logical' * UnitsPerFrame
        /\ UNCHANGED <<tickRate, tick, effect, pausing, frames, sliced, whole, slowed, shadow,
                       read, kept>>
    BY DEF Close, AtFactorOne, Others
  <1>3. Restored = kept /\ (pausing = "read" => read = kept * UnitsPerFrame)
    <2>1. CASE pausing = "kept"
      BY <1>1, <2>1 DEF SpeedInv, Restored
    <2>2. CASE pausing = "read"
      BY <1>1, <2>2 DEF SpeedInv, Restored
    <2>3. CASE pausing = "set"
      BY <1>1, <2>3, SpeedTimesFactor DEF SpeedInv, Restored
    <2> QED BY <1>1, <2>1, <2>2, <2>3 DEF SystemType, Pauses
  <1>4. word' = kept * UnitsPerFrame /\ kept * UnitsPerFrame \in Nat
    BY <1>1, <1>2, <1>3, SpeedTimesFactor
  <1>5. SystemType'
    BY <1>1, <1>2, <1>3, <1>4, SpeedTimesFactor DEF SystemType
  <1> QED BY <1>2, <1>3, <1>4, <1>5 DEF SpeedInv, SpeedAsSet

LEMMA NextSpeedInv == SpeedInv /\ [SystemNext]_systemVars => SpeedInv'
  <1> SUFFICES ASSUME SpeedInv, [SystemNext]_systemVars PROVE SpeedInv'
    OBVIOUS
  <1>1. ASSUME UNCHANGED systemVars PROVE SpeedInv'
    BY <1>1 DEF SpeedInv, SystemType, SpeedAsSet, systemVars
  <1> QED BY <1>1, FrameSpeedInv, MinorSpeedInv, OpenSpeedInv, MenuSpeedInv, CloseSpeedInv
          DEF SystemNext

LEMMA SpeedInvariance == SystemSpec => []SpeedInv
  BY InitSpeedInv, NextSpeedInv, PTL DEF SystemSpec

\* Whatever writes the speed, scripts and pauses, under whatever factor, what a
\* node reads is the game's own speed times its factor: a pause gives back what
\* it took (speed_pause_set_c, speed_pause_restore_c, th20_speed_set).
THEOREM SpeedIsAsSet == SystemSpec => []SpeedAsSet
  <1>1. SpeedInv => SpeedAsSet
    BY DEF SpeedInv
  <1> QED BY <1>1, SpeedInvariance, PTL

-------------------------------------------------------------------------------
(* What a call does, kind by kind. *)

\* The kind of a site, field by field.
LEMMA KindIs ==
    ASSUME NEW d, NEW g, NEW s, NEW b, effect = Kind(d, g, s, b)
    PROVE  effect.does = d /\ effect.gate = g /\ effect.stock = s /\ effect.by = b
  BY DEF Kind

\* Writing an object's timer, and adding to what its site has added up.
LEMMA TickedIs ==
    ASSUME NEW x \in Objects, NEW t \in Int
    PROVE  /\ Ticked(x, t) \in Objects /\ Ticked(x, t).was = x.now /\ Ticked(x, t).now = t
           /\ Ticked(x, t).sum = x.sum /\ Ticked(x, t).mark = x.mark
           /\ Ticked(x, t).rest = x.rest
  BY DEF Ticked, Objects

LEMMA AddIs ==
    ASSUME NEW x \in Objects, NEW n \in Int
    PROVE  /\ Add(x, n) \in Objects /\ Add(x, n).was = x.was /\ Add(x, n).now = x.now
           /\ Add(x, n).sum = x.sum + n /\ Add(x, n).mark = x.mark
           /\ Add(x, n).rest = x.rest
  BY DEF Add, Objects

LEMMA ObjectIs ==
    ASSUME NEW x \in Objects
    PROVE  /\ x.was \in Int /\ x.now \in Int /\ x.mark \in Int /\ x.sum \in Int
           /\ x.rest \in Int
  BY DEF Objects

\* What is done once: the timer ticks, and the sum grows or not.
May(x, c) ==
    CASE effect.does = "at" -> FrameOf(x.now) = 1
      [] effect.does = "nth" -> Nth(x)
      [] effect.does = "fresh" -> ~(c.major /\ c.frames = 1)
      [] OTHER -> TRUE

LEMMA OnceIs ==
    ASSUME effect.does \in {"call", "at", "nth", "fresh"},
           NEW x \in Objects, NEW c \in Calls
    PROVE  /\ Called(x, c).was = x.now /\ Called(x, c).now = x.now + c.word
           /\ Called(x, c).sum = IF May(x, c) /\ Gate(x, c) THEN x.sum + Amount(c) ELSE x.sum
  <1>1. Called(x, c) = Once(x, c)
    BY DEF Called
  <1>2. Once(x, c) = Ticked(IF May(x, c) /\ Gate(x, c) THEN Add(x, Amount(c)) ELSE x,
                            x.now + c.word)
    BY DEF Once, May
  <1>3. Amount(c) \in Int /\ x.now + c.word \in Int
    <2>1. c.word \in Int /\ x.now \in Int /\ Amount(c) \in Int
      BY CallFacts, ObjectIs, SystemClock
    <2> QED BY <2>1
  <1>4. CASE May(x, c) /\ Gate(x, c)
    <2>1. Add(x, Amount(c)) \in Objects /\ Add(x, Amount(c)).now = x.now
          /\ Add(x, Amount(c)).sum = x.sum + Amount(c)
      BY <1>3, AddIs
    <2> QED BY <1>1, <1>2, <1>3, <1>4, <2>1, TickedIs
  <1>5. CASE ~(May(x, c) /\ Gate(x, c))
    BY <1>1, <1>2, <1>3, <1>5, TickedIs
  <1> QED BY <1>4, <1>5

\* gate_block and gate_callback by an object's own timer, by the frame tick, and
\* emit_factor and the speed.
LEMMA CallTimerIs ==
    ASSUME effect = Kind("call", "timer", "one", "one"), NEW x \in Objects, NEW c \in Calls
    PROVE  Called(x, c).sum = IF ~c.patched \/ Crossed(x) THEN x.sum + One ELSE x.sum
  BY KindIs, OnceIs DEF May, Gate, Amount

LEMMA CallFrameIs ==
    ASSUME effect = Kind("call", "frame", "one", "one"), NEW x \in Objects, NEW c \in Calls
    PROVE  Called(x, c).sum = IF c.major THEN x.sum + One ELSE x.sum
  BY KindIs, OnceIs DEF May, Gate, Amount

LEMMA FactorIs ==
    ASSUME effect = Kind("call", "tick", "one", "factor"), NEW x \in Objects, NEW c \in Calls
    PROVE  Called(x, c).sum = x.sum + (IF c.patched THEN Full * c.units ELSE One)
  BY KindIs, OnceIs DEF May, Gate, Amount

LEMMA SpeedIs ==
    ASSUME effect = Kind("call", "tick", "one", "speed"), NEW x \in Objects, NEW c \in Calls
    PROVE  Called(x, c).sum = x.sum + (IF c.patched THEN c.word ELSE One)
  BY KindIs, OnceIs DEF May, Gate, Amount

\* A time, and every n-th, by the timer and by the frame tick.
LEMMA AtTimerIs ==
    ASSUME effect = Kind("at", "timer", "one", "one"), NEW x \in Objects, NEW c \in Calls
    PROVE  Called(x, c).sum = IF FrameOf(x.now) = 1 /\ (~c.patched \/ Crossed(x))
                              THEN x.sum + One ELSE x.sum
  BY KindIs, OnceIs DEF May, Gate, Amount

LEMMA NthTimerIs ==
    ASSUME effect = Kind("nth", "timer", "one", "one"), NEW x \in Objects, NEW c \in Calls
    PROVE  Called(x, c).sum = IF Nth(x) /\ (~c.patched \/ Crossed(x))
                              THEN x.sum + One ELSE x.sum
  BY KindIs, OnceIs DEF May, Gate, Amount

LEMMA NthFrameIs ==
    ASSUME effect = Kind("nth", "frame", "one", "one"), NEW x \in Objects, NEW c \in Calls
    PROVE  Called(x, c).sum = IF Nth(x) /\ c.major THEN x.sum + One ELSE x.sum
  BY KindIs, OnceIs DEF May, Gate, Amount

\* The promotion, and a shot's motion from the frame after its first.
LEMMA AskIs ==
    ASSUME effect = Kind("ask", "frame", "one", "one"), NEW x \in Objects, NEW c \in Calls
    PROVE  /\ Called(x, c).was = x.now /\ Called(x, c).now = x.now + c.word
           /\ Called(x, c).sum = x.sum
           /\ Called(x, c).mark = IF x.mark < 0 /\ c.major /\ Permitted(c) THEN x.now ELSE x.mark
  <1> DEFINE n == IF x.mark < 0 /\ c.major /\ Permitted(c) THEN x.now ELSE x.mark
  <1>1. x.now \in Int /\ x.mark \in Int /\ x.now + c.word \in Int
    <2>1. c.word \in Int /\ x.now \in Int /\ x.mark \in Int
      BY CallFacts, ObjectIs, SystemClock
    <2> QED BY <2>1
  <1>2. PICK y \in Objects :
          y = IF x.mark < 0 /\ c.major /\ Permitted(c) THEN [x EXCEPT !.mark = x.now] ELSE x
    BY <1>1 DEF Objects
  <1>3. y.now = x.now /\ y.sum = x.sum /\ y.mark = n
    BY <1>1, <1>2 DEF Objects
  <1>4. Called(x, c) = Ticked(y, x.now + c.word)
    BY <1>2, KindIs DEF Called, Asked, Gate
  <1> HIDE DEF n
  <1>5. /\ Ticked(y, x.now + c.word).was = y.now
        /\ Ticked(y, x.now + c.word).now = x.now + c.word
        /\ Ticked(y, x.now + c.word).sum = y.sum
        /\ Ticked(y, x.now + c.word).mark = y.mark
    BY <1>1, TickedIs
  <1> QED BY <1>3, <1>4, <1>5 DEF n

LEMMA FreshIs ==
    ASSUME effect = Kind("fresh", "aged", "one", "factor"), NEW x \in Objects, NEW c \in Calls,
           c.frames > 0
    PROVE  Called(x, c).sum = IF c.frames > 1
                              THEN x.sum + (IF c.patched THEN Full * c.units ELSE One)
                              ELSE x.sum
  <1>1. c.frames \in Nat
    BY CallFacts
  <1> QED BY <1>1, KindIs, OnceIs DEF May, Gate, Amount

\* The blink.
LEMMA LitIs ==
    ASSUME effect = Kind("lit", "moved", "one", "one"), NEW x \in Objects, NEW c \in Calls
    PROVE  /\ Called(x, c).was = x.now /\ Called(x, c).now = x.now + c.word
           /\ Called(x, c).sum =
                IF Nth(x) /\ (IF c.patched THEN x.was # x.now ELSE Crossed(x))
                THEN One ELSE 0
  <1> DEFINE n == IF Nth(x) /\ Gate(x, c) THEN One ELSE 0
  <1>1. Called(x, c) = Ticked([x EXCEPT !.sum = n], x.now + c.word)
    BY KindIs DEF Called, Lighted
  <1>2. n \in Int /\ x.now + c.word \in Int
    <2>1. c.word \in Int /\ x.now \in Int /\ One \in Int
      BY CallFacts, ObjectIs, SystemClock
    <2> QED BY <2>1
  <1>3. n = IF Nth(x) /\ (IF c.patched THEN x.was # x.now ELSE Crossed(x)) THEN One ELSE 0
    BY KindIs DEF Gate
  <1> HIDE DEF n
  <1>4. /\ [x EXCEPT !.sum = n] \in Objects /\ [x EXCEPT !.sum = n].now = x.now
        /\ [x EXCEPT !.sum = n].sum = n
    BY <1>2 DEF Objects
  <1>5. PICK y \in Objects : y = [x EXCEPT !.sum = n]
    BY <1>4
  <1>6. y.now = x.now /\ y.sum = n
    BY <1>4, <1>5
  <1>7. Ticked(y, x.now + c.word).was = y.now /\ Ticked(y, x.now + c.word).now = x.now + c.word
        /\ Ticked(y, x.now + c.word).sum = y.sum
    BY <1>2, TickedIs
  <1> QED BY <1>1, <1>3, <1>5, <1>6, <1>7

\* Hits.
LEMMA HitIs ==
    ASSUME effect.does = "hit", NEW x \in Objects, NEW c \in Calls,
           NEW y, y = Ticked(x, x.now + c.word)
    PROVE  /\ Called(x, c).was = x.now /\ Called(x, c).now = x.now + c.word
           /\ Called(x, c).sum = IF c.major /\ Gate(y, c) THEN x.sum + One ELSE x.sum
           /\ Called(x, c).mark = IF c.major THEN FrameOf(x.now + c.word) ELSE x.mark
  <1>1. Called(x, c) = IF ~c.major THEN y
                       ELSE [y EXCEPT !.sum = IF Gate(y, c) THEN @ + One ELSE @,
                                      !.mark = FrameOf(y.now)]
    BY DEF Called, HitOn
  <1>2. x.now + c.word \in Int /\ One \in Int
    <2>1. c.word \in Int /\ x.now \in Int /\ One \in Int
      BY CallFacts, ObjectIs, SystemClock
    <2> QED BY <2>1
  <1>3. /\ y \in Objects /\ y.was = x.now /\ y.now = x.now + c.word /\ y.sum = x.sum
        /\ y.mark = x.mark
    BY <1>2, TickedIs
  <1>4. CASE ~c.major
    BY <1>1, <1>3, <1>4
  <1>5. CASE c.major
    <2>1. \A n, k : /\ [y EXCEPT !.sum = n, !.mark = k].was = y.was
                    /\ [y EXCEPT !.sum = n, !.mark = k].now = y.now
                    /\ [y EXCEPT !.sum = n, !.mark = k].sum = n
                    /\ [y EXCEPT !.sum = n, !.mark = k].mark = k
      BY <1>3 DEF Objects
    <2>2. CASE Gate(y, c)
      <3>1. Called(x, c) = [y EXCEPT !.sum = y.sum + One, !.mark = FrameOf(y.now)]
        BY <1>1, <1>5, <2>2
      <3> QED BY <1>3, <1>5, <2>1, <2>2, <3>1
    <2>3. CASE ~Gate(y, c)
      <3>1. Called(x, c) = [y EXCEPT !.sum = y.sum, !.mark = FrameOf(y.now)]
        BY <1>1, <1>5, <2>3
      <3> QED BY <1>3, <1>5, <2>1, <2>3, <3>1
    <2> QED BY <2>2, <2>3
  <1> QED BY <1>4, <1>5

\* Clocks: on frame ticks the game's own speed for a frame, patched or not.
LEMMA ClockIs ==
    ASSUME effect = Kind("clock", "frame", "speed", "logical"),
           NEW x \in Objects, NEW c \in Calls, c.patched \/ c.units = UnitsPerFrame,
           NEW t, t = x.now + c.logical * UnitsPerFrame
    PROVE  /\ ~c.major => Called(x, c).now = x.now /\ Called(x, c).sum = x.sum
           /\ c.major =>
                /\ Called(x, c).now = t
                /\ Called(x, c).sum =
                     IF FrameOf(x.now) # FrameOf(t) /\ FrameOf(t) % Cycle = 0
                     THEN x.sum + One ELSE x.sum
  <1> DEFINE y == Ticked(x, IF Gate(x, c) THEN x.now + Amount(c) ELSE x.now)
  <1>1. Called(x, c) = IF c.major /\ Crossed(y) /\ Nth(y) THEN Add(y, One) ELSE y
    BY KindIs DEF Called, Clocked
  <1>2. Gate(x, c) <=> c.major
    BY KindIs, CallFacts DEF Gate
  <1>3. Amount(c) = c.logical * UnitsPerFrame
    <2>1. c.word = c.logical * c.units /\ c.patched \in BOOLEAN
      BY CallFacts
    <2>2. CASE c.patched
      BY <2>2, KindIs DEF Amount
    <2>3. CASE ~c.patched
      BY <2>1, <2>3, KindIs DEF Amount
    <2> QED BY <2>1, <2>2, <2>3
  <1>4. x.now \in Int /\ c.logical * UnitsPerFrame \in Int /\ One \in Int /\ t \in Int
    BY CallFacts, ObjectIs, SystemClock
  <1>5. y = Ticked(x, IF c.major THEN t ELSE x.now)
    BY <1>2, <1>3
  <1> HIDE DEF y
  <1>6. y \in Objects /\ y.was = x.now /\ y.now = (IF c.major THEN t ELSE x.now)
        /\ y.sum = x.sum
    BY <1>4, <1>5, TickedIs
  <1>7. Add(y, One).now = y.now /\ Add(y, One).sum = y.sum + One
    BY <1>4, <1>6, AddIs
  <1>8. CASE c.major
    BY <1>1, <1>6, <1>7, <1>8 DEF Crossed, Nth
  <1>9. CASE ~c.major
    BY <1>1, <1>6, <1>9
  <1> QED BY <1>8, <1>9

\* Division with a remainder, of any integer.
LEMMA IntDivMod ==
    ASSUME NEW a \in Int, NEW b \in Nat \ {0}
    PROVE  /\ a \div b \in Int /\ a % b \in 0 .. b - 1
           /\ a = (a \div b) * b + (a % b)
  OBVIOUS

\* A timer set back: by frames, or by frames in place of its tick, of which it
\* has then had a part.
Back == IF effect.does = "wrap" THEN Cycle + 1 ELSE Cycle

LEMMA BackIs ==
    ASSUME effect \in {Kind("jump", "tick", "speed", "logical"),
                       Kind("wrap", "tick", "speed", "rest")},
           NEW x \in Objects, NEW c \in Calls, c.logical = Full,
           c.patched \/ c.units = UnitsPerFrame
    PROVE  /\ Called(x, c).was = x.now
           /\ Called(x, c).now = IF x.now < Cycle * One THEN x.now + c.word
                                 ELSE x.now - Back * One + c.word
           /\ Called(x, c).sum = IF x.now < Cycle * One THEN x.sum ELSE x.sum + One
  <1>1. /\ c.word = Full * c.units /\ c.word \in Int /\ c.units \in Int
        /\ Full * c.units \in Int /\ c.patched \in BOOLEAN
    BY CallFacts, SystemClock
  <1>2. /\ x.now \in Int /\ Cycle \in Int /\ One \in Int /\ Cycle * One \in Int
        /\ One = Full * UnitsPerFrame /\ Full \in Int /\ UnitsPerFrame \in Int
    BY ObjectIs, SystemClock, Period
  <1>3. c.units = UnitsPerFrame => c.word = One
    BY <1>1, <1>2
  <1> DEFINE t == IF x.now < Cycle * One THEN x.now + c.word
                  ELSE x.now - Back * One + c.word
  <1>4. Called(x, c) = IF x.now < Cycle * One THEN Ticked(x, t) ELSE Ticked(Add(x, One), t)
    <2>1. CASE effect = Kind("jump", "tick", "speed", "logical")
      <3>1. Amount(c) = One
        BY <1>1, <1>2, <1>3, <2>1, KindIs DEF Amount
      <3> QED BY <2>1, <3>1, KindIs DEF Called, Jumped, Back
    <2>2. CASE effect = Kind("wrap", "tick", "speed", "rest")
      <3>1. Cycle * c.logical * UnitsPerFrame = Cycle * One
        BY <1>2
      <3>2. Full * (UnitsPerFrame - c.units) = One - Full * c.units
        BY <1>1, <1>2
      <3>3. (Cycle + 1) * One = Cycle * One + One
        BY <1>2
      <3>4. x.now - Cycle * c.logical * UnitsPerFrame
                - (IF c.patched THEN c.logical * (UnitsPerFrame - c.units) ELSE 0)
              = x.now - (Cycle + 1) * One + c.word
        BY <1>1, <1>2, <1>3, <3>1, <3>2, <3>3
      <3> QED BY <2>2, <3>4, KindIs DEF Called, Wrapped, Back
    <2> QED BY <2>1, <2>2
  <1>5. t \in Int
    <2>1. Back * One \in Int
      BY <1>2 DEF Back
    <2> QED BY <1>1, <1>2, <2>1
  <1> HIDE DEF t
  <1>6. Add(x, One) \in Objects /\ Add(x, One).now = x.now /\ Add(x, One).sum = x.sum + One
    BY <1>2, AddIs
  <1>7. CASE x.now < Cycle * One
    BY <1>4, <1>5, <1>7, TickedIs DEF t
  <1>8. CASE ~(x.now < Cycle * One)
    BY <1>4, <1>5, <1>6, <1>8, TickedIs DEF t
  <1> QED BY <1>7, <1>8

\* Movement: what the truncation leaves is carried.
LEMMA MoveIs ==
    ASSUME effect = Kind("move", "tick", "speed", "speed"), NEW x \in Objects, NEW c \in Calls
    PROVE  /\ Called(x, c).was = x.now /\ Called(x, c).now = x.now + c.word
           /\ c.logical = Full /\ c.units = UnitsPerFrame =>
                Called(x, c).sum = x.sum + Velocity /\ Called(x, c).rest = x.rest
           /\ c.patched /\ c.units # UnitsPerFrame =>
                /\ Called(x, c).rest \in 0 .. One - 1
                /\ One * Called(x, c).sum + Called(x, c).rest
                     = One * x.sum + x.rest + Velocity * c.word
  <1> DEFINE s == Velocity * c.word + Carry(x, c)
             d == s \div One
             r == s % One
             y == Ticked(Add(x, d), x.now + c.word)
             own == c.patched /\ c.units # UnitsPerFrame
  <1>1. /\ c.word = c.logical * c.units /\ c.word \in Int /\ c.units \in Int
        /\ x.now \in Int /\ x.rest \in Int /\ x.sum \in Int /\ Velocity \in Int
        /\ One \in Nat \ {0} /\ One = Full * UnitsPerFrame /\ x.now + c.word \in Int
    BY CallFacts, ObjectIs, SystemClock
  <1>2. s \in Int /\ Velocity * c.word \in Int
    <2>1. Velocity * c.word \in Int
      BY <1>1
    <2> QED BY <1>1, <2>1 DEF Carry
  <1>3. own => s = Velocity * c.word + x.rest
    BY DEF Carry
  <1>4. ~own => s = Velocity * c.word
    BY <1>2 DEF Carry
  <1>5. Called(x, c) = [y EXCEPT !.rest = IF own THEN r ELSE @]
    BY KindIs DEF Called, Moved
  <1>6. d \in Int /\ r \in 0 .. One - 1 /\ s = d * One + r
    <2> HIDE DEF s
    <2> QED BY <1>1, <1>2, IntDivMod
  <1>7. c.logical = Full /\ c.units = UnitsPerFrame => d = Velocity
    <2> HAVE c.logical = Full /\ c.units = UnitsPerFrame
    <2>1. s = Velocity * One
      BY <1>1, <1>4
    <2>2. (Velocity * One + 0) \div One = Velocity
      BY SystemClock, DivModUnique
    <2>3. Velocity * One + 0 = Velocity * One
      BY <1>1
    <2> QED BY <2>1, <2>2, <2>3
  <1> HIDE DEF d, r, s
  <1>8. Add(x, d) \in Objects /\ Add(x, d).now = x.now /\ Add(x, d).sum = x.sum + d
        /\ Add(x, d).rest = x.rest
    BY <1>6, AddIs
  <1>9. y \in Objects /\ y.was = x.now /\ y.now = x.now + c.word /\ y.sum = x.sum + d
        /\ y.rest = x.rest
    BY <1>1, <1>8, TickedIs
  <1> HIDE DEF y
  <1>10. \A k : /\ [y EXCEPT !.rest = k].was = y.was /\ [y EXCEPT !.rest = k].now = y.now
                /\ [y EXCEPT !.rest = k].sum = y.sum /\ [y EXCEPT !.rest = k].rest = k
    BY <1>9 DEF Objects
  <1>11. CASE own
    <2>1. Called(x, c) = [y EXCEPT !.rest = r]
      BY <1>5, <1>11
    <2>2. One * (x.sum + d) = One * x.sum + d * One /\ One * x.sum \in Int /\ d * One \in Int
      BY <1>1, <1>6
    <2>3. /\ Called(x, c).was = x.now /\ Called(x, c).now = x.now + c.word
          /\ Called(x, c).sum = x.sum + d /\ Called(x, c).rest = r
      BY <1>9, <1>10, <2>1
    <2>4. One * (x.sum + d) + r = One * x.sum + x.rest + Velocity * c.word
      BY <1>1, <1>2, <1>3, <1>6, <1>11, <2>2
    <2> QED BY <1>6, <1>11, <2>3, <2>4
  <1>12. CASE ~own
    <2>1. Called(x, c) = [y EXCEPT !.rest = y.rest]
      BY <1>5, <1>12
    <2> QED BY <1>7, <1>9, <1>10, <1>12, <2>1
  <1> QED BY <1>11, <1>12

-------------------------------------------------------------------------------
(* The two systems side by side.  A pair is an object of each, the frames  *)
(* it has begun, where its next tick starts, the speed, whether there was  *)
(* slow motion, and whether the rate cuts frames alike, or at all.         *)

Pairs ==
    [s : Objects, w : Objects, f : Nat, q : Int, l : 1 .. Full, slow : BOOLEAN,
     even : BOOLEAN, cut : BOOLEAN]

SlicedCall(b, u, e) == Context(TRUE, TRUE, u, b.l, b.f, e)
WholeCall(b) == Context(TRUE, FALSE, UnitsPerFrame, b.l, b.f, FALSE)
MinorCall(b, u) == Context(FALSE, TRUE, u, b.l, b.f, FALSE)

\* From a to b by a frame tick of u units; what a promotion waits for can come
\* early where frames are cut.
FrameCalls(a, b, u) ==
    /\ a.q \in 0 .. UnitsPerFrame - 1 /\ (a.even => a.q = 0)
    /\ \E e \in BOOLEAN : (e => a.cut) /\ b.s = Called(a.s, SlicedCall(b, u, e))
    /\ b.w = Called(a.w, WholeCall(b))
    /\ b.f = a.f + 1 /\ b.q = a.q + u - UnitsPerFrame
    /\ b.even = a.even /\ b.cut = a.cut
    /\ a.even => IF a.cut THEN u < UnitsPerFrame ELSE u = UnitsPerFrame
    /\ ~b.slow => ~a.slow /\ b.l = Full

\* By a minor tick.
MinorCalls(a, b, u) ==
    /\ a.q \in -UnitsPerFrame .. -1 /\ a.f > 0
    /\ b.s = Called(a.s, MinorCall(b, u)) /\ b.w = a.w
    /\ b.f = a.f /\ b.q = a.q + u /\ b.l = a.l /\ b.slow = a.slow
    /\ b.even = a.even /\ b.cut = a.cut
    /\ ~b.slow => b.l = Full

\* What a pair is made of.
LEMMA PairIs ==
    ASSUME NEW a \in Pairs
    PROVE  /\ a.s \in Objects /\ a.w \in Objects /\ a.f \in Nat /\ a.q \in Int
           /\ a.l \in 1 .. Full /\ a.slow \in BOOLEAN /\ a.even \in BOOLEAN
           /\ a.cut \in BOOLEAN
           /\ a.s.was \in Int /\ a.s.now \in Int /\ a.s.mark \in Int /\ a.s.sum \in Int
           /\ a.s.rest \in Int
           /\ a.w.was \in Int /\ a.w.now \in Int /\ a.w.mark \in Int /\ a.w.sum \in Int
           /\ a.w.rest \in Int
           /\ One * a.f \in Nat /\ Full * a.q \in Int
  <1>1. a.s \in Objects /\ a.w \in Objects /\ a.f \in Nat /\ a.q \in Int
    BY DEF Pairs
  <1>2. One \in Nat /\ Full \in Nat
    BY SystemClock
  <1>3. \A m, n \in Nat : m * n \in Nat
    OBVIOUS
  <1>4. \A m, n \in Int : m * n \in Int
    OBVIOUS
  <1>5. One * a.f \in Nat /\ Full * a.q \in Int
    BY <1>1, <1>2, <1>3, <1>4
  <1> QED BY <1>1, <1>5, ObjectIs DEF Pairs

\* Where a frame's tick starts, in speeds: less than a frame on.
LEMMA PlaceIs ==
    ASSUME NEW q \in 0 .. UnitsPerFrame - 1
    PROVE  Full * q \in 0 .. One - Full /\ Full <= One
  <1>1. /\ One \in Nat \ {0} /\ Full \in Nat \ {0} /\ UnitsPerFrame \in Nat \ {0}
        /\ One = Full * UnitsPerFrame
    BY SystemClock, Period
  <1>2. PICK k \in Nat : k = q
    OBVIOUS
  <1>3. k * Full <= (UnitsPerFrame - 1) * Full
    BY <1>1, <1>2, MulMono
  <1>4. (UnitsPerFrame - 1) * Full = Full * UnitsPerFrame - Full /\ k * Full = Full * k
        /\ Full * k \in Nat
    BY <1>1
  <1> QED BY <1>1, <1>2, <1>3, <1>4

\* The arithmetic of a frame tick,
LEMMA FrameCallsAre ==
    ASSUME NEW a \in Pairs, NEW b \in Pairs, NEW u \in 1 .. UnitsPerFrame,
           FrameCalls(a, b, u)
    PROVE  /\ \A e \in BOOLEAN :
                /\ SlicedCall(b, u, e) \in Calls
                /\ SlicedCall(b, u, e).major /\ SlicedCall(b, u, e).patched
                /\ SlicedCall(b, u, e).units = u /\ SlicedCall(b, u, e).logical = b.l
                /\ SlicedCall(b, u, e).frames = b.f /\ SlicedCall(b, u, e).early = e
                /\ SlicedCall(b, u, e).word = b.l * u
                /\ SlicedCall(b, u, e).word \in 1 .. One
                /\ ~b.slow => SlicedCall(b, u, e).word = Full * u
           /\ WholeCall(b) \in Calls /\ WholeCall(b).major /\ ~WholeCall(b).patched
           /\ WholeCall(b).units = UnitsPerFrame /\ WholeCall(b).logical = b.l
           /\ WholeCall(b).frames = b.f /\ ~WholeCall(b).early
           /\ WholeCall(b).word = b.l * UnitsPerFrame /\ WholeCall(b).word \in 1 .. One
           /\ b.f = a.f + 1 /\ One * b.f = One * a.f + One
           /\ Full * u \in Full .. One
           /\ Full * a.q \in 0 .. One - Full /\ (a.even => Full * a.q = 0)
           /\ Full * b.q = Full * a.q + Full * u - One
           /\ ~b.slow => ~a.slow /\ WholeCall(b).word = One
  <1>1. /\ b.l \in 1 .. Full /\ a.f \in Nat /\ b.f \in Nat /\ a.q \in Int
        /\ Full \in Nat \ {0} /\ UnitsPerFrame \in Nat \ {0} /\ One = Full * UnitsPerFrame
        /\ UnitsPerFrame \in 1 .. UnitsPerFrame /\ One \in Nat \ {0}
    BY PairIs, SystemClock, Period
  <1>2. /\ a.q \in 0 .. UnitsPerFrame - 1 /\ (a.even => a.q = 0)
        /\ b.f = a.f + 1 /\ b.q = a.q + u - UnitsPerFrame
        /\ ~b.slow => ~a.slow /\ b.l = Full
    BY DEF FrameCalls
  <1>3. ASSUME NEW e \in BOOLEAN
        PROVE  /\ SlicedCall(b, u, e) \in Calls
               /\ SlicedCall(b, u, e).major /\ SlicedCall(b, u, e).patched
               /\ SlicedCall(b, u, e).units = u /\ SlicedCall(b, u, e).logical = b.l
               /\ SlicedCall(b, u, e).frames = b.f /\ SlicedCall(b, u, e).early = e
               /\ SlicedCall(b, u, e).word = b.l * u
    <2>1. b.l * u \in Nat
      BY <1>1, MulNat
    <2>2. /\ SlicedCall(b, u, e) \in Calls
          /\ SlicedCall(b, u, e).major = TRUE /\ SlicedCall(b, u, e).patched = TRUE
          /\ SlicedCall(b, u, e).units = u /\ SlicedCall(b, u, e).logical = b.l
          /\ SlicedCall(b, u, e).frames = b.f /\ SlicedCall(b, u, e).early = e
          /\ SlicedCall(b, u, e).word = b.l * u
      BY <1>1, <2>1 DEF SlicedCall, Context, Calls
    <2> QED BY <2>2
  <1>4. /\ WholeCall(b) \in Calls /\ WholeCall(b).major /\ ~WholeCall(b).patched
        /\ WholeCall(b).units = UnitsPerFrame /\ WholeCall(b).logical = b.l
        /\ WholeCall(b).frames = b.f /\ ~WholeCall(b).early
        /\ WholeCall(b).word = b.l * UnitsPerFrame
    <2>1. b.l * UnitsPerFrame \in Nat
      BY <1>1, MulNat
    <2>2. /\ WholeCall(b) \in Calls
          /\ WholeCall(b).major = TRUE /\ WholeCall(b).patched = FALSE
          /\ WholeCall(b).units = UnitsPerFrame /\ WholeCall(b).logical = b.l
          /\ WholeCall(b).frames = b.f /\ WholeCall(b).early = FALSE
          /\ WholeCall(b).word = b.l * UnitsPerFrame
      BY <1>1, <2>1 DEF WholeCall, Context, Calls
    <2> QED BY <2>2
  <1>5. /\ \A e \in BOOLEAN : SlicedCall(b, u, e).word \in 1 .. One
        /\ WholeCall(b).word \in 1 .. One
        /\ Full * u \in Full .. One
    <2>1. \A e \in BOOLEAN : SlicedCall(b, u, e).word \in 1 .. One
      BY <1>3, CallFacts
    <2>2. Full * SlicedCall(b, u, TRUE).units \in Full .. One
      BY <1>3, CallFacts
    <2> QED BY <1>3, <1>4, <2>1, <2>2, CallFacts
  <1>6. One * b.f = One * a.f + One
    BY <1>1, <1>2
  <1>7. Full * b.q = Full * a.q + Full * u - One
    <2>1. Full * (a.q + u - UnitsPerFrame) = Full * a.q + Full * u - Full * UnitsPerFrame
      BY <1>1
    <2> QED BY <1>1, <1>2, <2>1
  <1>8. Full * a.q \in 0 .. One - Full
    BY <1>2, PlaceIs
  <1>9. a.even => Full * a.q = 0
    BY <1>1, <1>2
  <1>10. \A e \in BOOLEAN : ~b.slow => SlicedCall(b, u, e).word = Full * u
    BY <1>2, <1>3
  <1>11. ~b.slow => ~a.slow /\ WholeCall(b).word = One
    BY <1>1, <1>2, <1>4
  <1> QED BY <1>2, <1>3, <1>4, <1>5, <1>6, <1>7, <1>8, <1>9, <1>10, <1>11

\* and of a minor one.
LEMMA MinorCallsAre ==
    ASSUME NEW a \in Pairs, NEW b \in Pairs, NEW u \in 1 .. UnitsPerFrame,
           MinorCalls(a, b, u)
    PROVE  /\ MinorCall(b, u) \in Calls /\ ~MinorCall(b, u).major /\ MinorCall(b, u).patched
           /\ MinorCall(b, u).units = u /\ MinorCall(b, u).logical = b.l
           /\ MinorCall(b, u).frames = b.f /\ ~MinorCall(b, u).early
           /\ MinorCall(b, u).word = b.l * u /\ MinorCall(b, u).word \in 1 .. One
           /\ Full * u \in Full .. One
           /\ Full * a.q \in -One .. -Full
           /\ Full * b.q = Full * a.q + Full * u
           /\ ~b.slow => MinorCall(b, u).word = Full * u
  <1>1. /\ b.l \in 1 .. Full /\ a.f \in Nat /\ b.f \in Nat /\ a.q \in Int
        /\ Full \in Nat \ {0} /\ UnitsPerFrame \in Nat \ {0} /\ One = Full * UnitsPerFrame
        /\ One \in Nat \ {0}
    BY PairIs, SystemClock, Period
  <1>2. /\ a.q \in -UnitsPerFrame .. -1 /\ b.q = a.q + u /\ (~b.slow => b.l = Full)
    BY DEF MinorCalls
  <1>3. /\ MinorCall(b, u) \in Calls /\ ~MinorCall(b, u).major /\ MinorCall(b, u).patched
        /\ MinorCall(b, u).units = u /\ MinorCall(b, u).logical = b.l
        /\ MinorCall(b, u).frames = b.f /\ MinorCall(b, u).word = b.l * u
        /\ ~MinorCall(b, u).early
    <2>1. b.l * u \in Nat
      BY <1>1, MulNat
    <2>2. /\ MinorCall(b, u) \in Calls
          /\ MinorCall(b, u).major = FALSE /\ MinorCall(b, u).patched = TRUE
          /\ MinorCall(b, u).units = u /\ MinorCall(b, u).logical = b.l
          /\ MinorCall(b, u).frames = b.f /\ MinorCall(b, u).word = b.l * u
          /\ MinorCall(b, u).early = FALSE
      BY <1>1, <2>1 DEF MinorCall, Context, Calls
    <2> QED BY <2>2
  <1>4. MinorCall(b, u).word \in 1 .. One /\ Full * u \in Full .. One
    BY <1>3, CallFacts
  <1>5. Full * b.q = Full * a.q + Full * u
    <2>1. Full * (a.q + u) = Full * a.q + Full * u
      BY <1>1
    <2> QED BY <1>2, <2>1
  <1>6. Full * a.q \in -One .. -Full
    <2>1. PICK k \in Nat : k = -a.q
      BY <1>2
    <2>2. k * Full <= UnitsPerFrame * Full /\ 1 * Full <= k * Full
      BY <1>1, <1>2, <2>1, MulMono
    <2>3. UnitsPerFrame * Full = Full * UnitsPerFrame /\ k * Full \in Nat /\ 1 * Full = Full
          /\ Full * a.q = -(k * Full)
      BY <1>1, <2>1
    <2> QED BY <1>1, <2>2, <2>3
  <1> QED BY <1>1, <1>2, <1>3, <1>4, <1>5, <1>6

-------------------------------------------------------------------------------
(* Timers. *)

\* What runs with the ticks, in the frames since t was 0, is where the tick is,
\* less where it was when it began, which was within its frame.
Lagging(a, t, f) ==
    /\ Full * a.q - (t - One * f) \in 0 .. One - Full
    /\ a.even => Full * a.q = t - One * f

LEMMA LagFrame ==
    ASSUME NEW a \in Pairs, NEW b \in Pairs, NEW u \in 1 .. UnitsPerFrame,
           FrameCalls(a, b, u), NEW t \in Int, NEW f \in Nat, Lagging(a, t, f)
    PROVE  /\ Lagging(b, t + Full * u, f + 1)
           /\ One * f - One < t /\ t < One * f + One
           /\ a.even => t = One * f
  <1>1. /\ One \in Nat \ {0} /\ Full \in Nat \ {0} /\ Full * a.q \in Int
        /\ 0 <= Full * a.q /\ Full * a.q <= One - Full /\ (a.even => Full * a.q = 0)
        /\ Full * b.q = Full * a.q + Full * u - One /\ Full * u \in Int
    BY FrameCallsAre, SystemClock, PairIs
  <1>2. One * f \in Nat /\ One * (f + 1) = One * f + One
    BY <1>1
  <1>3. /\ Full * a.q - (t - One * f) \in 0 .. One - Full
        /\ a.even => Full * a.q = t - One * f
    BY DEF Lagging
  <1>4. Full * a.q - (t - One * f) >= 0 /\ Full * a.q - (t - One * f) <= One - Full
    BY <1>1, <1>2, <1>3
  <1>5. Full * b.q - ((t + Full * u) - One * (f + 1)) = Full * a.q - (t - One * f)
    BY <1>1, <1>2
  <1>6. b.even = a.even
    BY DEF FrameCalls
  <1>7. b.even => Full * b.q = (t + Full * u) - One * (f + 1)
    BY <1>1, <1>2, <1>3, <1>6
  <1>8. One * f - One < t
    BY <1>1, <1>2, <1>4
  <1>9. t < One * f + One
    BY <1>1, <1>2, <1>4
  <1>10. a.even => t = One * f
    BY <1>1, <1>2, <1>3
  <1> QED BY <1>3, <1>5, <1>7, <1>8, <1>9, <1>10 DEF Lagging

LEMMA LagMinor ==
    ASSUME NEW a \in Pairs, NEW b \in Pairs, NEW u \in 1 .. UnitsPerFrame,
           MinorCalls(a, b, u), NEW t \in Int, NEW f \in Nat, Lagging(a, t, f)
    PROVE  /\ Lagging(b, t + Full * u, f)
           /\ One * f - 2 * One < t /\ t < One * f
           /\ a.even => One * f - One <= t
  <1>1. /\ One \in Nat \ {0} /\ Full \in Nat \ {0} /\ Full * a.q \in Int
        /\ -One <= Full * a.q /\ Full * a.q <= -Full
        /\ Full * b.q = Full * a.q + Full * u /\ Full * u \in Int
    BY MinorCallsAre, SystemClock, PairIs
  <1>2. One * f \in Nat
    BY <1>1
  <1>3. /\ Full * a.q - (t - One * f) \in 0 .. One - Full
        /\ a.even => Full * a.q = t - One * f
    BY DEF Lagging
  <1>4. Full * a.q - (t - One * f) >= 0 /\ Full * a.q - (t - One * f) <= One - Full
    BY <1>1, <1>2, <1>3
  <1>5. Full * b.q - ((t + Full * u) - One * f) = Full * a.q - (t - One * f)
    BY <1>1, <1>2
  <1>6. b.even = a.even
    BY DEF MinorCalls
  <1>7. b.even => Full * b.q = (t + Full * u) - One * f
    BY <1>1, <1>2, <1>3, <1>6
  <1>8. One * f - 2 * One < t
    BY <1>1, <1>2, <1>4
  <1>9. t < One * f
    BY <1>1, <1>2, <1>4
  <1>10. a.even => One * f - One <= t
    BY <1>1, <1>2, <1>3
  <1> QED BY <1>3, <1>5, <1>7, <1>8, <1>9, <1>10 DEF Lagging

\* The timers of the two: at full speed the stepped one was within a frame of the
\* unmodified one's last tick when it was last called, and is within one of it.
Timed(a) ==
    /\ a.s.now - a.s.was \in 1 .. One
    /\ a.even => a.s.now = a.w.now + a.l * a.q
    /\ ~a.slow =>
         /\ a.w.now = One * a.f /\ a.w.was = One * a.f - One
         /\ Lagging(a, a.s.now, a.f)
         /\ One * a.f - 2 * One < a.s.was /\ a.s.was < One * a.f
         /\ a.even => One * a.f - One <= a.s.was

\* The kinds whose timer ticks once a call.
Plain == effect.does \in {"call", "at", "nth", "ask", "fresh", "lit", "hit", "move"}

LEMMA PlainTimes ==
    ASSUME effect \in Kinds, Plain, NEW x \in Objects, NEW c \in Calls
    PROVE  Called(x, c).was = x.now /\ Called(x, c).now = x.now + c.word
  <1>1. CASE effect.does \in {"call", "at", "nth", "fresh"}
    BY <1>1, OnceIs
  <1>2. CASE effect.does = "lit"
    <2>1. effect = Kind("lit", "moved", "one", "one")
      BY <1>2 DEF Kinds, Kind
    <2> QED BY <2>1, LitIs
  <1>3. CASE effect.does = "hit"
    BY <1>3, HitIs
  <1>4. CASE effect.does = "move"
    <2>1. effect = Kind("move", "tick", "speed", "speed")
      BY <1>4 DEF Kinds, Kind
    <2> QED BY <2>1, MoveIs
  <1>5. CASE effect.does = "ask"
    <2>1. effect = Kind("ask", "frame", "one", "one")
      BY <1>5 DEF Kinds, Kind
    <2> QED BY <2>1, AskIs
  <1> QED BY <1>1, <1>2, <1>3, <1>4, <1>5 DEF Plain

\* A pair just born, on a frame's tick.
NewPair(a) ==
    /\ a.s = Born /\ a.w = Born /\ a.f = 0 /\ ~a.slow
    /\ a.q \in 0 .. UnitsPerFrame - 1 /\ (a.even => a.q = 0)

LEMMA BornIs ==
    ASSUME NEW a \in Pairs, NewPair(a)
    PROVE  /\ a.s.was = -One /\ a.s.now = 0 /\ a.s.mark = -1 /\ a.s.sum = 0 /\ a.s.rest = 0
           /\ a.w.was = -One /\ a.w.now = 0 /\ a.w.mark = -1 /\ a.w.sum = 0 /\ a.w.rest = 0
           /\ a.f = 0 /\ One * a.f = 0 /\ ~a.slow /\ One \in Nat \ {0}
           /\ Full * a.q \in 0 .. One - Full /\ (a.even => a.q = 0 /\ Full * a.q = 0)
  <1>1. One \in Nat \ {0} /\ Full \in Nat \ {0} /\ UnitsPerFrame \in Nat \ {0}
        /\ One = Full * UnitsPerFrame
    BY SystemClock, Period
  <1>2. a.q \in 0 .. UnitsPerFrame - 1 /\ (a.even => a.q = 0) /\ a.f = 0
    BY DEF NewPair
  <1>3. Full * a.q \in 0 .. One - Full
    BY <1>2, PlaceIs
  <1>4. One * a.f = 0 /\ (a.even => Full * a.q = 0)
    BY <1>1, <1>2
  <1> QED BY <1>1, <1>2, <1>3, <1>4 DEF NewPair, Born

LEMMA TimedBorn ==
    ASSUME NEW a \in Pairs, NewPair(a)
    PROVE  Timed(a)
  <1>1. a.even => a.l * a.q = 0
    <2>1. a.l \in Int
      BY PairIs
    <2> QED BY <2>1, BornIs
  <1> QED BY <1>1, BornIs DEF Timed, Lagging

LEMMA TimedFrame ==
    ASSUME NEW a \in Pairs, NEW b \in Pairs, NEW u \in 1 .. UnitsPerFrame,
           FrameCalls(a, b, u), effect \in Kinds, Plain, Timed(a)
    PROVE  Timed(b)
  <1>0. PICK e \in BOOLEAN : b.s = Called(a.s, SlicedCall(b, u, e))
    BY DEF FrameCalls
  <1> DEFINE x == SlicedCall(b, u, e).word
             y == WholeCall(b).word
  <1>1. /\ x \in 1 .. One /\ y \in 1 .. One /\ One \in Nat \ {0} /\ Full \in Nat \ {0}
        /\ x = b.l * u /\ y = b.l * UnitsPerFrame
        /\ One * b.f = One * a.f + One /\ One * a.f \in Nat
        /\ Full * a.q \in 0 .. One - Full /\ (a.even => Full * a.q = 0)
        /\ Full * b.q = Full * a.q + Full * u - One /\ Full * u \in Full .. One
        /\ (~b.slow => ~a.slow /\ x = Full * u /\ y = One)
    BY FrameCallsAre, SystemClock, PairIs
  <1>2. /\ b.s = Called(a.s, SlicedCall(b, u, e)) /\ b.w = Called(a.w, WholeCall(b))
        /\ SlicedCall(b, u, e) \in Calls /\ WholeCall(b) \in Calls
        /\ a.s \in Objects /\ a.w \in Objects
        /\ b.even = a.even /\ (a.even => a.q = 0) /\ b.q = a.q + u - UnitsPerFrame
    <2>1. SlicedCall(b, u, e) \in Calls /\ WholeCall(b) \in Calls
      BY FrameCallsAre
    <2>2. /\ b.w = Called(a.w, WholeCall(b)) /\ b.even = a.even /\ (a.even => a.q = 0)
          /\ b.q = a.q + u - UnitsPerFrame
      BY DEF FrameCalls
    <2> QED BY <1>0, <2>1, <2>2, PairIs
  <1>3. /\ b.s.was = a.s.now /\ b.s.now = a.s.now + x
        /\ b.w.was = a.w.now /\ b.w.now = a.w.now + y
    BY <1>2, PlainTimes
  <1>4. a.s.now \in Int /\ a.w.now \in Int /\ b.l \in Int /\ a.l \in Int /\ a.q \in Int
    BY PairIs
  <1>5. a.even => b.s.now = b.w.now + b.l * b.q
    <2> HAVE a.even
    <2>1. a.l * a.q = 0
      BY <1>2, <1>4
    <2>2. a.s.now = a.w.now
      BY <1>4, <2>1 DEF Timed
    <2>3. b.l * (u - UnitsPerFrame) = b.l * u - b.l * UnitsPerFrame
      BY <1>4, Period
    <2>4. b.q = u - UnitsPerFrame
      BY <1>2, Period
    <2>5. b.l * b.q = x - y
      BY <1>1, <2>3, <2>4
    <2> HIDE DEF x, y
    <2> QED BY <1>1, <1>3, <1>4, <2>2, <2>5
  <1> HIDE DEF x, y
  <1>6. ~b.slow =>
          /\ b.w.now = One * b.f /\ b.w.was = One * b.f - One
          /\ Lagging(b, b.s.now, b.f)
          /\ One * b.f - 2 * One < b.s.was /\ b.s.was < One * b.f
          /\ b.even => One * b.f - One <= b.s.was
    <2> HAVE ~b.slow
    <2>1. /\ a.w.now = One * a.f /\ x = Full * u /\ y = One
          /\ Full * a.q - (a.s.now - One * a.f) \in 0 .. One - Full
          /\ a.even => Full * a.q = a.s.now - One * a.f
      BY <1>1 DEF Timed, Lagging
    <2>2. b.w.now = One * b.f /\ b.w.was = One * b.f - One
      BY <1>1, <1>3, <2>1
    <2>3. Lagging(a, a.s.now, a.f) /\ a.f \in Nat /\ b.f = a.f + 1
      BY <1>1, PairIs DEF Timed, FrameCalls
    <2>4. /\ Lagging(b, a.s.now + Full * u, a.f + 1)
          /\ One * a.f - One < a.s.now /\ a.s.now < One * a.f + One
          /\ a.even => a.s.now = One * a.f
      BY <1>4, <2>3, LagFrame
    <2>5. Lagging(b, b.s.now, b.f)
      BY <1>3, <2>1, <2>3, <2>4
    <2>6. One * b.f - 2 * One < b.s.was
      BY <1>1, <1>3, <1>4, <2>4
    <2>7. b.s.was < One * b.f
      BY <1>1, <1>3, <1>4, <2>4
    <2>8. b.even => One * b.f - One <= b.s.was
      <3> HAVE b.even
      <3>1. a.s.now = One * a.f
        BY <1>2, <2>4
      <3>2. One * b.f - One = One * a.f
        BY <1>1
      <3> QED BY <1>1, <1>3, <3>1, <3>2
    <2> QED BY <2>2, <2>5, <2>6, <2>7, <2>8
  <1>7. b.s.now - b.s.was \in 1 .. One
    BY <1>1, <1>3, <1>4
  <1> QED BY <1>2, <1>5, <1>6, <1>7 DEF Timed

LEMMA TimedMinor ==
    ASSUME NEW a \in Pairs, NEW b \in Pairs, NEW u \in 1 .. UnitsPerFrame,
           MinorCalls(a, b, u), effect \in Kinds, Plain, Timed(a)
    PROVE  Timed(b)
  <1> DEFINE x == MinorCall(b, u).word
  <1>1. /\ x \in 1 .. One /\ One \in Nat \ {0} /\ Full \in Nat \ {0} /\ x = b.l * u
        /\ One * a.f \in Nat /\ b.f = a.f
        /\ Full * a.q \in -One .. -Full
        /\ Full * b.q = Full * a.q + Full * u /\ Full * u \in Full .. One
        /\ (~b.slow => ~a.slow /\ x = Full * u)
    BY MinorCallsAre, SystemClock, PairIs DEF MinorCalls
  <1>2. /\ b.s = Called(a.s, MinorCall(b, u)) /\ b.w = a.w
        /\ MinorCall(b, u) \in Calls /\ a.s \in Objects
        /\ b.even = a.even /\ b.q = a.q + u /\ b.l = a.l
    BY MinorCallsAre, PairIs DEF MinorCalls
  <1>3. b.s.was = a.s.now /\ b.s.now = a.s.now + x
    BY <1>2, PlainTimes
  <1>4. a.s.now \in Int /\ a.w.now \in Int /\ b.l \in Int /\ a.q \in Int
    BY PairIs
  <1>5. a.even => b.s.now = b.w.now + b.l * b.q
    <2>1. b.l * (a.q + u) = b.l * a.q + b.l * u /\ b.l * a.q \in Int
      BY <1>4
    <2>2. b.l * b.q = b.l * a.q + x
      BY <1>1, <1>2, <2>1
    <2> HIDE DEF x
    <2> QED BY <1>1, <1>2, <1>3, <1>4, <2>1, <2>2 DEF Timed
  <1> HIDE DEF x
  <1>6. ~b.slow =>
          /\ b.w.now = One * b.f /\ b.w.was = One * b.f - One
          /\ Lagging(b, b.s.now, b.f)
          /\ One * b.f - 2 * One < b.s.was /\ b.s.was < One * b.f
          /\ b.even => One * b.f - One <= b.s.was
    <2> HAVE ~b.slow
    <2>1. /\ a.w.now = One * a.f /\ a.w.was = One * a.f - One /\ x = Full * u
          /\ Lagging(a, a.s.now, a.f) /\ a.f \in Nat
      BY <1>1, PairIs DEF Timed
    <2>2. /\ Lagging(b, a.s.now + Full * u, a.f)
          /\ One * a.f - 2 * One < a.s.now /\ a.s.now < One * a.f
          /\ a.even => One * a.f - One <= a.s.now
      BY <1>4, <2>1, LagMinor
    <2> QED BY <1>1, <1>2, <1>3, <2>1, <2>2
  <1>7. b.s.now - b.s.was \in 1 .. One
    BY <1>1, <1>3, <1>4
  <1> QED BY <1>2, <1>5, <1>6, <1>7 DEF Timed

-------------------------------------------------------------------------------
(* What a timer gates. *)

\* Quotient and remainder of any integer are unique.
LEMMA IntDivModUnique ==
    ASSUME NEW b \in Nat \ {0}, NEW q \in Int, NEW r \in 0 .. b - 1
    PROVE  (q * b + r) \div b = q /\ (q * b + r) % b = r
  OBVIOUS

\* The frame that a time is in.
LEMMA FrameOfIs ==
    ASSUME NEW t \in Int, NEW k \in Int, One * k <= t, t < One * k + One
    PROVE  FrameOf(t) = k
  <1>1. One \in Nat \ {0} /\ One * k \in Int /\ One * k = k * One
    BY SystemClock
  <1>2. PICK r \in 0 .. One - 1 : r = t - One * k
    BY <1>1
  <1>3. (k * One + r) \div One = k
    BY <1>1, <1>2, IntDivModUnique
  <1>4. k * One + r = t
    BY <1>1, <1>2
  <1> QED BY <1>3, <1>4 DEF FrameOf

LEMMA FrameOfBounds ==
    ASSUME NEW t \in Int
    PROVE  /\ FrameOf(t) \in Int
           /\ One * FrameOf(t) <= t /\ t < One * FrameOf(t) + One
  <1> DEFINE q == t \div One
             r == t % One
  <1>1. One \in Nat \ {0} /\ q \in Int /\ r \in 0 .. One - 1 /\ t = q * One + r
    BY SystemClock, IntDivMod
  <1>2. FrameOf(t) = q
    BY DEF FrameOf
  <1> HIDE DEF q, r
  <1>3. One * q = q * One /\ q * One \in Int
    BY <1>1
  <1>4. One * q <= t
    BY <1>1, <1>3
  <1>5. t < One * q + One
    BY <1>1, <1>3
  <1> QED BY <1>1, <1>2, <1>4, <1>5

\* In a call's time a timer begins one frame or none.
LEMMA NextFrame ==
    ASSUME NEW t \in Int, NEW n \in Int, n - t \in 1 .. One
    PROVE  FrameOf(n) \in {FrameOf(t), FrameOf(t) + 1}
  <1> DEFINE k == FrameOf(t)
  <1>1. k \in Int /\ One * k <= t /\ t < One * k + One
    BY FrameOfBounds
  <1> HIDE DEF k
  <1>2. One \in Nat \ {0} /\ One * k \in Int /\ One * (k + 1) = One * k + One /\ k + 1 \in Int
    BY <1>1, SystemClock
  <1>3. CASE n < One * k + One
    <2>1. One * k <= n
      BY <1>1, <1>2
    <2>2. FrameOf(n) = k
      BY <1>1, <1>3, <2>1, FrameOfIs
    <2> QED BY <2>2 DEF k
  <1>4. CASE One * k + One <= n
    <2>1. n < One * (k + 1) + One
      BY <1>1, <1>2
    <2>2. FrameOf(n) = k + 1
      BY <1>2, <1>4, <2>1, FrameOfIs
    <2> QED BY <2>2 DEF k
  <1> QED BY <1>2, <1>3, <1>4

\* A step of the two: the stepped one is called, and on a frame tick the other.
Steps(a, b, u) == FrameCalls(a, b, u) \/ MinorCalls(a, b, u)

LEMMA StepIs ==
    ASSUME NEW a \in Pairs, NEW b \in Pairs, NEW u \in 1 .. UnitsPerFrame, Steps(a, b, u)
    PROVE  \E c, d \in Calls :
             /\ b.s = Called(a.s, c) /\ c.patched /\ c.units = u /\ c.logical = b.l
             /\ c.frames = b.f /\ d.frames = b.f
             /\ d.major /\ ~d.patched /\ d.units = UnitsPerFrame /\ d.logical = b.l
             /\ IF c.major THEN FrameCalls(a, b, u) /\ b.w = Called(a.w, d) /\ b.f = a.f + 1
                           ELSE MinorCalls(a, b, u) /\ b.w = a.w /\ b.f = a.f
             /\ ~b.slow => ~a.slow /\ b.l = Full /\ c.word = Full * u /\ d.word = One
             /\ (c.early => b.cut) /\ ~d.early /\ b.even = a.even /\ b.cut = a.cut /\ b.f > 0
  <1>1. CASE FrameCalls(a, b, u)
    <2>0. PICK e \in BOOLEAN : (e => a.cut) /\ b.s = Called(a.s, SlicedCall(b, u, e))
      BY <1>1 DEF FrameCalls
    <2> DEFINE c == SlicedCall(b, u, e)
               d == WholeCall(b)
    <2>1. /\ c \in Calls /\ c.major /\ c.patched /\ c.units = u /\ c.logical = b.l
          /\ c.frames = b.f /\ d \in Calls /\ d.major /\ ~d.patched
          /\ d.units = UnitsPerFrame /\ d.logical = b.l /\ d.frames = b.f /\ b.f = a.f + 1
          /\ ~b.slow => ~a.slow /\ c.word = Full * u /\ d.word = One
          /\ c.early = e /\ ~d.early
      BY <1>1, FrameCallsAre
    <2>2. b.s = Called(a.s, c) /\ b.w = Called(a.w, d) /\ b.even = a.even /\ b.cut = a.cut
          /\ (~b.slow => b.l = Full) /\ (e => b.cut)
      BY <1>1, <2>0 DEF FrameCalls
    <2>3. b.f > 0
      BY <2>1, PairIs
    <2> HIDE DEF c, d
    <2> QED BY <1>1, <2>1, <2>2, <2>3
  <1>2. CASE MinorCalls(a, b, u)
    <2> DEFINE c == MinorCall(b, u)
               d == WholeCall(b)
    <2>1. /\ c \in Calls /\ ~c.major /\ c.patched /\ c.units = u /\ c.logical = b.l
          /\ c.frames = b.f /\ (~b.slow => c.word = Full * u) /\ ~c.early
      BY <1>2, MinorCallsAre
    <2>2. /\ d \in Calls /\ d.major /\ ~d.patched /\ d.units = UnitsPerFrame
          /\ d.logical = b.l /\ d.frames = b.f /\ d.word = b.l * UnitsPerFrame
          /\ ~d.early
      <3>1. /\ b.l \in 1 .. Full /\ b.f \in Nat /\ UnitsPerFrame \in 1 .. UnitsPerFrame
            /\ b.l * UnitsPerFrame \in Nat
        <4>1. b.l \in 1 .. Full /\ b.f \in Nat
          BY PairIs
        <4> QED BY <4>1, SpeedTimesFactor
      <3> QED BY <3>1 DEF WholeCall, Context, Calls
    <2>3. /\ b.s = Called(a.s, c) /\ b.w = a.w /\ b.f = a.f /\ a.f > 0 /\ b.slow = a.slow
          /\ b.even = a.even /\ b.cut = a.cut /\ (~b.slow => b.l = Full)
      BY <1>2 DEF MinorCalls
    <2>4. ~b.slow => d.word = One
      BY <2>2, <2>3, SystemClock
    <2> HIDE DEF c, d
    <2> QED BY <1>2, <2>1, <2>2, <2>3, <2>4
  <1> QED BY <1>1, <1>2 DEF Steps

LEMMA TimedStep ==
    ASSUME NEW a \in Pairs, NEW b \in Pairs, NEW u \in 1 .. UnitsPerFrame, Steps(a, b, u),
           effect \in Kinds, Plain, Timed(a)
    PROVE  Timed(b)
  BY TimedFrame, TimedMinor DEF Steps

\* The frames that the timers of the two are in, at the last call and now.
LEMMA TimedFrames ==
    ASSUME NEW a \in Pairs, Timed(a)
    PROVE  /\ FrameOf(a.s.was) \in Int
           /\ FrameOf(a.s.now) = IF Crossed(a.s) THEN FrameOf(a.s.was) + 1
                                 ELSE FrameOf(a.s.was)
           /\ a.s.was # a.s.now
           /\ ~a.slow =>
                /\ FrameOf(a.w.now) = a.f /\ FrameOf(a.w.was) = a.f - 1 /\ Crossed(a.w)
                /\ FrameOf(a.s.was) \in {a.f - 2, a.f - 1}
                /\ a.even => FrameOf(a.s.was) = a.f - 1
  <1>1. a.s.was \in Int /\ a.s.now \in Int /\ a.w.now \in Int /\ a.w.was \in Int
        /\ a.f \in Int /\ One \in Nat \ {0} /\ One * a.f \in Int
    BY PairIs, SystemClock
  <1>2. a.s.now - a.s.was \in 1 .. One
    BY DEF Timed
  <1>3. FrameOf(a.s.now) \in {FrameOf(a.s.was), FrameOf(a.s.was) + 1}
        /\ FrameOf(a.s.was) \in Int
    BY <1>1, <1>2, NextFrame, FrameOfBounds
  <1>4. a.s.was # a.s.now
    BY <1>1, <1>2
  <1>5. ASSUME ~a.slow
        PROVE  /\ FrameOf(a.w.now) = a.f /\ FrameOf(a.w.was) = a.f - 1 /\ Crossed(a.w)
               /\ FrameOf(a.s.was) \in {a.f - 2, a.f - 1}
               /\ a.even => FrameOf(a.s.was) = a.f - 1
    <2>1. /\ a.w.now = One * a.f /\ a.w.was = One * a.f - One
          /\ One * a.f - 2 * One < a.s.was /\ a.s.was < One * a.f
          /\ a.even => One * a.f - One <= a.s.was
      BY <1>5 DEF Timed
    <2>2. /\ One * (a.f - 1) = One * a.f - One /\ One * (a.f - 2) = One * a.f - 2 * One
          /\ a.f - 1 \in Int /\ a.f - 2 \in Int /\ 2 * One \in Int /\ One * a.f - One \in Int
          /\ One * a.f - 2 * One + One = One * a.f - One
      BY <1>1
    <2>3. FrameOf(a.w.now) = a.f
      BY <1>1, <2>1, FrameOfIs
    <2>4. FrameOf(a.w.was) = a.f - 1
      <3>1. One * (a.f - 1) <= a.w.was /\ a.w.was < One * (a.f - 1) + One
        BY <1>1, <2>1, <2>2
      <3> QED BY <1>1, <2>2, <3>1, FrameOfIs
    <2>5. CASE One * a.f - One <= a.s.was
      <3>1. One * (a.f - 1) <= a.s.was /\ a.s.was < One * (a.f - 1) + One
        BY <1>1, <2>1, <2>2, <2>5
      <3>2. FrameOf(a.s.was) = a.f - 1
        BY <1>1, <2>2, <3>1, FrameOfIs
      <3> QED BY <1>1, <2>3, <2>4, <3>2 DEF Crossed
    <2>6. CASE ~(One * a.f - One <= a.s.was)
      <3>1. One * (a.f - 2) <= a.s.was /\ a.s.was < One * (a.f - 2) + One
        BY <1>1, <2>1, <2>2, <2>6
      <3>2. FrameOf(a.s.was) = a.f - 2
        BY <1>1, <2>2, <3>1, FrameOfIs
      <3> QED BY <1>1, <2>1, <2>3, <2>4, <2>6, <3>2 DEF Crossed
    <2> QED BY <2>5, <2>6
  <1> QED BY <1>3, <1>4, <1>5 DEF Crossed

-------------------------------------------------------------------------------
(* What each kind keeps of a pair. *)

\* Gated by an object's own timer: a call a frame that the timer has begun.
Counted(a) ==
    ~a.slow => a.s.sum = One * (FrameOf(a.s.was) + 1) /\ a.w.sum = One * a.f

\* Once the timer is at frame 1, and at every n-th frame.
AtOnce(a) ==
    ~a.slow => /\ a.s.sum = IF FrameOf(a.s.was) >= 1 THEN One ELSE 0
               /\ a.w.sum = IF FrameOf(a.w.was) >= 1 THEN One ELSE 0

Nths(a) ==
    ~a.slow => /\ a.s.sum = One * (FrameOf(a.s.was) \div Cycle + 1)
               /\ a.w.sum = One * (FrameOf(a.w.was) \div Cycle + 1)

\* Up as the timer was at the last call.
Blinks(a) ==
    ~a.slow /\ a.f > 0 =>
        /\ a.s.sum = IF FrameOf(a.s.was) % Cycle = 0 THEN One ELSE 0
        /\ a.w.sum = IF FrameOf(a.w.was) % Cycle = 0 THEN One ELSE 0

LEMMA CountedStep ==
    ASSUME NEW a \in Pairs, NEW b \in Pairs, NEW u \in 1 .. UnitsPerFrame, Steps(a, b, u),
           effect = Kind("call", "timer", "one", "one"), Timed(a), Counted(a)
    PROVE  Counted(b)
  <1> SUFFICES ASSUME ~b.slow
               PROVE  b.s.sum = One * (FrameOf(b.s.was) + 1) /\ b.w.sum = One * b.f
    BY DEF Counted
  <1>1. PICK c, d \in Calls :
          /\ b.s = Called(a.s, c) /\ c.patched /\ ~d.patched /\ ~a.slow
          /\ IF c.major THEN b.w = Called(a.w, d) /\ b.f = a.f + 1
                        ELSE b.w = a.w /\ b.f = a.f
    BY StepIs
  <1>2. a.s \in Objects /\ a.w \in Objects /\ a.s.sum \in Int /\ a.f \in Int
        /\ One \in Int /\ effect.does = "call"
    BY PairIs, SystemClock, KindIs
  <1>3. /\ b.s.was = a.s.now
        /\ b.s.sum = IF Crossed(a.s) THEN a.s.sum + One ELSE a.s.sum
    BY <1>1, <1>2, OnceIs, CallTimerIs
  <1>4. FrameOf(a.s.was) \in Int
        /\ FrameOf(a.s.now) = IF Crossed(a.s) THEN FrameOf(a.s.was) + 1
                              ELSE FrameOf(a.s.was)
    BY TimedFrames
  <1>5. One * ((FrameOf(a.s.was) + 1) + 1) = One * (FrameOf(a.s.was) + 1) + One
    BY <1>2, <1>4
  <1>6. b.s.sum = One * (FrameOf(b.s.was) + 1)
    BY <1>1, <1>3, <1>4, <1>5 DEF Counted
  <1>7. b.w.sum = One * b.f
    <2>1. One * (a.f + 1) = One * a.f + One
      BY <1>2
    <2>2. CASE c.major
      <3>1. b.w.sum = a.w.sum + One
        BY <1>1, <1>2, <2>2, CallTimerIs
      <3> QED BY <1>1, <2>1, <2>2, <3>1 DEF Counted
    <2>3. CASE ~c.major
      BY <1>1, <2>3 DEF Counted
    <2> QED BY <2>2, <2>3
  <1> QED BY <1>6, <1>7

LEMMA AtOnceStep ==
    ASSUME NEW a \in Pairs, NEW b \in Pairs, NEW u \in 1 .. UnitsPerFrame, Steps(a, b, u),
           effect = Kind("at", "timer", "one", "one"), Timed(a), AtOnce(a)
    PROVE  AtOnce(b)
  <1> SUFFICES ASSUME ~b.slow
               PROVE  /\ b.s.sum = IF FrameOf(b.s.was) >= 1 THEN One ELSE 0
                      /\ b.w.sum = IF FrameOf(b.w.was) >= 1 THEN One ELSE 0
    BY DEF AtOnce
  <1>1. PICK c, d \in Calls :
          /\ b.s = Called(a.s, c) /\ c.patched /\ ~d.patched /\ ~a.slow
          /\ IF c.major THEN b.w = Called(a.w, d) ELSE b.w = a.w
    BY StepIs
  <1>2. a.s \in Objects /\ a.w \in Objects /\ a.f \in Int /\ One \in Int
        /\ effect.does = "at"
    BY PairIs, SystemClock, KindIs
  <1>3. /\ b.s.was = a.s.now
        /\ b.s.sum = IF FrameOf(a.s.now) = 1 /\ Crossed(a.s) THEN a.s.sum + One ELSE a.s.sum
    BY <1>1, <1>2, OnceIs, AtTimerIs
  <1>4. /\ FrameOf(a.s.was) \in Int
        /\ FrameOf(a.s.now) = IF Crossed(a.s) THEN FrameOf(a.s.was) + 1
                              ELSE FrameOf(a.s.was)
        /\ FrameOf(a.w.now) = a.f /\ FrameOf(a.w.was) = a.f - 1
    BY <1>1, TimedFrames
  <1>5. /\ a.s.sum = IF FrameOf(a.s.was) >= 1 THEN One ELSE 0
        /\ a.w.sum = IF FrameOf(a.w.was) >= 1 THEN One ELSE 0
    BY <1>1 DEF AtOnce
  <1>6. b.s.sum = IF FrameOf(b.s.was) >= 1 THEN One ELSE 0
    BY <1>2, <1>3, <1>4, <1>5
  <1>7. b.w.sum = IF FrameOf(b.w.was) >= 1 THEN One ELSE 0
    <2>1. CASE c.major
      <3>1. /\ b.w.was = a.w.now
            /\ b.w.sum = IF FrameOf(a.w.now) = 1 THEN a.w.sum + One ELSE a.w.sum
        BY <1>1, <1>2, <2>1, OnceIs, AtTimerIs
      <3> QED BY <1>2, <1>4, <1>5, <3>1
    <2>2. CASE ~c.major
      BY <1>1, <1>5, <2>2
    <2> QED BY <2>1, <2>2
  <1> QED BY <1>6, <1>7

\* A frame later the n-th frames before it are as many, or one more.
LEMMA NextNth ==
    ASSUME NEW k \in Int
    PROVE  /\ k \div Cycle \in Int
           /\ (k + 1) \div Cycle = IF (k + 1) % Cycle = 0 THEN k \div Cycle + 1
                                   ELSE k \div Cycle
  <1> DEFINE q == k \div Cycle
             r == k % Cycle
  <1>1. Cycle \in Nat \ {0} /\ q \in Int /\ r \in 0 .. Cycle - 1 /\ k = q * Cycle + r
    BY SystemClock, IntDivMod
  <1> HIDE DEF q, r
  <1>2. CASE r + 1 < Cycle
    <2>1. PICK p \in 0 .. Cycle - 1 : p = r + 1
      BY <1>1, <1>2
    <2>2. (q * Cycle + p) \div Cycle = q /\ (q * Cycle + p) % Cycle = p
      BY <1>1, IntDivModUnique
    <2>3. k + 1 = q * Cycle + p /\ p # 0
      BY <1>1, <2>1
    <2> QED BY <1>1, <2>2, <2>3 DEF q
  <1>3. CASE ~(r + 1 < Cycle)
    <2>1. PICK p \in Int : p = q + 1
      BY <1>1
    <2>2. 0 \in 0 .. Cycle - 1
      BY <1>1
    <2>3. (p * Cycle + 0) \div Cycle = p /\ (p * Cycle + 0) % Cycle = 0
      BY <1>1, <2>1, <2>2, IntDivModUnique
    <2>4. p * Cycle = q * Cycle + Cycle /\ q * Cycle \in Int
      BY <1>1, <2>1
    <2>5. k + 1 = p * Cycle + 0
      BY <1>1, <1>3, <2>4
    <2> QED BY <1>1, <2>1, <2>3, <2>5 DEF q
  <1> QED BY <1>2, <1>3

LEMMA NthsStep ==
    ASSUME NEW a \in Pairs, NEW b \in Pairs, NEW u \in 1 .. UnitsPerFrame, Steps(a, b, u),
           effect = Kind("nth", "timer", "one", "one"), Timed(a), Nths(a)
    PROVE  Nths(b)
  <1> SUFFICES ASSUME ~b.slow
               PROVE  /\ b.s.sum = One * (FrameOf(b.s.was) \div Cycle + 1)
                      /\ b.w.sum = One * (FrameOf(b.w.was) \div Cycle + 1)
    BY DEF Nths
  <1>1. PICK c, d \in Calls :
          /\ b.s = Called(a.s, c) /\ c.patched /\ ~d.patched /\ ~a.slow
          /\ IF c.major THEN b.w = Called(a.w, d) ELSE b.w = a.w
    BY StepIs
  <1>2. a.s \in Objects /\ a.w \in Objects /\ a.f \in Int /\ One \in Int
        /\ effect.does = "nth"
    BY PairIs, SystemClock, KindIs
  <1>3. /\ b.s.was = a.s.now
        /\ b.s.sum = IF FrameOf(a.s.now) % Cycle = 0 /\ Crossed(a.s)
                     THEN a.s.sum + One ELSE a.s.sum
    BY <1>1, <1>2, OnceIs, NthTimerIs DEF Nth
  <1>4. /\ FrameOf(a.s.was) \in Int
        /\ FrameOf(a.s.now) = IF Crossed(a.s) THEN FrameOf(a.s.was) + 1
                              ELSE FrameOf(a.s.was)
        /\ FrameOf(a.w.now) = a.f /\ FrameOf(a.w.was) = a.f - 1
    BY <1>1, TimedFrames
  <1>5. /\ a.s.sum = One * (FrameOf(a.s.was) \div Cycle + 1)
        /\ a.w.sum = One * (FrameOf(a.w.was) \div Cycle + 1)
    BY <1>1 DEF Nths
  <1>6. ASSUME NEW k \in Int
        PROVE  One * ((k + 1) \div Cycle + 1)
                 = IF (k + 1) % Cycle = 0 THEN One * (k \div Cycle + 1) + One
                   ELSE One * (k \div Cycle + 1)
    <2>1. One * ((k \div Cycle + 1) + 1) = One * (k \div Cycle + 1) + One
      BY <1>2, NextNth
    <2> QED BY <2>1, NextNth
  <1>7. b.s.sum = One * (FrameOf(b.s.was) \div Cycle + 1)
    BY <1>3, <1>4, <1>5, <1>6
  <1>8. b.w.sum = One * (FrameOf(b.w.was) \div Cycle + 1)
    <2>1. CASE c.major
      <3>1. /\ b.w.was = a.w.now
            /\ b.w.sum = IF FrameOf(a.w.now) % Cycle = 0 THEN a.w.sum + One ELSE a.w.sum
        BY <1>1, <1>2, <2>1, OnceIs, NthTimerIs DEF Nth
      <3>2. (a.f - 1) + 1 = a.f /\ a.f - 1 \in Int
        BY <1>2
      <3>3. One * (a.f \div Cycle + 1)
              = IF a.f % Cycle = 0 THEN One * ((a.f - 1) \div Cycle + 1) + One
                ELSE One * ((a.f - 1) \div Cycle + 1)
        BY <1>6, <3>2
      <3> QED BY <1>4, <1>5, <3>1, <3>3
    <2>2. CASE ~c.major
      BY <1>1, <1>5, <2>2
    <2> QED BY <2>1, <2>2
  <1> QED BY <1>7, <1>8

LEMMA BlinksStep ==
    ASSUME NEW a \in Pairs, NEW b \in Pairs, NEW u \in 1 .. UnitsPerFrame, Steps(a, b, u),
           effect = Kind("lit", "moved", "one", "one"), Timed(a), Blinks(a)
    PROVE  Blinks(b)
  <1> SUFFICES ASSUME ~b.slow
               PROVE  /\ b.s.sum = IF FrameOf(b.s.was) % Cycle = 0 THEN One ELSE 0
                      /\ b.w.sum = IF FrameOf(b.w.was) % Cycle = 0 THEN One ELSE 0
    BY DEF Blinks
  <1>1. PICK c, d \in Calls :
          /\ b.s = Called(a.s, c) /\ c.patched /\ ~d.patched /\ ~a.slow
          /\ IF c.major THEN b.w = Called(a.w, d) ELSE b.w = a.w /\ b.f = a.f
          /\ b.f > 0
    BY StepIs
  <1>2. a.s \in Objects /\ a.w \in Objects
    BY PairIs
  <1>3. a.s.was # a.s.now /\ Crossed(a.w)
    BY <1>1, TimedFrames
  <1>4. b.s.sum = IF FrameOf(b.s.was) % Cycle = 0 THEN One ELSE 0
    BY <1>1, <1>2, <1>3, LitIs DEF Nth
  <1>5. b.w.sum = IF FrameOf(b.w.was) % Cycle = 0 THEN One ELSE 0
    <2>1. CASE c.major
      BY <1>1, <1>2, <1>3, <2>1, LitIs DEF Nth
    <2>2. CASE ~c.major
      BY <1>1, <2>2 DEF Blinks
    <2> QED BY <2>1, <2>2
  <1> QED BY <1>4, <1>5

\* Held to frames: the same in both.
SameSum(a) == a.s.sum = a.w.sum

\* An amount a frame, spread over the frame's ticks, from a frame on.
SpreadFrom(a, f) == a.w.sum = One * f /\ Lagging(a, a.s.sum, f)

\* A shot's motion: none in the frame it is fired in.
Aged(a) == IF a.f <= 1 THEN a.s.sum = 0 /\ a.w.sum = 0 ELSE SpreadFrom(a, a.f - 1)

LEMMA FrameHeldStep ==
    ASSUME NEW a \in Pairs, NEW b \in Pairs, NEW u \in 1 .. UnitsPerFrame, Steps(a, b, u),
           effect = Kind("call", "frame", "one", "one"), SameSum(a)
    PROVE  SameSum(b)
  <1>1. PICK c, d \in Calls :
          /\ b.s = Called(a.s, c) /\ c.frames = b.f /\ d.frames = b.f /\ d.major
          /\ IF c.major THEN b.w = Called(a.w, d) ELSE b.w = a.w
    BY StepIs
  <1>2. a.s \in Objects /\ a.w \in Objects
    BY PairIs
  <1> QED BY <1>1, <1>2, CallFrameIs DEF SameSum

\* A bullet's delay.  The unmodified game begins it in frame Cycle + 1, the stepped
\* system on that frame's tick or, where frames are cut, on the one before.
Begun(a) ==
    /\ SameSum(a) /\ a.s.now \in Nat /\ a.w.now \in Nat
    /\ IF a.f <= Cycle THEN a.w.mark = -1 ELSE a.w.mark \in 0 .. a.w.now
    /\ a.s.mark \in -1 .. a.s.now
    /\ a.f < Cycle => a.s.mark = -1
    /\ a.f > Cycle => a.s.mark # -1

BegunByFrames(a) ==
    a.even =>
        /\ a.f = Cycle /\ a.s.mark # -1 => a.s.mark \in a.w.now - One .. a.w.now
        /\ a.f > Cycle => a.s.mark \in a.w.mark - One .. a.w.mark
        /\ ~a.cut => a.s.mark = a.w.mark

BegunAtSpeed(a) ==
    ~a.slow =>
        /\ a.f > Cycle => a.w.mark = One * Cycle
        /\ a.s.mark # -1 =>
             \E k \in {0, 1} : Lagging(a, a.s.now - a.s.mark, a.f - Cycle + k)

Promoted(a) == Begun(a) /\ BegunByFrames(a) /\ BegunAtSpeed(a)

LEMMA LagNew ==
    ASSUME NEW a \in Pairs, NEW b \in Pairs, NEW u \in 1 .. UnitsPerFrame,
           FrameCalls(a, b, u)
    PROVE  Lagging(b, Full * u, 1)
  <1>1. One * 0 = 0 /\ Full * a.q \in Int /\ Full * u \in Int
    BY SystemClock, PairIs
  <1>2. Full * a.q \in 0 .. One - Full /\ (a.even => Full * a.q = 0)
    BY FrameCallsAre
  <1>3. Lagging(a, 0, 0)
    BY <1>1, <1>2 DEF Lagging
  <1>4. Lagging(b, 0 + Full * u, 0 + 1)
    BY <1>3, LagFrame
  <1> QED BY <1>1, <1>4

\* A minor tick promotes no bullet,
LEMMA PromotedMinor ==
    ASSUME NEW a \in Pairs, NEW b \in Pairs, NEW u \in 1 .. UnitsPerFrame,
           MinorCalls(a, b, u), effect = Kind("ask", "frame", "one", "one"), Promoted(a)
    PROVE  Promoted(b)
  <1> DEFINE x == MinorCall(b, u).word
  <1>1. /\ x \in 1 .. One /\ (~b.slow => x = Full * u)
        /\ MinorCall(b, u) \in Calls /\ ~MinorCall(b, u).major
    BY MinorCallsAre
  <1>2. /\ b.s = Called(a.s, MinorCall(b, u)) /\ b.w = a.w /\ b.f = a.f
        /\ b.even = a.even /\ b.cut = a.cut /\ b.slow = a.slow
    BY DEF MinorCalls
  <1>3. /\ a.s \in Objects /\ a.s.now \in Int /\ a.s.mark \in Int /\ a.f \in Nat
        /\ One \in Nat \ {0} /\ Cycle \in Nat \ {0} /\ Full * u \in Int
    BY PairIs, SystemClock
  <1>4. b.s.now = a.s.now + x /\ b.s.sum = a.s.sum /\ b.s.mark = a.s.mark
    BY <1>1, <1>2, <1>3, AskIs
  <1> HIDE DEF x
  <1>5. Begun(b)
    BY <1>1, <1>2, <1>3, <1>4 DEF Promoted, Begun, SameSum
  <1>6. BegunByFrames(b)
    BY <1>2, <1>4 DEF Promoted, BegunByFrames
  <1>7. ASSUME ~b.slow, b.s.mark # -1
        PROVE  \E k \in {0, 1} : Lagging(b, b.s.now - b.s.mark, b.f - Cycle + k)
    <2>1. PICK k \in {0, 1} : Lagging(a, a.s.now - a.s.mark, a.f - Cycle + k)
      BY <1>2, <1>4, <1>7 DEF Promoted, BegunAtSpeed
    <2>2. a.s.now - a.s.mark \in Int /\ a.f - Cycle + k \in Nat
      BY <1>2, <1>3, <1>4, <1>7 DEF Promoted, Begun
    <2>3. Lagging(b, (a.s.now - a.s.mark) + Full * u, a.f - Cycle + k)
      BY <2>1, <2>2, LagMinor
    <2>4. b.s.now - b.s.mark = (a.s.now - a.s.mark) + Full * u
      BY <1>1, <1>3, <1>4, <1>7
    <2> QED BY <1>2, <2>3, <2>4
  <1>8. BegunAtSpeed(b)
    BY <1>2, <1>7 DEF Promoted, BegunAtSpeed
  <1> QED BY <1>5, <1>6, <1>8 DEF Promoted

\* and a frame's tick where the two are in step, if it does.
LEMMA PromotedFrame ==
    ASSUME NEW a \in Pairs, NEW b \in Pairs, NEW u \in 1 .. UnitsPerFrame,
           FrameCalls(a, b, u), effect = Kind("ask", "frame", "one", "one"), Timed(a),
           Promoted(a)
    PROVE  Promoted(b)
  <1>1. PICK e \in BOOLEAN : (e => a.cut) /\ b.s = Called(a.s, SlicedCall(b, u, e))
    BY DEF FrameCalls
  <1> DEFINE x == SlicedCall(b, u, e).word
             y == WholeCall(b).word
  <1>2. /\ x \in 1 .. One /\ y \in 1 .. One /\ b.f = a.f + 1
        /\ (~b.slow => ~a.slow /\ x = Full * u /\ y = One)
        /\ SlicedCall(b, u, e) \in Calls /\ SlicedCall(b, u, e).major
        /\ SlicedCall(b, u, e).frames = b.f /\ SlicedCall(b, u, e).early = e
        /\ WholeCall(b) \in Calls /\ WholeCall(b).major
        /\ WholeCall(b).frames = b.f /\ ~WholeCall(b).early
    BY FrameCallsAre
  <1>3. /\ b.w = Called(a.w, WholeCall(b)) /\ b.even = a.even /\ b.cut = a.cut
        /\ (a.even => a.q = 0)
    BY DEF FrameCalls
  <1>4. /\ a.s \in Objects /\ a.w \in Objects /\ a.f \in Nat /\ b.f \in Nat
        /\ a.s.now \in Int /\ a.w.now \in Int /\ a.s.mark \in Int /\ a.w.mark \in Int
        /\ One \in Nat \ {0} /\ Cycle \in Nat \ {0} /\ Full * u \in Int /\ a.l \in Int
    BY PairIs, SystemClock
  <1>5. /\ b.s.now = a.s.now + x /\ b.s.sum = a.s.sum
        /\ b.s.mark = IF a.s.mark < 0 /\ (b.f > Cycle \/ (b.f = Cycle /\ e)) THEN a.s.now
                      ELSE a.s.mark
    BY <1>1, <1>2, <1>4, AskIs DEF Permitted
  <1>6. /\ b.w.now = a.w.now + y /\ b.w.sum = a.w.sum
        /\ b.w.mark = IF a.w.mark < 0 /\ b.f > Cycle THEN a.w.now ELSE a.w.mark
    BY <1>2, <1>3, <1>4, AskIs DEF Permitted
  <1>7. a.even => a.s.now = a.w.now
    <2>1. a.even => a.l * a.q = 0
      BY <1>3, <1>4
    <2> QED BY <1>4, <2>1 DEF Timed
  <1> HIDE DEF x, y
  <1>8. Begun(a) /\ BegunByFrames(a) /\ BegunAtSpeed(a)
    BY DEF Promoted
  <1>9. Begun(b)
    <2>1. SameSum(b) /\ b.s.now \in Nat /\ b.w.now \in Nat
      BY <1>2, <1>5, <1>6, <1>8 DEF Begun, SameSum
    <2>2. IF b.f <= Cycle THEN b.w.mark = -1 ELSE b.w.mark \in 0 .. b.w.now
      BY <1>2, <1>4, <1>6, <1>8 DEF Begun
    <2>3. b.s.mark \in -1 .. b.s.now
      BY <1>2, <1>4, <1>5, <1>8 DEF Begun
    <2>4. b.f < Cycle => b.s.mark = -1
      BY <1>2, <1>4, <1>5, <1>8 DEF Begun
    <2>5. b.f > Cycle => b.s.mark # -1
      BY <1>2, <1>4, <1>5, <1>8 DEF Begun
    <2> QED BY <2>1, <2>2, <2>3, <2>4, <2>5 DEF Begun
  <1>10. ASSUME b.even
         PROVE  /\ b.f = Cycle /\ b.s.mark # -1 => b.s.mark \in b.w.now - One .. b.w.now
                /\ b.f > Cycle => b.s.mark \in b.w.mark - One .. b.w.mark
                /\ ~b.cut => b.s.mark = b.w.mark
    <2>1. /\ a.s.now = a.w.now /\ (e => b.cut)
          /\ a.f = Cycle /\ a.s.mark # -1 => a.s.mark \in a.w.now - One .. a.w.now
          /\ a.f > Cycle => a.s.mark \in a.w.mark - One .. a.w.mark
          /\ ~b.cut => a.s.mark = a.w.mark
      BY <1>1, <1>3, <1>7, <1>8, <1>10 DEF BegunByFrames
    <2>2. CASE b.f < Cycle
      BY <1>2, <1>4, <1>5, <1>6, <1>8, <2>1, <2>2 DEF Begun
    <2>3. CASE b.f = Cycle
      BY <1>2, <1>4, <1>5, <1>6, <1>8, <2>1, <2>3 DEF Begun
    <2>4. CASE b.f = Cycle + 1
      <3>1. a.f = Cycle /\ a.w.mark = -1 /\ b.w.mark = a.w.now
        BY <1>2, <1>4, <1>6, <1>8, <2>4 DEF Begun
      <3>2. b.s.mark = IF a.s.mark = -1 THEN a.w.now ELSE a.s.mark
        BY <1>4, <1>5, <1>8, <2>1, <2>4 DEF Begun
      <3> QED BY <1>4, <2>1, <2>4, <3>1, <3>2
    <2>5. CASE b.f > Cycle + 1
      <3>1. a.f > Cycle /\ b.w.mark = a.w.mark /\ b.s.mark = a.s.mark
        BY <1>2, <1>4, <1>5, <1>6, <1>8, <2>5 DEF Begun
      <3> QED BY <1>4, <2>1, <2>5, <3>1
    <2> QED BY <1>4, <2>2, <2>3, <2>4, <2>5
  <1>11. ASSUME ~b.slow, b.f > Cycle PROVE b.w.mark = One * Cycle
    <2>1. ~a.slow /\ a.w.now = One * a.f
      BY <1>2, <1>11 DEF Timed
    <2>2. CASE a.f > Cycle
      BY <1>4, <1>6, <1>8, <2>1, <2>2 DEF Begun, BegunAtSpeed
    <2>3. CASE ~(a.f > Cycle)
      <3>1. a.f = Cycle /\ a.w.mark = -1
        BY <1>2, <1>4, <1>8, <1>11, <2>3 DEF Begun
      <3> QED BY <1>6, <1>11, <2>1, <3>1
    <2> QED BY <2>2, <2>3
  <1>12. ASSUME ~b.slow, b.s.mark # -1
         PROVE  \E k \in {0, 1} : Lagging(b, b.s.now - b.s.mark, b.f - Cycle + k)
    <2>1. ~a.slow /\ x = Full * u
      BY <1>2, <1>12
    <2>2. CASE a.s.mark = -1
      <3>1. b.s.mark = a.s.now /\ b.f >= Cycle /\ a.f <= Cycle
        BY <1>2, <1>4, <1>5, <1>8, <1>12, <2>2 DEF Begun
      <3>2. b.s.now - b.s.mark = Full * u
        BY <1>4, <1>5, <2>1, <3>1
      <3>3. PICK k \in {0, 1} : b.f - Cycle + k = 1
        <4>1. b.f = Cycle \/ b.f = Cycle + 1
          BY <1>2, <1>4, <3>1
        <4> QED BY <1>4, <4>1
      <3> QED BY <3>2, <3>3, LagNew
    <2>3. CASE a.s.mark # -1
      <3>1. PICK k \in {0, 1} : Lagging(a, a.s.now - a.s.mark, a.f - Cycle + k)
        BY <1>8, <2>1, <2>3 DEF BegunAtSpeed
      <3>2. a.f >= Cycle /\ b.s.mark = a.s.mark
        BY <1>4, <1>5, <1>8, <2>3 DEF Begun
      <3>3. a.s.now - a.s.mark \in Int /\ a.f - Cycle + k \in Nat
        BY <1>4, <3>2
      <3>4. Lagging(b, (a.s.now - a.s.mark) + Full * u, (a.f - Cycle + k) + 1)
        BY <3>1, <3>3, LagFrame
      <3>5. /\ b.s.now - b.s.mark = (a.s.now - a.s.mark) + Full * u
            /\ b.f - Cycle + k = (a.f - Cycle + k) + 1
        BY <1>2, <1>4, <1>5, <2>1, <3>2
      <3> QED BY <3>4, <3>5
    <2> QED BY <2>2, <2>3
  <1>13. BegunByFrames(b)
    BY <1>10 DEF BegunByFrames
  <1>14. BegunAtSpeed(b)
    BY <1>11, <1>12 DEF BegunAtSpeed
  <1> QED BY <1>9, <1>13, <1>14 DEF Promoted

LEMMA PromotedStep ==
    ASSUME NEW a \in Pairs, NEW b \in Pairs, NEW u \in 1 .. UnitsPerFrame, Steps(a, b, u),
           effect = Kind("ask", "frame", "one", "one"), Timed(a), Promoted(a)
    PROVE  Promoted(b)
  BY PromotedFrame, PromotedMinor DEF Steps

\* An amount that is added on a tick in proportion to it.
LEMMA SpreadStep ==
    ASSUME NEW a \in Pairs, NEW b \in Pairs, NEW u \in 1 .. UnitsPerFrame, NEW f \in Nat,
           SpreadFrom(a, f), b.s.sum = a.s.sum + Full * u,
           \/ FrameCalls(a, b, u) /\ b.w.sum = a.w.sum + One
           \/ MinorCalls(a, b, u) /\ b.w.sum = a.w.sum
    PROVE  \/ FrameCalls(a, b, u) /\ SpreadFrom(b, f + 1)
           \/ MinorCalls(a, b, u) /\ SpreadFrom(b, f)
  <1>1. a.s.sum \in Int /\ One \in Int /\ One * (f + 1) = One * f + One
    BY PairIs, SystemClock
  <1>2. CASE FrameCalls(a, b, u) /\ b.w.sum = a.w.sum + One
    <2>1. Lagging(b, b.s.sum, f + 1)
      BY <1>1, <1>2, LagFrame DEF SpreadFrom
    <2> QED BY <1>1, <1>2, <2>1 DEF SpreadFrom
  <1>3. CASE MinorCalls(a, b, u) /\ b.w.sum = a.w.sum
    <2>1. Lagging(b, b.s.sum, f)
      BY <1>1, <1>3, LagMinor DEF SpreadFrom
    <2> QED BY <1>3, <2>1 DEF SpreadFrom
  <1> QED BY <1>2, <1>3

LEMMA FactorStep ==
    ASSUME NEW a \in Pairs, NEW b \in Pairs, NEW u \in 1 .. UnitsPerFrame, Steps(a, b, u),
           effect = Kind("call", "tick", "one", "factor"), SpreadFrom(a, a.f)
    PROVE  SpreadFrom(b, b.f)
  <1>1. PICK c, d \in Calls :
          /\ b.s = Called(a.s, c) /\ c.patched /\ ~d.patched /\ c.units = u
          /\ IF c.major THEN FrameCalls(a, b, u) /\ b.w = Called(a.w, d)
                        ELSE MinorCalls(a, b, u) /\ b.w = a.w
    BY StepIs
  <1>2. a.s \in Objects /\ a.w \in Objects /\ a.f \in Nat
    BY PairIs
  <1>3. b.s.sum = a.s.sum + Full * u
    BY <1>1, <1>2, FactorIs
  <1>4. IF c.major THEN b.w.sum = a.w.sum + One ELSE b.w.sum = a.w.sum
    BY <1>1, <1>2, FactorIs
  <1>5. \/ FrameCalls(a, b, u) /\ SpreadFrom(b, a.f + 1)
        \/ MinorCalls(a, b, u) /\ SpreadFrom(b, a.f)
    BY <1>1, <1>2, <1>3, <1>4, SpreadStep
  <1> QED BY <1>5 DEF FrameCalls, MinorCalls

LEMMA SpeedStep ==
    ASSUME NEW a \in Pairs, NEW b \in Pairs, NEW u \in 1 .. UnitsPerFrame, Steps(a, b, u),
           effect = Kind("call", "tick", "one", "speed"), ~a.slow => SpreadFrom(a, a.f)
    PROVE  ~b.slow => SpreadFrom(b, b.f)
  <1> SUFFICES ASSUME ~b.slow PROVE SpreadFrom(b, b.f)
    OBVIOUS
  <1>1. PICK c, d \in Calls :
          /\ b.s = Called(a.s, c) /\ c.patched /\ ~d.patched /\ c.word = Full * u /\ ~a.slow
          /\ IF c.major THEN FrameCalls(a, b, u) /\ b.w = Called(a.w, d)
                        ELSE MinorCalls(a, b, u) /\ b.w = a.w
    BY StepIs
  <1>2. a.s \in Objects /\ a.w \in Objects /\ a.f \in Nat
    BY PairIs
  <1>3. b.s.sum = a.s.sum + Full * u
    BY <1>1, <1>2, SpeedIs
  <1>4. IF c.major THEN b.w.sum = a.w.sum + One ELSE b.w.sum = a.w.sum
    BY <1>1, <1>2, SpeedIs
  <1>5. \/ FrameCalls(a, b, u) /\ SpreadFrom(b, a.f + 1)
        \/ MinorCalls(a, b, u) /\ SpreadFrom(b, a.f)
    BY <1>1, <1>2, <1>3, <1>4, SpreadStep
  <1> QED BY <1>5 DEF FrameCalls, MinorCalls

LEMMA AgedStep ==
    ASSUME NEW a \in Pairs, NEW b \in Pairs, NEW u \in 1 .. UnitsPerFrame, Steps(a, b, u),
           effect = Kind("fresh", "aged", "one", "factor"), Aged(a)
    PROVE  Aged(b)
  <1>1. PICK c, d \in Calls :
          /\ b.s = Called(a.s, c) /\ c.patched /\ ~d.patched /\ c.units = u
          /\ c.frames = b.f /\ d.frames = b.f /\ b.f > 0
          /\ IF c.major THEN FrameCalls(a, b, u) /\ b.w = Called(a.w, d) /\ b.f = a.f + 1
                        ELSE MinorCalls(a, b, u) /\ b.w = a.w /\ b.f = a.f
    BY StepIs
  <1>2. a.s \in Objects /\ a.w \in Objects /\ a.f \in Nat /\ b.f \in Nat
    BY PairIs
  <1>3. b.s.sum = IF b.f > 1 THEN a.s.sum + Full * u ELSE a.s.sum
    BY <1>1, <1>2, FreshIs
  <1>4. c.major => b.w.sum = IF b.f > 1 THEN a.w.sum + One ELSE a.w.sum
    BY <1>1, <1>2, FreshIs
  <1>5. CASE b.f <= 1
    <2>1. a.f <= 1 /\ ~(b.f > 1)
      BY <1>1, <1>2, <1>5
    <2> QED BY <1>1, <1>3, <1>4, <1>5, <2>1 DEF Aged
  <1>6. CASE b.f > 1
    <2>1. ~(b.f <= 1)
      BY <1>2, <1>6
    <2>2. PICK f \in Nat : f = IF a.f <= 1 THEN 0 ELSE a.f - 1
      BY <1>2
    <2>3. SpreadFrom(a, f)
      <3>1. CASE a.f <= 1
        <4>1. c.major /\ a.s.sum = 0 /\ a.w.sum = 0 /\ f = 0
          BY <1>1, <1>2, <1>6, <2>2, <3>1 DEF Aged
        <4>2. Full * a.q \in 0 .. One - Full /\ (a.even => Full * a.q = 0)
          BY <1>1, <4>1, FrameCallsAre
        <4>3. One * 0 = 0 /\ Full * a.q \in Int
          BY SystemClock, PairIs
        <4> QED BY <4>1, <4>2, <4>3 DEF SpreadFrom, Lagging
      <3>2. CASE ~(a.f <= 1)
        BY <2>2, <3>2 DEF Aged
      <3> QED BY <3>1, <3>2
    <2>4. b.s.sum = a.s.sum + Full * u
          /\ IF c.major THEN b.w.sum = a.w.sum + One ELSE b.w.sum = a.w.sum
      BY <1>1, <1>3, <1>4, <1>6
    <2>5. \/ FrameCalls(a, b, u) /\ SpreadFrom(b, f + 1)
          \/ MinorCalls(a, b, u) /\ SpreadFrom(b, f)
      BY <1>1, <2>3, <2>4, SpreadStep
    <2>6. CASE FrameCalls(a, b, u) /\ SpreadFrom(b, f + 1)
      <3>1. b.f = a.f + 1
        BY <2>6 DEF FrameCalls
      <3>2. f + 1 = b.f - 1
        BY <1>2, <1>6, <2>2, <3>1
      <3> QED BY <2>1, <2>6, <3>2 DEF Aged
    <2>7. CASE MinorCalls(a, b, u) /\ SpreadFrom(b, f)
      <3>1. b.f = a.f
        BY <2>7 DEF MinorCalls
      <3>2. f = b.f - 1
        BY <1>2, <1>6, <2>2, <3>1
      <3> QED BY <2>1, <2>7, <3>2 DEF Aged
    <2> QED BY <2>5, <2>6, <2>7
  <1> QED BY <1>2, <1>5, <1>6

\* At rates that cut frames alike a timer asked on the frame tick is the same in
\* both.
LEMMA NthOnFramesStep ==
    ASSUME NEW a \in Pairs, NEW b \in Pairs, NEW u \in 1 .. UnitsPerFrame, Steps(a, b, u),
           effect = Kind("nth", "frame", "one", "one"), Timed(a), a.even => SameSum(a)
    PROVE  b.even => SameSum(b)
  <1> SUFFICES ASSUME b.even PROVE SameSum(b)
    OBVIOUS
  <1>1. PICK c, d \in Calls :
          /\ b.s = Called(a.s, c) /\ d.major
          /\ IF c.major THEN FrameCalls(a, b, u) /\ b.w = Called(a.w, d)
                        ELSE MinorCalls(a, b, u) /\ b.w = a.w
    BY StepIs
  <1>2. a.s \in Objects /\ a.w \in Objects /\ a.w.now \in Int /\ a.l \in Int
    BY PairIs
  <1>3. a.even
    BY DEF Steps, FrameCalls, MinorCalls
  <1>4. CASE c.major
    <2>1. a.q = 0
      BY <1>1, <1>3, <1>4 DEF FrameCalls
    <2>2. a.l * a.q = 0
      BY <1>2, <2>1
    <2>3. a.s.now = a.w.now
      BY <1>2, <1>3, <2>2 DEF Timed
    <2>4. Nth(a.s) <=> Nth(a.w)
      BY <2>3 DEF Nth
    <2> QED BY <1>1, <1>2, <1>3, <1>4, <2>4, NthFrameIs DEF SameSum
  <1>5. CASE ~c.major
    BY <1>1, <1>2, <1>3, <1>5, NthFrameIs DEF SameSum
  <1> QED BY <1>4, <1>5

\* A clock is kept on frame ticks, and is the same in both.
Clocks(a) == a.s.sum = a.w.sum /\ a.s.now = a.w.now

LEMMA ClocksStep ==
    ASSUME NEW a \in Pairs, NEW b \in Pairs, NEW u \in 1 .. UnitsPerFrame, Steps(a, b, u),
           effect = Kind("clock", "frame", "speed", "logical"), Clocks(a)
    PROVE  Clocks(b)
  <1>1. PICK c, d \in Calls :
          /\ b.s = Called(a.s, c) /\ c.patched /\ c.logical = b.l
          /\ d.major /\ d.units = UnitsPerFrame /\ d.logical = b.l
          /\ IF c.major THEN b.w = Called(a.w, d) ELSE b.w = a.w
    BY StepIs
  <1>2. a.s \in Objects /\ a.w \in Objects
    BY PairIs
  <1>3. CASE c.major
    <2> DEFINE t == a.s.now + b.l * UnitsPerFrame
    <2>1. t = a.s.now + c.logical * UnitsPerFrame /\ t = a.w.now + d.logical * UnitsPerFrame
      BY <1>1 DEF Clocks
    <2> HIDE DEF t
    <2>2. /\ b.s.now = t
          /\ b.s.sum = IF FrameOf(a.s.now) # FrameOf(t) /\ FrameOf(t) % Cycle = 0
                       THEN a.s.sum + One ELSE a.s.sum
      BY <1>1, <1>2, <1>3, <2>1, ClockIs
    <2>3. /\ b.w.now = t
          /\ b.w.sum = IF FrameOf(a.w.now) # FrameOf(t) /\ FrameOf(t) % Cycle = 0
                       THEN a.w.sum + One ELSE a.w.sum
      BY <1>1, <1>2, <1>3, <2>1, ClockIs
    <2> QED BY <2>2, <2>3 DEF Clocks
  <1>4. CASE ~c.major
    BY <1>1, <1>2, <1>4, ClockIs DEF Clocks
  <1> QED BY <1>3, <1>4

\* A hit a frame, by the player's timer having moved, and by its whole frame.
HitsMoved(a) == ~a.slow => a.s.sum = One * a.f /\ a.w.sum = One * a.f

HitsWhole(a) ==
    a.even /\ ~a.slow =>
        /\ a.s.sum = One * a.f /\ a.w.sum = One * a.f
        /\ a.cut => a.s.mark = a.f - 1

\* A timer at a frame's start that ticks by a frame begins one.
LEMMA WholeFrameCrosses ==
    ASSUME NEW x \in Objects, NEW f \in Nat, x.now = One * f
    PROVE  /\ Ticked(x, x.now + One).was = x.now /\ Ticked(x, x.now + One).now = x.now + One
           /\ Crossed(Ticked(x, x.now + One))
  <1>1. One \in Nat \ {0} /\ One * f \in Nat /\ One * (f + 1) = One * f + One /\ f + 1 \in Nat
    BY SystemClock
  <1>2. x.now \in Int /\ x.now + One \in Int
    BY <1>1
  <1>3. FrameOf(x.now) = f
    BY <1>1, <1>2, FrameOfIs
  <1>4. FrameOf(x.now + One) = f + 1
    <2>1. One * (f + 1) <= x.now + One /\ x.now + One < One * (f + 1) + One
      BY <1>1, <1>2
    <2> QED BY <1>1, <1>2, <2>1, FrameOfIs
  <1>5. Ticked(x, x.now + One).was = x.now /\ Ticked(x, x.now + One).now = x.now + One
    BY <1>2, TickedIs
  <1>6. f # f + 1
    OBVIOUS
  <1> QED BY <1>3, <1>4, <1>5, <1>6, Zenon DEF Crossed

LEMMA HitsMovedStep ==
    ASSUME NEW a \in Pairs, NEW b \in Pairs, NEW u \in 1 .. UnitsPerFrame, Steps(a, b, u),
           effect = Kind("hit", "moved", "one", "one"), Timed(a), HitsMoved(a)
    PROVE  HitsMoved(b)
  <1> SUFFICES ASSUME ~b.slow PROVE b.s.sum = One * b.f /\ b.w.sum = One * b.f
    BY DEF HitsMoved
  <1>1. PICK c, d \in Calls :
          /\ b.s = Called(a.s, c) /\ c.patched /\ d.major /\ ~d.patched
          /\ IF c.major THEN b.w = Called(a.w, d) /\ b.f = a.f + 1
                        ELSE b.w = a.w /\ b.f = a.f
          /\ ~a.slow /\ d.word = One
    BY StepIs
  <1>2. /\ a.s \in Objects /\ a.w \in Objects /\ a.f \in Nat /\ One \in Nat \ {0}
        /\ effect.does = "hit" /\ effect.gate = "moved"
        /\ a.s.sum = One * a.f /\ a.w.sum = One * a.f /\ a.w.now = One * a.f
        /\ One * (a.f + 1) = One * a.f + One
    BY <1>1, PairIs, SystemClock, KindIs DEF HitsMoved, Timed
  <1>3. CASE c.major
    <2> DEFINE y == Ticked(a.s, a.s.now + c.word)
               z == Ticked(a.w, a.w.now + d.word)
    <2>1. Gate(y, c)
      <3>1. c.word \in 1 .. One /\ a.s.now \in Int
        BY CallFacts, PairIs
      <3>2. a.s.now + c.word \in Int /\ a.s.now + c.word # a.s.now
        BY <1>2, <3>1
      <3>3. y.was = a.s.now /\ y.now = a.s.now + c.word
        BY <1>2, <3>2, TickedIs
      <3> HIDE DEF y
      <3> QED BY <1>1, <1>2, <3>2, <3>3 DEF Gate
    <2>2. Gate(z, d)
      <3>1. Crossed(z)
        BY <1>1, <1>2, WholeFrameCrosses
      <3> HIDE DEF z
      <3> QED BY <1>1, <1>2, <3>1 DEF Gate
    <2>3. b.s.sum = a.s.sum + One
      BY <1>1, <1>2, <1>3, <2>1, HitIs
    <2>4. b.w.sum = a.w.sum + One
      BY <1>1, <1>2, <1>3, <2>2, HitIs
    <2> QED BY <1>1, <1>2, <1>3, <2>3, <2>4
  <1>4. CASE ~c.major
    BY <1>1, <1>2, <1>4, HitIs
  <1> QED BY <1>3, <1>4

LEMMA HitsWholeStep ==
    ASSUME NEW a \in Pairs, NEW b \in Pairs, NEW u \in 1 .. UnitsPerFrame, Steps(a, b, u),
           effect = Kind("hit", "whole", "one", "one"), Timed(a), HitsWhole(a)
    PROVE  HitsWhole(b)
  <1> SUFFICES ASSUME b.even, ~b.slow
               PROVE  /\ b.s.sum = One * b.f /\ b.w.sum = One * b.f
                      /\ b.cut => b.s.mark = b.f - 1
    BY DEF HitsWhole
  <1>1. PICK c, d \in Calls :
          /\ b.s = Called(a.s, c) /\ c.patched /\ c.units = u /\ d.major /\ ~d.patched
          /\ IF c.major THEN FrameCalls(a, b, u) /\ b.w = Called(a.w, d) /\ b.f = a.f + 1
                        ELSE MinorCalls(a, b, u) /\ b.w = a.w /\ b.f = a.f
          /\ ~a.slow /\ c.word = Full * u /\ d.word = One
    BY StepIs
  <1>2. a.even /\ b.cut = a.cut
    BY DEF Steps, FrameCalls, MinorCalls
  <1>3. /\ a.s \in Objects /\ a.w \in Objects /\ a.f \in Nat /\ One \in Nat \ {0}
        /\ effect.does = "hit" /\ effect.gate = "whole"
        /\ One * a.f \in Nat /\ One * (a.f + 1) = One * a.f + One
    BY PairIs, SystemClock, KindIs
  <1>4. /\ a.s.sum = One * a.f /\ a.w.sum = One * a.f /\ a.w.now = One * a.f
        /\ a.cut => a.s.mark = a.f - 1
    BY <1>1, <1>2 DEF HitsWhole, Timed
  <1>5. CASE c.major
    <2> DEFINE y == Ticked(a.s, a.s.now + c.word)
               z == Ticked(a.w, a.w.now + d.word)
    <2>1. /\ a.s.now = One * a.f /\ Full * u \in Full .. One
          /\ IF a.cut THEN u < UnitsPerFrame ELSE u = UnitsPerFrame
      <3>1. FrameCalls(a, b, u) /\ Lagging(a, a.s.now, a.f) /\ a.s.now \in Int
        BY <1>1, <1>5, PairIs DEF Timed
      <3>2. a.s.now = One * a.f
        BY <1>2, <1>3, <3>1, LagFrame
      <3>3. Full * u \in Full .. One
        BY <3>1, FrameCallsAre
      <3>4. IF a.cut THEN u < UnitsPerFrame ELSE u = UnitsPerFrame
        BY <1>2, <3>1 DEF FrameCalls
      <3> QED BY <3>2, <3>3, <3>4
    <2>2. /\ y.was = a.s.now /\ y.now = a.s.now + Full * u /\ y.mark = a.s.mark
          /\ a.s.now + Full * u \in Int
      <3>1. a.s.now + Full * u \in Int
        BY <1>3, <2>1, SystemClock
      <3>2. y = Ticked(a.s, a.s.now + Full * u)
        BY <1>1
      <3> HIDE DEF y
      <3> QED BY <1>3, <3>1, <3>2, TickedIs
    <2>3. CASE a.cut
      <3>1. Full * u < One
        <4>1. PICK k \in Nat : k = u
          BY Period
        <4>2. k <= UnitsPerFrame - 1
          BY <2>1, <2>3, <4>1, Period
        <4>3. k * Full <= (UnitsPerFrame - 1) * Full
          BY <4>2, MulMono, SystemClock, Period
        <4>4. (UnitsPerFrame - 1) * Full = One - Full /\ k * Full = Full * u
          BY <4>1, SystemClock, Period
        <4> QED BY <1>3, <2>1, <4>3, <4>4, SystemClock
      <3>2. FrameOf(a.s.now + Full * u) = a.f
        <4>1. One * a.f <= a.s.now + Full * u
          BY <1>3, <2>1, SystemClock
        <4>2. a.s.now + Full * u < One * a.f + One
          BY <1>3, <2>1, <3>1, SystemClock
        <4> QED BY <1>3, <2>2, <4>1, <4>2, FrameOfIs
      <3>3. Gate(y, c)
        <4>1. FrameOf(y.now) # y.mark
          BY <1>3, <1>4, <2>2, <2>3, <3>2
        <4>2. u # UnitsPerFrame
          BY <2>1, <2>3, Period
        <4> HIDE DEF y
        <4> QED BY <1>1, <1>3, <4>1, <4>2 DEF Gate
      <3>4. b.s.sum = a.s.sum + One
        BY <1>1, <1>3, <1>5, <3>3, HitIs
      <3>5. b.s.mark = a.f
        BY <1>1, <1>3, <1>5, <3>2, HitIs
      <3>6. Gate(z, d)
        <4>1. Crossed(z)
          BY <1>1, <1>3, <1>4, WholeFrameCrosses
        <4> HIDE DEF z
        <4> QED BY <1>1, <1>3, <4>1 DEF Gate
      <3>7. b.w.sum = a.w.sum + One
        BY <1>1, <1>3, <1>5, <3>6, HitIs
      <3> HIDE DEF y, z
      <3> QED BY <1>1, <1>3, <1>4, <1>5, <3>4, <3>5, <3>7
    <2>4. CASE ~a.cut
      <3>1. u = UnitsPerFrame /\ c.word = One
        BY <1>1, <2>1, <2>4, SystemClock
      <3>2. Gate(y, c)
        <4>1. Crossed(y)
          BY <1>3, <2>1, <3>1, WholeFrameCrosses
        <4> HIDE DEF y
        <4> QED BY <1>1, <1>3, <3>1, <4>1 DEF Gate
      <3>3. Gate(z, d)
        <4>1. Crossed(z)
          BY <1>1, <1>3, <1>4, WholeFrameCrosses
        <4> HIDE DEF z
        <4> QED BY <1>1, <1>3, <4>1 DEF Gate
      <3>4. b.s.sum = a.s.sum + One
        BY <1>1, <1>3, <1>5, <3>2, HitIs
      <3>5. b.w.sum = a.w.sum + One
        BY <1>1, <1>3, <1>5, <3>3, HitIs
      <3> HIDE DEF y, z
      <3> QED BY <1>1, <1>2, <1>3, <1>4, <1>5, <2>4, <3>4, <3>5
    <2> QED BY <2>3, <2>4
  <1>6. CASE ~c.major
    <2>1. b.s.sum = a.s.sum /\ b.s.mark = a.s.mark
      BY <1>1, <1>3, <1>6, HitIs
    <2> QED BY <1>1, <1>2, <1>4, <1>6, <2>1
  <1> QED BY <1>5, <1>6

\* A position and what its truncation has left are the way at the speed.
Moves(a) ==
    ~a.slow =>
        /\ a.s.rest \in 0 .. One - 1
        /\ One * a.s.sum + a.s.rest = Velocity * a.s.now
        /\ a.w.sum = Velocity * a.f

LEMMA MovesStep ==
    ASSUME NEW a \in Pairs, NEW b \in Pairs, NEW u \in 1 .. UnitsPerFrame, Steps(a, b, u),
           effect = Kind("move", "tick", "speed", "speed"), Moves(a)
    PROVE  Moves(b)
  <1> SUFFICES ASSUME ~b.slow
               PROVE  /\ b.s.rest \in 0 .. One - 1
                      /\ One * b.s.sum + b.s.rest = Velocity * b.s.now
                      /\ b.w.sum = Velocity * b.f
    BY DEF Moves
  <1>1. PICK c, d \in Calls :
          /\ b.s = Called(a.s, c) /\ c.patched /\ c.units = u /\ c.logical = b.l
          /\ d.units = UnitsPerFrame /\ d.logical = b.l
          /\ IF c.major THEN b.w = Called(a.w, d) /\ b.f = a.f + 1
                        ELSE b.w = a.w /\ b.f = a.f
          /\ ~a.slow /\ b.l = Full /\ c.word = Full * u
    BY StepIs
  <1>2. /\ a.s \in Objects /\ a.w \in Objects /\ a.s.sum \in Int /\ a.s.rest \in Int
        /\ a.s.now \in Int /\ a.f \in Int /\ Velocity \in Int /\ One \in Int /\ c.word \in Int
        /\ One = Full * UnitsPerFrame
    BY PairIs, SystemClock, CallFacts
  <1>3. /\ a.s.rest \in 0 .. One - 1
        /\ One * a.s.sum + a.s.rest = Velocity * a.s.now
        /\ a.w.sum = Velocity * a.f
    BY <1>1 DEF Moves
  <1>4. b.s.now = a.s.now + c.word
    BY <1>1, <1>2, MoveIs
  <1>5. /\ Velocity * (a.s.now + c.word) = Velocity * a.s.now + Velocity * c.word
        /\ Velocity * a.s.now \in Int /\ Velocity * c.word \in Int /\ One * a.s.sum \in Int
    BY <1>2
  <1>6. b.w.sum = Velocity * b.f
    <2>1. CASE c.major
      <3>1. b.w.sum = a.w.sum + Velocity
        BY <1>1, <1>2, <2>1, MoveIs
      <3>2. Velocity * (a.f + 1) = Velocity * a.f + Velocity
        BY <1>2
      <3> QED BY <1>1, <1>3, <2>1, <3>1, <3>2
    <2>2. CASE ~c.major
      BY <1>1, <1>3, <2>2
    <2> QED BY <2>1, <2>2
  <1>7. CASE u = UnitsPerFrame
    <2>1. b.s.sum = a.s.sum + Velocity /\ b.s.rest = a.s.rest /\ c.word = One
      BY <1>1, <1>2, <1>7, MoveIs
    <2>2. One * (a.s.sum + Velocity) = One * a.s.sum + Velocity * One
      BY <1>2
    <2>3. One * b.s.sum + b.s.rest = Velocity * b.s.now
      BY <1>2, <1>3, <1>4, <1>5, <2>1, <2>2
    <2>4. b.s.rest \in 0 .. One - 1
      BY <1>3, <2>1
    <2> QED BY <1>6, <2>3, <2>4
  <1>8. CASE u # UnitsPerFrame
    <2>1. /\ b.s.rest \in 0 .. One - 1
          /\ One * b.s.sum + b.s.rest = One * a.s.sum + a.s.rest + Velocity * c.word
      BY <1>1, <1>2, <1>8, MoveIs
    <2>2. One * b.s.sum + b.s.rest = Velocity * b.s.now
      BY <1>3, <1>4, <1>5, <2>1
    <2> QED BY <1>6, <2>1, <2>2
  <1> QED BY <1>7, <1>8

\* A timer that is set back, with the time it was set back by: now, and before
\* the last call.
Turned(x) == x.now + Back * x.sum
Earlier(x) ==
    (IF x.was < Cycle * One THEN x.was ELSE x.was - Back * One) + Back * x.sum

\* How far it gets: a frame past the cycle, and back by as much in place of a tick.
InReach(t) ==
    /\ IF effect.does = "wrap" THEN -One < t ELSE 0 <= t
    /\ t < Cycle * One + One

InTurn(x) == InReach(x.now) /\ \E k \in Int : x.sum = One * k

Jumps(a) ==
    ~a.slow =>
        /\ InTurn(a.s) /\ InTurn(a.w)
        /\ Turned(a.w) = One * a.f /\ Lagging(a, Turned(a.s), a.f)
        /\ a.f > 0 =>
             /\ InReach(a.s.was) /\ InReach(a.w.was)
             /\ Earlier(a.w) = One * a.f - One
             /\ One * a.f - 2 * One < Earlier(a.s) /\ Earlier(a.s) < One * a.f
             /\ Turned(a.s) - Earlier(a.s) \in 1 .. One
             /\ a.even => One * a.f - One <= Earlier(a.s)

SetBack ==
    effect \in {Kind("jump", "tick", "speed", "logical"), Kind("wrap", "tick", "speed", "rest")}

LEMMA BackFacts ==
    ASSUME SetBack
    PROVE  /\ Back \in Nat \ {0} /\ Back * One \in Nat /\ One \in Nat \ {0}
           /\ Cycle * One \in Nat /\ One <= Cycle * One /\ effect.does \in {"jump", "wrap"}
           /\ Back * One = IF effect.does = "wrap" THEN Cycle * One + One ELSE Cycle * One
  <1>1. One \in Nat \ {0} /\ Cycle \in Nat \ {0} /\ effect.does \in {"jump", "wrap"}
    BY SystemClock, KindIs DEF SetBack
  <1>2. Cycle * One \in Nat /\ 1 * One <= Cycle * One /\ 1 * One = One
    BY <1>1, MulMono
  <1>3. (Cycle + 1) * One = Cycle * One + One
    BY <1>1
  <1> QED BY <1>1, <1>2, <1>3 DEF Back

LEMMA TurnIs ==
    ASSUME SetBack, NEW x \in Objects, NEW c \in Calls, c.logical = Full,
           c.patched \/ c.units = UnitsPerFrame, InTurn(x)
    PROVE  /\ InTurn(Called(x, c)) /\ InReach(Called(x, c).was)
           /\ Turned(x) \in Int /\ Turned(Called(x, c)) = Turned(x) + c.word
           /\ Earlier(Called(x, c)) = Turned(x)
  <1> DEFINE y == Called(x, c)
  <1>1. /\ x.now \in Int /\ x.sum \in Int /\ c.word \in 1 .. One
    BY ObjectIs, CallFacts
  <1>2. /\ y.was = x.now
        /\ y.now = IF x.now < Cycle * One THEN x.now + c.word
                   ELSE x.now - Back * One + c.word
        /\ y.sum = IF x.now < Cycle * One THEN x.sum ELSE x.sum + One
    BY BackIs DEF SetBack
  <1> HIDE DEF y
  <1>3. /\ Back \in Nat \ {0} /\ Back * One \in Nat /\ One \in Nat \ {0}
        /\ Cycle * One \in Nat /\ One <= Cycle * One
        /\ Back * One = IF effect.does = "wrap" THEN Cycle * One + One ELSE Cycle * One
    BY BackFacts
  <1>4. Back * (x.sum + One) = Back * x.sum + Back * One /\ Back * x.sum \in Int
    BY <1>1, <1>3
  <1>5. InReach(x.now)
    BY DEF InTurn
  <1>6. InReach(y.now)
    <2>1. CASE x.now < Cycle * One
      BY <1>1, <1>2, <1>3, <1>5, <2>1 DEF InReach
    <2>2. CASE ~(x.now < Cycle * One)
      BY <1>1, <1>2, <1>3, <1>5, <2>2 DEF InReach
    <2> QED BY <2>1, <2>2
  <1>7. \E k \in Int : y.sum = One * k
    <2>1. PICK k \in Int : x.sum = One * k
      BY DEF InTurn
    <2>2. One * (k + 1) = One * k + One /\ k + 1 \in Int
      BY <1>3
    <2> QED BY <1>2, <2>1, <2>2
  <1>8. Turned(y) = Turned(x) + c.word /\ Turned(x) \in Int
    <2>1. c.word \in Int
      BY <1>1
    <2>2. CASE x.now < Cycle * One
      BY <1>1, <1>2, <1>3, <1>4, <2>1, <2>2 DEF Turned
    <2>3. CASE ~(x.now < Cycle * One)
      BY <1>1, <1>2, <1>3, <1>4, <2>1, <2>3 DEF Turned
    <2> QED BY <2>2, <2>3
  <1>9. Earlier(y) = Turned(x)
    <2>1. CASE x.now < Cycle * One
      BY <1>2, <2>1 DEF Turned, Earlier
    <2>2. CASE ~(x.now < Cycle * One)
      <3>1. Earlier(y) = (x.now - Back * One) + (Back * x.sum + Back * One)
        BY <1>2, <1>4, <2>2 DEF Earlier
      <3> QED BY <1>1, <1>3, <1>4, <3>1 DEF Turned
    <2> QED BY <2>1, <2>2
  <1> QED BY <1>2, <1>5, <1>6, <1>7, <1>8, <1>9 DEF InTurn, y

LEMMA JumpsStep ==
    ASSUME NEW a \in Pairs, NEW b \in Pairs, NEW u \in 1 .. UnitsPerFrame, Steps(a, b, u),
           SetBack, Jumps(a)
    PROVE  Jumps(b)
  <1> SUFFICES ASSUME ~b.slow
               PROVE  /\ InTurn(b.s) /\ InTurn(b.w)
                      /\ Turned(b.w) = One * b.f /\ Lagging(b, Turned(b.s), b.f)
                      /\ InReach(b.s.was) /\ InReach(b.w.was)
                      /\ Earlier(b.w) = One * b.f - One
                      /\ One * b.f - 2 * One < Earlier(b.s) /\ Earlier(b.s) < One * b.f
                      /\ Turned(b.s) - Earlier(b.s) \in 1 .. One
                      /\ b.even => One * b.f - One <= Earlier(b.s)
    BY DEF Jumps
  <1>1. PICK c, d \in Calls :
          /\ b.s = Called(a.s, c) /\ c.patched /\ c.logical = b.l
          /\ d.units = UnitsPerFrame /\ d.logical = b.l
          /\ IF c.major THEN FrameCalls(a, b, u) /\ b.w = Called(a.w, d) /\ b.f = a.f + 1
                        ELSE MinorCalls(a, b, u) /\ b.w = a.w /\ b.f = a.f
          /\ ~a.slow /\ b.l = Full /\ c.word = Full * u /\ d.word = One
    BY StepIs
  <1>2. a.s \in Objects /\ a.w \in Objects /\ a.f \in Nat /\ One \in Nat \ {0}
        /\ One * a.f \in Nat /\ One * (a.f + 1) = One * a.f + One
    BY PairIs, SystemClock
  <1>3. /\ InTurn(a.s) /\ InTurn(a.w)
        /\ Turned(a.w) = One * a.f /\ Lagging(a, Turned(a.s), a.f)
    BY <1>1 DEF Jumps
  <1>4. /\ InTurn(b.s) /\ InReach(b.s.was)
        /\ Turned(a.s) \in Int /\ Turned(b.s) = Turned(a.s) + Full * u
        /\ Earlier(b.s) = Turned(a.s)
    BY <1>1, <1>2, <1>3, TurnIs
  <1>5. Full * u \in 1 .. One
    BY <1>1, CallFacts
  <1>6. Turned(b.s) - Earlier(b.s) \in 1 .. One
    BY <1>2, <1>4, <1>5
  <1>7. b.even = a.even
    BY DEF Steps, FrameCalls, MinorCalls
  <1>8. CASE c.major
    <2>1. /\ InTurn(b.w) /\ InReach(b.w.was)
          /\ Turned(b.w) = One * a.f + One /\ Earlier(b.w) = One * a.f
      BY <1>1, <1>2, <1>3, <1>8, TurnIs
    <2>2. /\ Lagging(b, Turned(a.s) + Full * u, a.f + 1)
          /\ One * a.f - One < Turned(a.s) /\ Turned(a.s) < One * a.f + One
          /\ a.even => Turned(a.s) = One * a.f
      BY <1>1, <1>2, <1>3, <1>4, <1>8, LagFrame
    <2>3. One * b.f = One * a.f + One /\ b.f = a.f + 1
      BY <1>1, <1>2, <1>8
    <2>4. Turned(b.w) = One * b.f /\ Earlier(b.w) = One * b.f - One
      BY <1>2, <2>1, <2>3
    <2>5. One * b.f - 2 * One < Earlier(b.s) /\ Earlier(b.s) < One * b.f
      BY <1>2, <1>4, <2>2, <2>3
    <2>6. b.even => One * b.f - One <= Earlier(b.s)
      BY <1>2, <1>4, <1>7, <2>2, <2>3
    <2>7. Lagging(b, Turned(b.s), b.f)
      BY <1>4, <2>2, <2>3
    <2> QED BY <1>4, <1>6, <2>1, <2>4, <2>5, <2>6, <2>7
  <1>9. CASE ~c.major
    <2>1. b.w = a.w /\ b.f = a.f /\ MinorCalls(a, b, u) /\ a.f > 0
      BY <1>1, <1>9 DEF MinorCalls
    <2>2. /\ Lagging(b, Turned(a.s) + Full * u, a.f)
          /\ One * a.f - 2 * One < Turned(a.s) /\ Turned(a.s) < One * a.f
          /\ a.even => One * a.f - One <= Turned(a.s)
      BY <1>2, <1>3, <1>4, <2>1, LagMinor
    <2>3. InReach(b.w.was) /\ Earlier(b.w) = One * b.f - One
      BY <1>1, <2>1 DEF Jumps
    <2> QED BY <1>3, <1>4, <1>6, <1>7, <2>1, <2>2, <2>3
  <1> QED BY <1>8, <1>9

-------------------------------------------------------------------------------
(* The two systems, whatever the site does. *)

Alike(a) ==
    /\ Plain => Timed(a)
    /\ effect = Kind("call", "timer", "one", "one") => Counted(a)
    /\ effect = Kind("call", "frame", "one", "one") => SameSum(a)
    /\ effect = Kind("ask", "frame", "one", "one") => Promoted(a)
    /\ effect = Kind("call", "tick", "one", "factor") => SpreadFrom(a, a.f)
    /\ effect = Kind("call", "tick", "one", "speed") => (~a.slow => SpreadFrom(a, a.f))
    /\ effect = Kind("at", "timer", "one", "one") => AtOnce(a)
    /\ effect = Kind("nth", "timer", "one", "one") => Nths(a)
    /\ effect = Kind("nth", "frame", "one", "one") => (a.even => SameSum(a))
    /\ effect = Kind("fresh", "aged", "one", "factor") => Aged(a)
    /\ effect = Kind("lit", "moved", "one", "one") => Blinks(a)
    /\ effect = Kind("hit", "moved", "one", "one") => HitsMoved(a)
    /\ effect = Kind("hit", "whole", "one", "one") => HitsWhole(a)
    /\ effect = Kind("clock", "frame", "speed", "logical") => Clocks(a)
    /\ effect = Kind("move", "tick", "speed", "speed") => Moves(a)
    /\ SetBack => Jumps(a)

LEMMA AlikeStep ==
    ASSUME NEW a \in Pairs, NEW b \in Pairs, NEW u \in 1 .. UnitsPerFrame, Steps(a, b, u),
           effect \in Kinds, Alike(a)
    PROVE  Alike(b)
  <1>1. Plain => Timed(a) /\ Timed(b)
    BY TimedStep DEF Alike
  <1>2. \A d, g, s, e : effect = Kind(d, g, s, e) => effect.does = d
    BY KindIs
  <1>3. ASSUME effect = Kind("call", "timer", "one", "one") PROVE Counted(b)
    BY <1>1, <1>2, <1>3, CountedStep DEF Alike, Plain
  <1>4. ASSUME effect = Kind("call", "frame", "one", "one") PROVE SameSum(b)
    BY <1>4, FrameHeldStep DEF Alike
  <1>5. ASSUME effect = Kind("call", "tick", "one", "factor") PROVE SpreadFrom(b, b.f)
    BY <1>5, FactorStep DEF Alike
  <1>6. ASSUME effect = Kind("call", "tick", "one", "speed")
        PROVE  ~b.slow => SpreadFrom(b, b.f)
    BY <1>6, SpeedStep DEF Alike
  <1>7. ASSUME effect = Kind("at", "timer", "one", "one") PROVE AtOnce(b)
    BY <1>1, <1>2, <1>7, AtOnceStep DEF Alike, Plain
  <1>8. ASSUME effect = Kind("nth", "timer", "one", "one") PROVE Nths(b)
    BY <1>1, <1>2, <1>8, NthsStep DEF Alike, Plain
  <1>9. ASSUME effect = Kind("nth", "frame", "one", "one") PROVE b.even => SameSum(b)
    BY <1>1, <1>2, <1>9, NthOnFramesStep DEF Alike, Plain
  <1>10. ASSUME effect = Kind("fresh", "aged", "one", "factor") PROVE Aged(b)
    BY <1>10, AgedStep DEF Alike
  <1>11. ASSUME effect = Kind("lit", "moved", "one", "one") PROVE Blinks(b)
    BY <1>1, <1>2, <1>11, BlinksStep DEF Alike, Plain
  <1>12. ASSUME effect = Kind("hit", "moved", "one", "one") PROVE HitsMoved(b)
    BY <1>1, <1>2, <1>12, HitsMovedStep DEF Alike, Plain
  <1>13. ASSUME effect = Kind("hit", "whole", "one", "one") PROVE HitsWhole(b)
    BY <1>1, <1>2, <1>13, HitsWholeStep DEF Alike, Plain
  <1>14. ASSUME effect = Kind("clock", "frame", "speed", "logical") PROVE Clocks(b)
    BY <1>14, ClocksStep DEF Alike
  <1>15. ASSUME effect = Kind("move", "tick", "speed", "speed") PROVE Moves(b)
    BY <1>15, MovesStep DEF Alike
  <1>16. ASSUME SetBack PROVE Jumps(b)
    BY <1>16, JumpsStep DEF Alike
  <1>17. ASSUME effect = Kind("ask", "frame", "one", "one") PROVE Promoted(b)
    BY <1>1, <1>2, <1>17, PromotedStep DEF Alike, Plain
  <1> QED BY <1>1, <1>3, <1>4, <1>5, <1>6, <1>7, <1>8, <1>9, <1>10, <1>11, <1>12, <1>13,
             <1>14, <1>15, <1>16, <1>17 DEF Alike

LEMMA AlikeBorn ==
    ASSUME NEW a \in Pairs, NewPair(a)
    PROVE  Alike(a)
  <1>1. /\ a.s.was = -One /\ a.s.now = 0 /\ a.s.mark = -1 /\ a.s.sum = 0 /\ a.s.rest = 0
        /\ a.w.was = -One /\ a.w.now = 0 /\ a.w.mark = -1 /\ a.w.sum = 0 /\ a.w.rest = 0
        /\ a.f = 0 /\ One * a.f = 0 /\ ~a.slow /\ One \in Nat \ {0}
        /\ Full * a.q \in 0 .. One - Full /\ (a.even => a.q = 0 /\ Full * a.q = 0)
    BY BornIs
  <1>2. Timed(a)
    BY TimedBorn
  <1>3. FrameOf(-One) = -1
    <2>1. One * (-1) <= -One /\ -One < One * (-1) + One /\ -One \in Int /\ -1 \in Int
      BY <1>1
    <2> QED BY <2>1, FrameOfIs
  <1>4. (-1) \div Cycle = -1
    <2>1. Cycle \in Nat \ {0}
      BY SystemClock
    <2>2. PICK r \in 0 .. Cycle - 1 : r = Cycle - 1
      BY <2>1
    <2>3. PICK q \in Int : q = -1
      OBVIOUS
    <2>4. (q * Cycle + r) \div Cycle = q
      BY <2>1, IntDivModUnique
    <2>5. q * Cycle + r = -1
      BY <2>1, <2>2, <2>3
    <2> QED BY <2>3, <2>4, <2>5
  <1>5. One * 0 = 0 /\ Velocity * 0 = 0 /\ Full * a.q \in Int /\ Full \in Nat \ {0}
    BY SystemClock, PairIs
  <1>6. Counted(a) /\ AtOnce(a)
    BY <1>1, <1>3, <1>5 DEF Counted, AtOnce
  <1>7. Nths(a)
    <2>1. One * ((-1) \div Cycle + 1) = 0
      BY <1>4, <1>5
    <2> QED BY <1>1, <1>3, <2>1, Zenon DEF Nths
  <1>8. SpreadFrom(a, a.f)
    BY <1>1, <1>5 DEF SpreadFrom, Lagging
  <1>9. SameSum(a) /\ Aged(a) /\ Blinks(a) /\ Clocks(a)
    BY <1>1 DEF SameSum, Aged, Blinks, Clocks
  <1>10. HitsMoved(a) /\ HitsWhole(a)
    BY <1>1 DEF HitsMoved, HitsWhole
  <1>11. Moves(a)
    BY <1>1, <1>5 DEF Moves
  <1>12. ASSUME SetBack PROVE Jumps(a)
    <2>1. /\ Back \in Nat \ {0} /\ Cycle * One \in Nat /\ One <= Cycle * One
      BY <1>12, BackFacts
    <2>2. Turned(a.s) = 0 /\ Turned(a.w) = 0
      <3>1. Back * 0 = 0
        BY <2>1
      <3> QED BY <1>1, <3>1 DEF Turned
    <2>3. InReach(0)
      BY <1>1, <2>1 DEF InReach
    <2>4. InTurn(a.s) /\ InTurn(a.w)
      BY <1>1, <1>5, <2>3 DEF InTurn
    <2>5. Lagging(a, 0, a.f)
      BY <1>1, <1>5 DEF Lagging
    <2> QED BY <1>1, <2>2, <2>4, <2>5 DEF Jumps
  <1>13. Promoted(a)
    <2>1. Cycle \in Nat \ {0}
      BY SystemClock
    <2> QED BY <1>1, <2>1 DEF Promoted, Begun, BegunByFrames, BegunAtSpeed, SameSum
  <1> QED BY <1>2, <1>6, <1>7, <1>8, <1>9, <1>10, <1>11, <1>12, <1>13 DEF Alike

\* Between frames the speed may be written: none of it rests on the speed there.
LEMMA AlikeBetween ==
    ASSUME NEW a \in Pairs, NEW b \in Pairs, Alike(a), a.even => a.q = 0,
           b.s = a.s, b.w = a.w, b.f = a.f, b.q = a.q,
           b.slow <=> a.slow, b.even <=> a.even, b.cut <=> a.cut
    PROVE  Alike(b)
  <1>1. \A t, f : Lagging(a, t, f) <=> Lagging(b, t, f)
    BY DEF Lagging
  <1>2. Timed(a) => Timed(b)
    <2>1. a.even => a.l * a.q = 0 /\ b.l * b.q = 0
      BY PairIs
    <2> QED BY <1>1, <2>1 DEF Timed
  <1>3. /\ (Counted(a) => Counted(b)) /\ (SameSum(a) => SameSum(b))
        /\ (SpreadFrom(a, a.f) => SpreadFrom(b, b.f))
    BY <1>1 DEF Counted, SameSum, SpreadFrom
  <1>4. (AtOnce(a) => AtOnce(b)) /\ (Nths(a) => Nths(b)) /\ (Blinks(a) => Blinks(b))
    BY DEF AtOnce, Nths, Blinks
  <1>5. Aged(a) => Aged(b)
    BY <1>1 DEF Aged, SpreadFrom
  <1>6. (HitsMoved(a) => HitsMoved(b)) /\ (HitsWhole(a) => HitsWhole(b))
    BY DEF HitsMoved, HitsWhole
  <1>7. (Clocks(a) => Clocks(b)) /\ (Moves(a) => Moves(b))
    BY DEF Clocks, Moves
  <1>8. Jumps(a) => Jumps(b)
    BY <1>1 DEF Jumps
  <1>9. Promoted(a) => Promoted(b)
    <2>1. Begun(a) => Begun(b)
      BY DEF Begun, SameSum
    <2>2. BegunByFrames(a) => BegunByFrames(b)
      BY DEF BegunByFrames
    <2>3. BegunAtSpeed(a) => BegunAtSpeed(b)
      BY <1>1 DEF BegunAtSpeed
    <2> QED BY <2>1, <2>2, <2>3 DEF Promoted
  <1> QED BY <1>2, <1>3, <1>4, <1>5, <1>6, <1>7, <1>8, <1>9 DEF Alike

-------------------------------------------------------------------------------
(* The pair in a state. *)

PairNow ==
    [s |-> sliced, w |-> whole, f |-> frames, q |-> Past(tick, tickRate), l |-> logical,
     slow |-> slowed, even |-> Even, cut |-> (tickRate # Fps)]

\* A menu opens between frames, and an object's life begins on a frame's tick; in
\* a life without slow motion the speed is 1.0, the one that a menu gives back too.
LifeInv ==
    /\ ~OnTick(tick, tickRate) => ~paused /\ frames > 0
    /\ ~slowed => IF paused THEN kept = Full ELSE native = Full

StepInv == SpeedInv /\ LifeInv /\ Alike(PairNow)

PairFacts ==
    /\ PairNow \in Pairs
    /\ PairNow.s = sliced /\ PairNow.w = whole /\ PairNow.f = frames
    /\ PairNow.q = Past(tick, tickRate) /\ PairNow.l = logical
    /\ PairNow.slow <=> slowed
    /\ PairNow.even <=> Even
    /\ PairNow.cut <=> tickRate # Fps

LEMMA PairNowIs == SystemType => PairFacts
  <1> SUFFICES ASSUME SystemType PROVE PairFacts
    OBVIOUS
  <1>1. tickRate \in Rates /\ tick \in Nat
    BY TickFacts
  <1>2. Past(tick, tickRate) \in Int
    BY <1>1, PastBounds
  <1>3. Even \in BOOLEAN /\ (tickRate # Fps) \in BOOLEAN
    BY DEF Even
  <1>4. frames \in Nat
    BY SystemClock DEF SystemType
  <1> QED BY <1>2, <1>3, <1>4 DEF SystemType, PairNow, Pairs, PairFacts

LEMMA PairNextIs == SystemType' => PairFacts'
  BY PairNowIs, PTL

\* Where the tick is, for the pair.
LEMMA PlaceNow ==
    ASSUME SystemType
    PROVE  /\ OnTick(tick, tickRate) => PairNow.q \in 0 .. UnitsPerFrame - 1
           /\ ~OnTick(tick, tickRate) => PairNow.q \in -UnitsPerFrame .. -1
           /\ OnTick(tick, tickRate) /\ PairNow.even => PairNow.q = 0
  <1>1. tickRate \in Rates /\ tick \in Nat
    BY TickFacts
  <1>2. OnTick(tick, tickRate) /\ Even => PairNow.q = 0
    BY <1>1, PairNowIs, EvenTicks DEF Even, PairFacts
  <1> QED BY <1>1, <1>2, PastBounds, PairNowIs DEF PairFacts

LEMMA InitStepInv == SystemInit => StepInv
  <1> SUFFICES ASSUME SystemInit PROVE StepInv
    OBVIOUS
  <1>1. SpeedInv /\ SystemType
    BY InitSpeedInv DEF SpeedInv
  <1>2. OnTick(tick, tickRate)
    BY <1>1, FirstTick, TickFacts DEF SystemInit
  <1>3. LifeInv
    BY <1>2 DEF SystemInit, LifeInv
  <1>4. NewPair(PairNow)
    BY <1>1, <1>2, PairNowIs, PlaceNow DEF SystemInit, NewPair, PairFacts
  <1> QED BY <1>1, <1>3, <1>4, PairNowIs, AlikeBorn DEF StepInv, PairFacts

\* The pair keeps what it keeps whatever else of the state changes.
LEMMA AlikeNext ==
    ASSUME effect' = effect, Alike(PairNow')
    PROVE  Alike(PairNow)'
  BY DEF Alike, Plain, SetBack, Jumps, InTurn, InReach, Turned, Earlier, Back

LEMMA FrameStepInv == StepInv /\ FrameStep => StepInv'
  <1> SUFFICES ASSUME StepInv, FrameStep PROVE StepInv'
    OBVIOUS
  <1> DEFINE old == frames = Life
             f == IF old THEN 1 ELSE frames + 1
             a == IF old THEN [PairNow EXCEPT !.s = Born, !.w = Born, !.f = 0, !.slow = FALSE]
                  ELSE PairNow
             b == PairNow'
  <1>1. SpeedInv /\ SystemType /\ Alike(PairNow) /\ SpeedInv' /\ SystemType'
    BY FrameSpeedInv DEF StepInv, SpeedInv
  <1>2. /\ effect' = effect /\ tickRate' = tickRate /\ tick' = (tick + 1) % tickRate
        /\ OnTick(tick, tickRate) /\ ~paused /\ ~paused'
        /\ native' \in 1 .. Full /\ logical' = native'
        /\ units' = UnitsOfTick /\ units' \in 1 .. UnitsPerFrame
        /\ frames' = f /\ slowed' = (native' # Full \/ (slowed /\ ~old))
        /\ \E e \in BOOLEAN :
             /\ e => tickRate # Fps
             /\ sliced' = Called(IF old THEN Born ELSE sliced,
                                 Context(TRUE, TRUE, units', logical', f, e))
        /\ whole' = Called(IF old THEN Born ELSE whole,
                           Context(TRUE, FALSE, UnitsPerFrame, logical', f, FALSE))
    BY <1>1, TickFacts, SystemClock DEF FrameStep, NextTick
  <1>3. f > 0
    BY <1>1 DEF SystemType
  <1>4. LifeInv'
    BY <1>2, <1>3 DEF LifeInv
  <1>5. b \in Pairs /\ b.s = sliced' /\ b.w = whole' /\ b.f = frames' /\ b.l = logical'
        /\ b.q = Past(tick', tickRate') /\ (b.slow <=> slowed')
        /\ (b.even <=> Even') /\ (b.cut <=> tickRate' # Fps)
    BY <1>1, PairNextIs DEF PairFacts
  <1>6. /\ PairNow \in Pairs /\ PairNow.s = sliced /\ PairNow.w = whole /\ PairNow.f = frames
        /\ PairNow.q = Past(tick, tickRate)
        /\ (PairNow.slow <=> slowed) /\ (PairNow.even <=> Even)
        /\ (PairNow.cut <=> tickRate # Fps)
        /\ PairNow.q \in 0 .. UnitsPerFrame - 1 /\ (PairNow.even => PairNow.q = 0)
    BY <1>1, <1>2, PairNowIs, PlaceNow DEF PairFacts
  <1>7. /\ a \in Pairs /\ a.q = Past(tick, tickRate)
        /\ a.q \in 0 .. UnitsPerFrame - 1 /\ (a.even => a.q = 0)
        /\ (a.even <=> Even) /\ (a.cut <=> tickRate # Fps)
        /\ a.s = IF old THEN Born ELSE sliced
        /\ a.w = IF old THEN Born ELSE whole
        /\ f = a.f + 1 /\ (a.slow <=> slowed /\ ~old)
        /\ old => NewPair(a)
    <2>1. CASE old
      <3>1. /\ a \in Pairs /\ a.s = Born /\ a.w = Born /\ a.f = 0 /\ ~a.slow
            /\ a.q = PairNow.q /\ a.even = PairNow.even /\ a.cut = PairNow.cut
        BY <1>6, <2>1, BornType DEF Pairs
      <3> QED BY <1>6, <2>1, <3>1 DEF NewPair
    <2>2. CASE ~old
      BY <1>6, <2>2
    <2> QED BY <2>1, <2>2
  <1>8. Alike(a)
    BY <1>1, <1>7, AlikeBorn
  <1>9. /\ b.q = a.q + units' - UnitsPerFrame
        /\ a.even => IF a.cut THEN units' < UnitsPerFrame ELSE units' = UnitsPerFrame
    <2>1. tickRate \in Rates /\ tick \in Nat /\ tick \in 0 .. tickRate - 1
      BY <1>1, TickFacts
    <2>2. Past(tick', tickRate') = Past(tick, tickRate) + units' - UnitsPerFrame
      <3>1. /\ Past(tick, tickRate) \in Int /\ UnitsPerFrame \in Int /\ UnitsOfTick \in Int
            /\ Past(tick', tickRate') = Past(tick, tickRate) + UnitsOfTick - UnitsPerFrame
        BY <1>1, <1>2, <2>1, NextPast, PastBounds, TickFacts, Period DEF UnitsOfTick
      <3> QED BY <1>2, <3>1
    <2>3. a.even => IF a.cut THEN units' < UnitsPerFrame ELSE units' = UnitsPerFrame
      <3>1. Even => IF tickRate # Fps THEN UnitsOfTick < UnitsPerFrame
                    ELSE UnitsOfTick = UnitsPerFrame
        BY <1>2, <2>1, EvenTicks DEF Even, UnitsOfTick
      <3> QED BY <1>2, <1>7, <3>1
    <2> QED BY <1>5, <1>7, <2>2, <2>3
  <1>10. b.even = a.even /\ b.cut = a.cut
    <2>1. b.even \in BOOLEAN /\ a.even \in BOOLEAN /\ b.cut \in BOOLEAN /\ a.cut \in BOOLEAN
      BY <1>5, <1>7, PairIs
    <2> QED BY <1>2, <1>5, <1>7, <2>1 DEF Even
  <1>11. /\ \E e \in BOOLEAN : (e => a.cut) /\ b.s = Called(a.s, SlicedCall(b, units', e))
         /\ b.w = Called(a.w, WholeCall(b))
    BY <1>2, <1>5, <1>7 DEF SlicedCall, WholeCall
  <1>12. ~b.slow => ~a.slow /\ b.l = Full
    BY <1>2, <1>5, <1>7
  <1> HIDE DEF a, b, f
  <1>13. FrameCalls(a, b, units')
    BY <1>2, <1>5, <1>7, <1>9, <1>10, <1>11, <1>12 DEF FrameCalls
  <1>14. Alike(b)
    BY <1>1, <1>2, <1>5, <1>7, <1>8, <1>13, AlikeStep DEF Steps, SystemType
  <1> QED BY <1>1, <1>2, <1>4, <1>14, AlikeNext DEF StepInv, b

LEMMA MinorStepInv == StepInv /\ MinorStep => StepInv'
  <1> SUFFICES ASSUME StepInv, MinorStep PROVE StepInv'
    OBVIOUS
  <1> DEFINE a == PairNow
             b == PairNow'
  <1>1. SpeedInv /\ SystemType /\ LifeInv /\ Alike(a) /\ SpeedInv' /\ SystemType'
    BY MinorSpeedInv DEF StepInv, SpeedInv
  <1>2. /\ UNCHANGED <<tickRate, effect, frames, whole, logical, paused, native, kept, slowed>>
        /\ tick' = (tick + 1) % tickRate
        /\ ~OnTick(tick, tickRate) /\ ~paused /\ logical = native
        /\ units' = UnitsOfTick /\ units' \in 1 .. UnitsPerFrame
        /\ sliced' = Called(sliced, Context(FALSE, TRUE, units', logical, frames, FALSE))
    BY <1>1, TickFacts DEF MinorStep, NextTick, SpeedInv
  <1>3. frames > 0 /\ (~slowed => native = Full)
    BY <1>1, <1>2 DEF LifeInv
  <1>4. LifeInv'
    BY <1>2, <1>3 DEF LifeInv
  <1>5. b \in Pairs /\ b.s = sliced' /\ b.w = whole' /\ b.f = frames' /\ b.l = logical'
        /\ b.q = Past(tick', tickRate') /\ (b.slow <=> slowed')
        /\ (b.even <=> Even') /\ (b.cut <=> tickRate' # Fps)
    BY <1>1, PairNextIs DEF PairFacts
  <1>6. a \in Pairs /\ a.s = sliced /\ a.w = whole /\ a.f = frames /\ a.l = logical
        /\ a.q = Past(tick, tickRate) /\ (a.slow <=> slowed)
        /\ (a.even <=> Even) /\ (a.cut <=> tickRate # Fps)
        /\ a.q \in -UnitsPerFrame .. -1
    BY <1>1, <1>2, PairNowIs, PlaceNow DEF PairFacts
  <1>7. b.q = a.q + units'
    <2>1. tickRate \in Rates /\ tick \in Nat /\ tick \in 0 .. tickRate - 1
      BY <1>1, TickFacts
    <2>2. /\ Past(tick, tickRate) \in Int /\ UnitsOfTick \in Int
          /\ Past(tick', tickRate') = Past(tick, tickRate) + UnitsOfTick
      BY <1>1, <1>2, <2>1, NextPast, PastBounds, TickFacts, Period DEF UnitsOfTick
    <2> QED BY <1>2, <1>5, <1>6, <2>2
  <1>8. b.even = a.even /\ b.cut = a.cut /\ b.slow = a.slow
    <2>1. /\ b.even \in BOOLEAN /\ a.even \in BOOLEAN /\ b.cut \in BOOLEAN /\ a.cut \in BOOLEAN
          /\ b.slow \in BOOLEAN /\ a.slow \in BOOLEAN
      BY <1>5, <1>6, PairIs
    <2> QED BY <1>2, <1>5, <1>6, <2>1 DEF Even
  <1>9. b.s = Called(a.s, MinorCall(b, units'))
    BY <1>2, <1>5, <1>6 DEF MinorCall
  <1>10. ~b.slow => b.l = Full
    BY <1>2, <1>3, <1>5
  <1>11. a.f > 0 /\ b.w = a.w /\ b.f = a.f /\ b.l = a.l
    BY <1>2, <1>3, <1>5, <1>6
  <1> HIDE DEF a, b
  <1>12. MinorCalls(a, b, units')
    BY <1>6, <1>7, <1>8, <1>9, <1>10, <1>11 DEF MinorCalls
  <1>13. Alike(b)
    BY <1>1, <1>2, <1>5, <1>6, <1>12, AlikeStep DEF Steps, SystemType
  <1> QED BY <1>1, <1>2, <1>4, <1>13, AlikeNext DEF StepInv, b

\* A menu.
LEMMA BetweenStepInv ==
    ASSUME StepInv, SpeedInv', LifeInv', OnTick(tick, tickRate),
           UNCHANGED <<tickRate, tick, effect, frames, sliced, whole, slowed>>
    PROVE  StepInv'
  <1> DEFINE a == PairNow
             b == PairNow'
  <1>1. SystemType /\ SystemType' /\ Alike(a)
    BY DEF StepInv, SpeedInv
  <1>2. b \in Pairs /\ b.s = sliced' /\ b.w = whole' /\ b.f = frames'
        /\ b.q = Past(tick', tickRate') /\ (b.slow <=> slowed')
        /\ (b.even <=> Even') /\ (b.cut <=> tickRate' # Fps)
    BY <1>1, PairNextIs DEF PairFacts
  <1>3. a \in Pairs /\ a.s = sliced /\ a.w = whole /\ a.f = frames
        /\ a.q = Past(tick, tickRate) /\ (a.slow <=> slowed)
        /\ (a.even <=> Even) /\ (a.cut <=> tickRate # Fps)
        /\ (a.even => a.q = 0)
    BY <1>1, PairNowIs, PlaceNow DEF PairFacts
  <1>4. /\ b.s = a.s /\ b.w = a.w /\ b.f = a.f /\ b.q = a.q
        /\ (b.slow <=> a.slow) /\ (b.even <=> a.even) /\ (b.cut <=> a.cut)
    BY <1>2, <1>3 DEF Even
  <1> HIDE DEF a, b
  <1>5. Alike(b)
    BY <1>1, <1>2, <1>3, <1>4, AlikeBetween
  <1> QED BY <1>5, AlikeNext DEF StepInv, b

LEMMA MenuStepInv == StepInv /\ (Open \/ MenuTick \/ Close) => StepInv'
  <1> SUFFICES ASSUME StepInv, Open \/ MenuTick \/ Close PROVE StepInv'
    OBVIOUS
  <1>1. SpeedInv /\ SystemType /\ LifeInv
    BY DEF StepInv, SpeedInv
  <1>2. SpeedInv'
    BY <1>1, OpenSpeedInv, MenuSpeedInv, CloseSpeedInv
  <1>3. OnTick(tick, tickRate)
    BY <1>1, TickFacts DEF Open, MenuTick, Close, SpeedInv
  <1>4. UNCHANGED <<tickRate, tick, effect, frames, sliced, whole, slowed>>
    BY DEF Open, MenuTick, Close, Others
  <1>5. LifeInv'
    <2>1. CASE Open
      BY <1>1, <1>3, <1>4, <2>1 DEF LifeInv, Open
    <2>2. CASE MenuTick
      BY <1>1, <1>3, <1>4, <2>2 DEF LifeInv, MenuTick
    <2>3. CASE Close
      BY <1>1, <1>3, <1>4, <2>3 DEF LifeInv, Close
    <2> QED BY <2>1, <2>2, <2>3
  <1> QED BY <1>2, <1>3, <1>4, <1>5, BetweenStepInv

LEMMA NextStepInv == StepInv /\ [SystemNext]_systemVars => StepInv'
  <1> SUFFICES ASSUME StepInv, [SystemNext]_systemVars PROVE StepInv'
    OBVIOUS
  <1>1. ASSUME UNCHANGED systemVars PROVE StepInv'
    <2>1. SpeedInv'
      BY <1>1, NextSpeedInv DEF StepInv
    <2>2. LifeInv'
      BY <1>1 DEF LifeInv, StepInv, systemVars
    <2>3. PairNow' = PairNow /\ effect' = effect
      BY <1>1 DEF PairNow, Past, OnTick, Place, Even, systemVars
    <2>4. Alike(PairNow')
      BY <2>3 DEF StepInv
    <2> QED BY <2>1, <2>2, <2>3, <2>4, AlikeNext DEF StepInv
  <1> QED BY <1>1, FrameStepInv, MinorStepInv, MenuStepInv DEF SystemNext

LEMMA StepInvariance == SystemSpec => []StepInv
  BY InitStepInv, NextStepInv, PTL DEF SystemSpec

-------------------------------------------------------------------------------
(* At the end of a frame. *)

AtEnd(a) == a.f > 0 /\ a.q \in 0 .. UnitsPerFrame - 1 /\ (a.even => a.q = 0)

\* What goes by the timers or by the speed, and so is apart through slow motion.
ByTheTimer ==
    \/ effect.gate \in {"timer", "moved", "whole"}
    \/ effect.does \in {"jump", "wrap", "move"} \/ effect.by = "speed"

LEMMA EndIs ==
    ASSUME NEW a \in Pairs, AtEnd(a)
    PROVE  /\ a.f \in Nat \ {0} /\ One \in Nat \ {0} /\ Full \in Nat \ {0}
           /\ One * a.f \in Nat /\ Full <= One
           /\ Full * a.q \in 0 .. One - Full /\ (a.even => a.q = 0 /\ Full * a.q = 0)
  <1>1. /\ One \in Nat \ {0} /\ Full \in Nat \ {0} /\ UnitsPerFrame \in Nat \ {0}
        /\ One = Full * UnitsPerFrame
    BY SystemClock, Period
  <1>2. a.f \in Nat \ {0} /\ a.q \in 0 .. UnitsPerFrame - 1 /\ (a.even => a.q = 0)
        /\ One * a.f \in Nat
    BY PairIs DEF AtEnd
  <1>3. Full * a.q \in 0 .. One - Full /\ Full <= One
    BY <1>2, PlaceIs
  <1> QED BY <1>1, <1>2, <1>3

\* What runs with the ticks is less than a frame off, and at even rates not at all.
LEMMA LagEnd ==
    ASSUME NEW a \in Pairs, AtEnd(a), NEW t \in Int, NEW f \in Nat, Lagging(a, t, f)
    PROVE  /\ One * f - One + Full <= t /\ t <= One * f + One - Full
           /\ a.even => t = One * f
  <1>1. /\ Full * a.q - (t - One * f) >= 0 /\ Full * a.q - (t - One * f) <= One - Full
        /\ a.even => Full * a.q = t - One * f
        /\ One * f \in Nat
    <2>1. One \in Nat /\ Full \in Nat /\ Full * a.q \in Int
      BY SystemClock, PairIs
    <2>2. One * f \in Nat
      BY <2>1, MulNat
    <2>3. Full * a.q - (t - One * f) \in 0 .. One - Full
      BY DEF Lagging
    <2> QED BY <2>1, <2>2, <2>3 DEF Lagging
  <1>2. 0 <= Full * a.q /\ Full * a.q <= One - Full /\ (a.even => Full * a.q = 0)
        /\ One \in Nat /\ Full \in Nat /\ Full * a.q \in Int
    BY EndIs, PairIs
  <1>3. One * f - One + Full <= t
    BY <1>1, <1>2
  <1>4. t <= One * f + One - Full
    BY <1>1, <1>2
  <1>5. a.even => t = One * f
    BY <1>1, <1>2
  <1> QED BY <1>3, <1>4, <1>5

LEMMA NotFar ==
    ASSUME NEW m \in Int, NEW n \in Int, NEW k \in Int
    PROVE  /\ n - m <= k /\ m - n <= k => Distance(m, n) <= k
           /\ n - m < k /\ m - n < k => Distance(m, n) < k
  BY DEF Distance

\* Timers that tick once a call, at full speed.
LEMMA TimersEnd ==
    ASSUME NEW a \in Pairs, AtEnd(a), Timed(a)
    PROVE  /\ a.even => a.s.now = a.w.now
           /\ ~a.slow => /\ a.w.now = One * a.f
                         /\ One * a.f - One < a.s.now /\ a.s.now < One * a.f + One
                         /\ One * a.f - One + Full <= a.s.now
                         /\ Distance(a.s.now, a.w.now) < One
  <1>1. /\ One \in Nat \ {0} /\ Full \in Nat \ {0} /\ One * a.f \in Nat /\ a.f \in Nat
        /\ a.s.now \in Int /\ a.w.now \in Int /\ a.l \in Int
    BY EndIs, PairIs
  <1>2. a.even => a.s.now = a.w.now
    <2>1. a.even => a.l * a.q = 0
      BY <1>1, EndIs
    <2> QED BY <1>1, <2>1 DEF Timed
  <1>3. ASSUME ~a.slow
        PROVE  /\ a.w.now = One * a.f
               /\ One * a.f - One < a.s.now /\ a.s.now < One * a.f + One
               /\ One * a.f - One + Full <= a.s.now
               /\ Distance(a.s.now, a.w.now) < One
    <2>1. a.w.now = One * a.f /\ Lagging(a, a.s.now, a.f)
      BY <1>3 DEF Timed
    <2>2. One * a.f - One + Full <= a.s.now /\ a.s.now <= One * a.f + One - Full
      BY <1>1, <2>1, LagEnd
    <2>3. One * a.f - One < a.s.now /\ a.s.now < One * a.f + One
      BY <1>1, <2>2
    <2>4. Distance(a.s.now, a.w.now) < One
      BY <1>1, <2>1, <2>3, NotFar
    <2> QED BY <2>1, <2>2, <2>3, <2>4
  <1> QED BY <1>2, <1>3

\* A spread amount.
LEMMA SpreadEnd ==
    ASSUME NEW a \in Pairs, AtEnd(a), NEW f \in Nat, SpreadFrom(a, f)
    PROVE  /\ a.even => a.s.sum = a.w.sum
           /\ Distance(a.s.sum, a.w.sum) <= One
  <1>1. /\ One \in Nat \ {0} /\ Full \in Nat \ {0} /\ One * f \in Nat
        /\ a.s.sum \in Int /\ a.w.sum \in Int /\ a.w.sum = One * f
    BY EndIs, PairIs DEF SpreadFrom
  <1>2. One * f - One + Full <= a.s.sum /\ a.s.sum <= One * f + One - Full
        /\ (a.even => a.s.sum = One * f)
    BY <1>1, LagEnd DEF SpreadFrom
  <1> QED BY <1>1, <1>2, NotFar

\* A shot's motion.
LEMMA AgedEnd ==
    ASSUME NEW a \in Pairs, AtEnd(a), Aged(a)
    PROVE  /\ a.even => a.s.sum = a.w.sum
           /\ Distance(a.s.sum, a.w.sum) <= One
  <1>1. One \in Nat /\ a.f \in Nat
    BY EndIs
  <1>2. CASE a.f <= 1
    BY <1>1, <1>2 DEF Aged, Distance
  <1>3. CASE ~(a.f <= 1)
    <2>1. a.f - 1 \in Nat /\ SpreadFrom(a, a.f - 1)
      BY <1>1, <1>3 DEF Aged
    <2> QED BY <2>1, SpreadEnd
  <1> QED BY <1>2, <1>3

\* What the timers gate, at full speed.
LEMMA GatedEnd ==
    ASSUME NEW a \in Pairs, AtEnd(a), Timed(a), ~a.slow,
           Counted(a) \/ AtOnce(a) \/ Nths(a) \/ Blinks(a)
    PROVE  /\ a.even => a.s.sum = a.w.sum
           /\ Distance(a.s.sum, a.w.sum) <= One
  <1> DEFINE F == FrameOf(a.s.was)
             G == FrameOf(a.w.was)
  <1>1. F \in Int /\ G = a.f - 1 /\ F \in {a.f - 2, a.f - 1} /\ (a.even => F = a.f - 1)
    BY TimedFrames
  <1>2. a.f \in Nat \ {0} /\ One \in Nat \ {0} /\ a.s.sum \in Int /\ a.w.sum \in Int
    BY EndIs, PairIs
  <1>3. /\ One * (a.f - 2 + 1) = One * a.f - One /\ One * (a.f - 1 + 1) = One * a.f
        /\ One * a.f \in Int
    BY <1>2
  <1>4. CASE Counted(a)
    <2>1. a.s.sum = One * (F + 1) /\ a.w.sum = One * a.f
      BY <1>4 DEF Counted
    <2> HIDE DEF F, G
    <2>2. a.s.sum \in {One * a.f - One, One * a.f} /\ (a.even => a.s.sum = One * a.f)
      BY <1>1, <1>3, <2>1
    <2> QED BY <1>2, <1>3, <2>1, <2>2, NotFar
  <1>5. CASE AtOnce(a)
    <2>1. /\ a.s.sum = IF F >= 1 THEN One ELSE 0
          /\ a.w.sum = IF G >= 1 THEN One ELSE 0
      BY <1>5 DEF AtOnce
    <2> HIDE DEF F, G
    <2>2. a.even => a.s.sum = a.w.sum
      BY <1>1, <2>1
    <2>3. a.s.sum \in {0, One} /\ a.w.sum \in {0, One}
      BY <2>1
    <2> QED BY <1>2, <2>2, <2>3, NotFar
  <1>6. CASE Nths(a)
    <2>1. /\ a.s.sum = One * (F \div Cycle + 1)
          /\ a.w.sum = One * (G \div Cycle + 1)
      BY <1>6 DEF Nths
    <2> HIDE DEF F, G
    <2>2. F = G \/ F + 1 = G
      BY <1>1, <1>2
    <2>3. F \div Cycle \in Int /\ (F + 1) \div Cycle \in {F \div Cycle, F \div Cycle + 1}
      BY <1>1, NextNth
    <2>4. PICK p \in Int : p = F \div Cycle
      BY <2>3
    <2>5. One * ((p + 1) + 1) = One * (p + 1) + One /\ One * (p + 1) \in Int
      BY <1>2
    <2>6. a.w.sum \in {a.s.sum, a.s.sum + One}
      <3>1. G \div Cycle \in {p, p + 1}
        BY <2>2, <2>3, <2>4
      <3> QED BY <2>1, <2>4, <2>5, <3>1
    <2>7. a.even => a.s.sum = a.w.sum
      BY <1>1, <2>1
    <2> QED BY <1>2, <2>6, <2>7, NotFar
  <1>7. CASE Blinks(a)
    <2>1. /\ a.s.sum = IF F % Cycle = 0 THEN One ELSE 0
          /\ a.w.sum = IF G % Cycle = 0 THEN One ELSE 0
      BY <1>2, <1>7 DEF Blinks
    <2> HIDE DEF F, G
    <2>2. a.even => a.s.sum = a.w.sum
      BY <1>1, <2>1
    <2>3. a.s.sum \in {0, One} /\ a.w.sum \in {0, One}
      BY <2>1
    <2> QED BY <1>2, <2>2, <2>3, NotFar
  <1> QED BY <1>4, <1>5, <1>6, <1>7

\* Movement, at full speed.
LEMMA MovesEnd ==
    ASSUME NEW a \in Pairs, AtEnd(a), Timed(a), Moves(a), ~a.slow
    PROVE  /\ a.even => a.s.sum = a.w.sum
           /\ Distance(a.s.sum, a.w.sum) <= Velocity
  <1> DEFINE V == Velocity
             p == V * a.f
             n == a.s.sum
  <1>1. /\ One \in Nat \ {0} /\ Full \in Nat \ {0} /\ V \in Nat \ {0} /\ a.f \in Nat
        /\ a.s.now \in Int /\ a.s.rest \in Int /\ n \in Int /\ p \in Int
    BY EndIs, PairIs, SystemClock
  <1>2. /\ 0 <= a.s.rest /\ a.s.rest <= One - 1
        /\ One * n + a.s.rest = V * a.s.now /\ a.w.sum = p
    <2>1. a.s.rest \in 0 .. One - 1
      BY DEF Moves
    <2> QED BY <1>1, <2>1 DEF Moves
  <1>3. /\ One * a.f - One < a.s.now /\ a.s.now < One * a.f + One
        /\ a.even => a.s.now = One * a.f
    BY TimersEnd
  <1>4. V * (One * a.f) = One * p /\ One * p \in Int /\ One * n \in Int /\ V * One \in Int
    BY <1>1
  <1>5. /\ V * (One * a.f + One) = One * p + V * One
        /\ V * (One * a.f - One) = One * p - V * One
        /\ One * a.f + One \in Int /\ One * a.f - One \in Int
    BY <1>1, <1>4
  <1>6. One * n <= One * p + V * One
    <2>1. a.s.now * V <= (One * a.f + One) * V
      BY <1>1, <1>3, <1>5, MulMono
    <2>2. a.s.now * V = V * a.s.now /\ (One * a.f + One) * V = V * (One * a.f + One)
          /\ V * a.s.now \in Int
      BY <1>1, <1>5
    <2> QED BY <1>1, <1>2, <1>4, <1>5, <2>1, <2>2
  <1>7. One * p - V * One <= One * n + One - 1
    <2>1. (One * a.f - One) * V <= a.s.now * V
      BY <1>1, <1>3, <1>5, MulMono
    <2>2. a.s.now * V = V * a.s.now /\ (One * a.f - One) * V = V * (One * a.f - One)
          /\ V * a.s.now \in Int
      BY <1>1, <1>5
    <2> QED BY <1>1, <1>2, <1>4, <1>5, <2>1, <2>2
  <1>8. a.even => One * n <= One * p /\ One * p <= One * n + One - 1
    BY <1>1, <1>2, <1>3, <1>4
  <1> HIDE DEF V, p, n
  <1>9. \A i, j \in Int : i * One <= j * One => i <= j
    BY <1>1, MulCancel
  <1>10. /\ (p + V) * One = One * p + V * One /\ n * One = One * n /\ p * One = One * p
         /\ (p - V - 1) * One = One * p - V * One - One /\ (p - 1) * One = One * p - One
         /\ p + V \in Int /\ p - V - 1 \in Int /\ p - 1 \in Int
    BY <1>1
  <1>11. n <= p + V
    BY <1>1, <1>6, <1>9, <1>10
  <1>12. p - V <= n
    <2> SUFFICES ASSUME n <= p - V - 1 PROVE FALSE
      BY <1>1
    <2>1. n * One <= (p - V - 1) * One
      BY <1>1, <1>10, MulMono
    <2> QED BY <1>1, <1>4, <1>7, <1>10, <2>1
  <1>13. a.even => n = p
    <2> SUFFICES ASSUME a.even PROVE n = p
      OBVIOUS
    <2>1. n <= p
      BY <1>1, <1>8, <1>9, <1>10
    <2>2. ASSUME n <= p - 1 PROVE FALSE
      <3>1. n * One <= (p - 1) * One
        BY <1>1, <1>10, <2>2, MulMono
      <3> QED BY <1>1, <1>4, <1>8, <1>10, <3>1
    <2> QED BY <1>1, <2>1, <2>2
  <1> QED BY <1>1, <1>2, <1>11, <1>12, <1>13, NotFar DEF V, p, n

\* How often a timer has been set back, of where it was before its last call.
LEMMA EarlierIs ==
    ASSUME SetBack, NEW x \in Objects, InReach(x.was), NEW k \in Int, x.sum = One * k,
           NEW o, o = IF effect.does = "wrap" THEN One ELSE 0
    PROVE  /\ Earlier(x) \in Int
           /\ k * (Back * One) <= Earlier(x) + o
           /\ Earlier(x) + o < (k + 1) * (Back * One)
  <1> DEFINE M == Back * One
             r == IF x.was < Cycle * One THEN x.was ELSE x.was - M
  <1>1. /\ M \in Nat /\ One \in Nat \ {0} /\ Cycle * One \in Nat /\ One <= Cycle * One
        /\ M = IF effect.does = "wrap" THEN Cycle * One + One ELSE Cycle * One
        /\ x.was \in Int /\ Back \in Nat \ {0}
    BY BackFacts, ObjectIs
  <1>2. Earlier(x) = r + k * M
    <2>1. Back * (One * k) = k * M
      BY <1>1
    <2> QED BY <2>1 DEF Earlier
  <1> HIDE DEF M
  <1>3. r \in Int /\ k * M \in Int /\ (k + 1) * M = k * M + M
    BY <1>1
  <1>4. 0 <= r + o
    BY <1>1 DEF InReach
  <1>5. r + o < M
    BY <1>1 DEF InReach
  <1> HIDE DEF r
  <1> QED BY <1>1, <1>2, <1>3, <1>4, <1>5 DEF M

LEMMA JumpsEnd ==
    ASSUME SetBack, NEW a \in Pairs, AtEnd(a), Jumps(a), ~a.slow
    PROVE  /\ a.even => a.s.sum = a.w.sum /\ a.s.now = a.w.now
           /\ Distance(a.s.sum, a.w.sum) <= One
           /\ Distance(Elapsed(a.s), Elapsed(a.w)) < One
  <1> DEFINE M == Back * One
             o == IF effect.does = "wrap" THEN One ELSE 0
             h == IF effect.does = "wrap" THEN a.f ELSE a.f - 1
             s == Turned(a.s)
             e == Earlier(a.s)
             d == Earlier(a.w)
  <1>1. /\ M \in Nat /\ One \in Nat \ {0} /\ One <= M /\ Back \in Nat \ {0}
        /\ a.f \in Nat \ {0} /\ One * a.f \in Nat /\ M = One * Back
        /\ a.s \in Objects /\ a.w \in Objects
        /\ a.s.now \in Int /\ a.w.now \in Int /\ a.s.sum \in Int /\ a.w.sum \in Int
        /\ a.f > 0 /\ Cycle \in Nat \ {0}
    BY BackFacts, EndIs, PairIs, SystemClock DEF AtEnd
  <1>2. /\ InReach(a.s.was) /\ InReach(a.w.was)
        /\ Turned(a.w) = One * a.f /\ Lagging(a, s, a.f)
        /\ d = One * a.f - One
        /\ One * a.f - 2 * One < e /\ e < One * a.f
        /\ s - e \in 1 .. One
        /\ a.even => One * a.f - One <= e
    BY <1>1 DEF Jumps
  <1>3. PICK i \in Int : a.s.sum = One * i
    BY DEF Jumps, InTurn
  <1>4. PICK j \in Int : a.w.sum = One * j
    BY DEF Jumps, InTurn
  <1>5. e \in Int /\ i * M <= e + o /\ e + o < (i + 1) * M
    BY <1>1, <1>2, <1>3, EarlierIs
  <1>6. d \in Int /\ j * M <= d + o /\ d + o < (j + 1) * M
    BY <1>1, <1>2, <1>4, EarlierIs
  <1>7. s \in Int
    <2>1. Back * a.s.sum \in Int
      BY <1>1
    <2> QED BY <1>1, <2>1 DEF Turned
  <1>8. h \in Int /\ d + o = One * h /\ o \in Int
    <2>1. One * (a.f - 1) = One * a.f - One
      BY <1>1
    <2> HIDE DEF d
    <2> QED BY <1>1, <1>2, <2>1
  <1> HIDE DEF M, o, h, s, e, d
  <1>9. One * h + One <= (j + 1) * M
    <2>1. (j + 1) * M = (Back * (j + 1)) * One /\ One * h = h * One /\ Back * (j + 1) \in Int
      BY <1>1, <1>8
    <2>2. (h + 1) * One = One * h + One
      BY <1>1, <1>8
    <2>3. PICK p \in Int : p = Back * (j + 1)
      BY <2>1
    <2>4. h * One < p * One
      BY <1>6, <1>8, <2>1, <2>3
    <2>5. ~(p <= h)
      BY <1>1, <1>8, <2>4, MulMono
    <2>6. (h + 1) * One <= p * One
      BY <1>1, <1>8, <2>5, MulMono
    <2> QED BY <2>1, <2>2, <2>3, <2>6
  <1>10. /\ (i + 1) * M = i * M + M /\ (j + 1) * M = j * M + M /\ (j - 1) * M = j * M - M
         /\ i * M \in Int /\ j * M \in Int /\ One * h \in Int
    BY <1>1, <1>8
  <1>11. i <= j
    <2> SUFFICES ASSUME j + 1 <= i PROVE FALSE
      OBVIOUS
    <2>1. (j + 1) * M <= i * M
      BY <1>1, MulMono
    <2>2. e + o < d + o + One
      BY <1>1, <1>2, <1>5, <1>6, <1>8
    <2> QED BY <1>1, <1>5, <1>6, <1>8, <1>9, <1>10, <2>1, <2>2
  <1>12. j - 1 <= i
    <2> SUFFICES ASSUME i + 1 <= j - 1 PROVE FALSE
      OBVIOUS
    <2>1. (i + 1) * M <= (j - 1) * M
      BY <1>1, MulMono
    <2>2. d + o - One < e + o
      BY <1>1, <1>2, <1>5, <1>6, <1>8
    <2> QED BY <1>1, <1>5, <1>6, <1>8, <1>10, <2>1, <2>2
  <1>13. i + 1 <= j => e < d
    <2> HAVE i + 1 <= j
    <2>1. (i + 1) * M <= j * M
      BY <1>1, MulMono
    <2> QED BY <1>1, <1>5, <1>6, <1>8, <1>10, <2>1
  <1>14. a.even => i = j
    BY <1>1, <1>2, <1>5, <1>6, <1>11, <1>13
  <1>15. /\ One * a.f - One < s /\ s < One * a.f + One
         /\ a.even => s = One * a.f
    <2>1. Full \in Nat \ {0} /\ a.f \in Nat
      BY EndIs
    <2>2. /\ One * a.f - One + Full <= s /\ s <= One * a.f + One - Full
          /\ a.even => s = One * a.f
      BY <1>2, <1>7, <2>1, LagEnd
    <2> QED BY <1>1, <1>7, <2>1, <2>2
  <1>16. CASE i = j
    <2>1. a.s.sum = a.w.sum
      BY <1>3, <1>4, <1>16
    <2>2. PICK t \in Int : t = Back * a.s.sum
      BY <1>1
    <2>3. s = a.s.now + t /\ One * a.f = a.w.now + t
      BY <1>2, <2>1, <2>2 DEF s, Turned
    <2>4. a.even => a.s.now = a.w.now
      <3> HAVE a.even
      <3>1. a.s.now + t = a.w.now + t
        BY <1>15, <2>3
      <3>2. \A x, y, z \in Int : x + z = y + z => x = y
        OBVIOUS
      <3> QED BY <1>1, <3>1, <3>2
    <2>5. a.s.now - a.w.now < One /\ a.w.now - a.s.now < One
      BY <1>1, <1>7, <1>15, <2>2, <2>3
    <2>6. PICK p \in Int : p = IF effect.does \in {"jump", "wrap"} THEN Cycle * a.s.sum ELSE 0
      BY <1>1
    <2>7. Elapsed(a.s) = a.s.now + p /\ Elapsed(a.w) = a.w.now + p
      BY <2>1, <2>6 DEF Elapsed
    <2>8. Distance(Elapsed(a.s), Elapsed(a.w)) < One
      BY <1>1, <2>5, <2>6, <2>7 DEF Distance
    <2>9. Distance(a.s.sum, a.w.sum) <= One
      BY <1>1, <2>1 DEF Distance
    <2> QED BY <2>1, <2>4, <2>8, <2>9
  <1>17. CASE i # j
    <2>1. i = j - 1 /\ e < d
      BY <1>11, <1>12, <1>13, <1>17
    <2>2. a.w.sum = a.s.sum + One
      <3>1. One * j = One * (j - 1) + One
        BY <1>1
      <3> QED BY <1>3, <1>4, <2>1, <3>1
    <2>3. s < One * a.f
      BY <1>1, <1>2, <1>5, <1>6, <1>7, <2>1
    <2>4. Distance(a.s.sum, a.w.sum) <= One
      BY <1>1, <2>2, NotFar
    <2>5. effect.does \in {"jump", "wrap"}
      BY BackFacts
    <2>6. Cycle * a.s.sum \in Int /\ Cycle * a.w.sum \in Int
      BY <1>1
    <2>7. Elapsed(a.s) = a.s.now + Cycle * a.s.sum /\ Elapsed(a.w) = a.w.now + Cycle * a.w.sum
      BY <2>5 DEF Elapsed
    <2>8. CASE effect.does = "wrap"
      <3>1. /\ (Cycle + 1) * a.s.sum = Cycle * a.s.sum + a.s.sum
            /\ (Cycle + 1) * a.w.sum = Cycle * a.w.sum + a.w.sum
        BY <1>1
      <3>2. s = Elapsed(a.s) + a.s.sum /\ One * a.f = Elapsed(a.w) + a.w.sum
        <4>1. s = a.s.now + (Cycle + 1) * a.s.sum /\ One * a.f = a.w.now + (Cycle + 1) * a.w.sum
          BY <1>2, <2>8 DEF s, Turned, Back
        <4> QED BY <1>1, <2>6, <2>7, <3>1, <4>1
      <3>3. Elapsed(a.s) \in Int /\ Elapsed(a.w) \in Int
        BY <1>1, <2>6, <2>7
      <3>4. Elapsed(a.s) - Elapsed(a.w) < One /\ Elapsed(a.w) - Elapsed(a.s) < One
        BY <1>1, <1>7, <1>15, <2>2, <2>3, <3>2, <3>3
      <3> QED BY <1>1, <1>14, <1>17, <2>4, <3>3, <3>4, NotFar
    <2>9. CASE effect.does # "wrap"
      <3>1. s = Elapsed(a.s) /\ One * a.f = Elapsed(a.w)
        BY <1>2, <2>7, <2>9 DEF s, Turned, Back
      <3>2. s - One * a.f < One /\ One * a.f - s < One
        BY <1>1, <1>7, <1>15
      <3> QED BY <1>1, <1>7, <1>14, <1>17, <2>4, <3>1, <3>2, NotFar
    <2> QED BY <2>8, <2>9
  <1> QED BY <1>16, <1>17

\* At rates that cut frames alike the two are the same,
LEMMA SameEnd ==
    ASSUME NEW a \in Pairs, AtEnd(a), effect \in Kinds, Alike(a), a.even,
           ~(a.slow /\ ByTheTimer)
    PROVE  a.s.sum = a.w.sum /\ a.s.now = a.w.now
  <1>1. Plain => Timed(a) /\ a.s.now = a.w.now
    BY TimersEnd DEF Alike
  <1>2. \A d, g, s, e : effect = Kind(d, g, s, e) =>
          effect.does = d /\ effect.gate = g /\ effect.by = e
    BY KindIs
  <1>3. a.f \in Nat \ {0}
    BY EndIs
  <1>4. CASE \/ effect = Kind("call", "timer", "one", "one")
             \/ effect = Kind("at", "timer", "one", "one")
             \/ effect = Kind("nth", "timer", "one", "one")
             \/ effect = Kind("lit", "moved", "one", "one")
    <2>1. Plain /\ ~a.slow
      BY <1>2, <1>4 DEF Plain, ByTheTimer
    <2>2. Counted(a) \/ AtOnce(a) \/ Nths(a) \/ Blinks(a)
      BY <1>4 DEF Alike
    <2> QED BY <1>1, <2>1, <2>2, GatedEnd
  <1>5. CASE \/ effect = Kind("call", "frame", "one", "one")
             \/ effect = Kind("ask", "frame", "one", "one")
             \/ effect = Kind("nth", "frame", "one", "one")
    <2>1. Plain
      BY <1>2, <1>5 DEF Plain
    <2> QED BY <1>1, <1>5, <2>1 DEF Alike, SameSum, Promoted, Begun
  <1>6. CASE \/ effect = Kind("call", "tick", "one", "factor")
             \/ effect = Kind("call", "tick", "one", "speed")
    <2>1. Plain /\ SpreadFrom(a, a.f)
      BY <1>2, <1>6 DEF Plain, Alike, ByTheTimer
    <2> QED BY <1>1, <1>3, <2>1, SpreadEnd
  <1>7. CASE effect = Kind("fresh", "aged", "one", "factor")
    <2>1. Plain /\ Aged(a)
      BY <1>2, <1>7 DEF Plain, Alike
    <2> QED BY <1>1, <2>1, AgedEnd
  <1>8. CASE \/ effect = Kind("hit", "moved", "one", "one")
             \/ effect = Kind("hit", "whole", "one", "one")
    <2>1. Plain /\ ~a.slow
      BY <1>2, <1>8 DEF Plain, ByTheTimer
    <2>2. a.s.sum = One * a.f /\ a.w.sum = One * a.f
      BY <1>8, <2>1 DEF Alike, HitsMoved, HitsWhole
    <2> QED BY <1>1, <2>1, <2>2
  <1>9. CASE effect = Kind("clock", "frame", "speed", "logical")
    BY <1>9 DEF Alike, Clocks
  <1>10. CASE effect = Kind("move", "tick", "speed", "speed")
    <2>1. Plain /\ ~a.slow /\ Moves(a)
      BY <1>2, <1>10 DEF Plain, ByTheTimer, Alike
    <2> QED BY <1>1, <2>1, MovesEnd
  <1>11. CASE SetBack
    <2>1. ~a.slow /\ Jumps(a)
      BY <1>11, BackFacts DEF ByTheTimer, Alike
    <2> QED BY <1>11, <2>1, JumpsEnd
  <1> QED BY <1>4, <1>5, <1>6, <1>7, <1>8, <1>9, <1>10, <1>11 DEF Kinds, SetBack

\* what is held to frames is the same at every rate,
LEMMA HeldEnd ==
    ASSUME NEW a \in Pairs, effect \in Kinds, Alike(a),
           effect.gate \in {"frame", "moved"}, ~(a.slow /\ ByTheTimer),
           effect.does \in {"call", "hit", "clock"}
    PROVE  a.s.sum = a.w.sum
  <1>1. \/ effect = Kind("call", "frame", "one", "one")
        \/ effect = Kind("clock", "frame", "speed", "logical")
        \/ effect = Kind("hit", "moved", "one", "one")
    BY DEF Kinds, Kind
  <1>2. effect = Kind("hit", "moved", "one", "one") => ~a.slow
    BY KindIs DEF ByTheTimer
  <1> QED BY <1>1, <1>2 DEF Alike, SameSum, Clocks, HitsMoved

\* and all else is never a frame away at full speed.
LEMMA NearEnd ==
    ASSUME NEW a \in Pairs, AtEnd(a), effect \in Kinds, Alike(a), ~a.slow, ~AskedOnFrames
    PROVE  /\ Distance(a.s.sum, a.w.sum) <= IF effect.does = "move" THEN Velocity ELSE One
           /\ Distance(Elapsed(a.s), Elapsed(a.w)) < One
  <1>1. \A d, g, s, e : effect = Kind(d, g, s, e) => effect.does = d /\ effect.gate = g
    BY KindIs
  <1>2. Plain => Timed(a) /\ Distance(Elapsed(a.s), Elapsed(a.w)) < One
    <2> HAVE Plain
    <2>1. Timed(a) /\ Distance(a.s.now, a.w.now) < One
      BY TimersEnd DEF Alike
    <2>2. Elapsed(a.s) = a.s.now /\ Elapsed(a.w) = a.w.now
      <3>1. ~(effect.does \in {"jump", "wrap"}) /\ a.s.now \in Int /\ a.w.now \in Int
        BY PairIs DEF Plain
      <3> QED BY <3>1 DEF Elapsed
    <2> QED BY <2>1, <2>2
  <1>3. /\ a.f \in Nat \ {0} /\ One \in Nat \ {0} /\ One * a.f \in Nat
        /\ a.s.sum \in Int /\ a.w.sum \in Int /\ a.s.now \in Int /\ a.w.now \in Int
    BY EndIs, PairIs
  <1>4. a.s.sum = a.w.sum => Distance(a.s.sum, a.w.sum) <= One
    BY <1>3 DEF Distance
  <1>5. CASE \/ effect = Kind("call", "timer", "one", "one")
             \/ effect = Kind("at", "timer", "one", "one")
             \/ effect = Kind("nth", "timer", "one", "one")
             \/ effect = Kind("lit", "moved", "one", "one")
    <2>1. Plain /\ effect.does # "move"
      BY <1>1, <1>5 DEF Plain
    <2>2. Counted(a) \/ AtOnce(a) \/ Nths(a) \/ Blinks(a)
      BY <1>5 DEF Alike
    <2> QED BY <1>2, <2>1, <2>2, GatedEnd
  <1>6. CASE \/ effect = Kind("call", "frame", "one", "one")
             \/ effect = Kind("ask", "frame", "one", "one")
    <2>1. Plain /\ effect.does # "move" /\ a.s.sum = a.w.sum
      BY <1>1, <1>6 DEF Plain, Alike, SameSum, Promoted, Begun
    <2> QED BY <1>2, <1>4, <2>1
  <1>7. CASE \/ effect = Kind("call", "tick", "one", "factor")
             \/ effect = Kind("call", "tick", "one", "speed")
    <2>1. Plain /\ effect.does # "move" /\ SpreadFrom(a, a.f)
      BY <1>1, <1>7 DEF Plain, Alike
    <2> QED BY <1>2, <1>3, <2>1, SpreadEnd
  <1>8. CASE effect = Kind("fresh", "aged", "one", "factor")
    <2>1. Plain /\ effect.does # "move" /\ Aged(a)
      BY <1>1, <1>8 DEF Plain, Alike
    <2> QED BY <1>2, <2>1, AgedEnd
  <1>9. CASE effect = Kind("hit", "moved", "one", "one")
    <2>1. Plain /\ effect.does # "move" /\ a.s.sum = a.w.sum
      BY <1>1, <1>9 DEF Plain, Alike, HitsMoved
    <2> QED BY <1>2, <1>4, <2>1
  <1>10. CASE effect = Kind("clock", "frame", "speed", "logical")
    <2>1. effect.does = "clock" /\ a.s.sum = a.w.sum /\ a.s.now = a.w.now
      BY <1>1, <1>10 DEF Alike, Clocks
    <2>2. Distance(Elapsed(a.s), Elapsed(a.w)) < One
      BY <1>3, <2>1 DEF Elapsed, Distance
    <2> QED BY <1>4, <2>1, <2>2
  <1>11. CASE effect = Kind("move", "tick", "speed", "speed")
    <2>1. Plain /\ effect.does = "move" /\ Moves(a)
      BY <1>1, <1>11 DEF Plain, Alike
    <2> QED BY <1>2, <2>1, MovesEnd
  <1>12. CASE SetBack
    <2>1. effect.does # "move" /\ Jumps(a)
      BY <1>12, BackFacts DEF Alike
    <2> QED BY <1>12, <2>1, JumpsEnd
  <1>13. CASE \/ effect = Kind("nth", "frame", "one", "one")
              \/ effect = Kind("hit", "whole", "one", "one")
    BY <1>1, <1>13 DEF AskedOnFrames
  <1> QED BY <1>5, <1>6, <1>7, <1>8, <1>9, <1>10, <1>11, <1>12, <1>13 DEF Kinds, SetBack

\* A bullet's delay.
LEMMA DelayEnd ==
    ASSUME NEW a \in Pairs, AtEnd(a), effect = Kind("ask", "frame", "one", "one"), Alike(a)
    PROVE  /\ a.even =>
                /\ Delay(a.w) <= Delay(a.s) /\ Delay(a.s) <= Delay(a.w) + One
                /\ ~a.cut => Delay(a.s) = Delay(a.w)
                /\ ~a.slow => Delay(a.s) - Delay(a.w) \in {0, One}
           /\ ~a.slow => Distance(Delay(a.s), Delay(a.w)) < 2 * One
  <1>1. Timed(a) /\ Begun(a) /\ BegunByFrames(a) /\ BegunAtSpeed(a)
    BY KindIs DEF Alike, Plain, Promoted
  <1>2. /\ a.f \in Nat \ {0} /\ One \in Nat \ {0} /\ Full \in Nat \ {0} /\ One * a.f \in Nat
        /\ Cycle \in Nat \ {0} /\ One * Cycle \in Nat
        /\ a.s.now \in Nat /\ a.w.now \in Nat /\ a.s.mark \in Int /\ a.w.mark \in Int
        /\ a.s.mark <= a.s.now /\ a.w.mark <= a.w.now
    <2>1. /\ a.f \in Nat \ {0} /\ One \in Nat \ {0} /\ Full \in Nat \ {0} /\ One * a.f \in Nat
          /\ Cycle \in Nat \ {0} /\ a.s.mark \in Int /\ a.w.mark \in Int
      BY EndIs, PairIs, SystemClock
    <2>2. One * Cycle \in Nat
      BY <2>1, MulNat
    <2> QED BY <1>1, <2>1, <2>2 DEF Begun
  <1>3. /\ Delay(a.s) = IF a.s.mark = -1 THEN 0 ELSE a.s.now - a.s.mark
        /\ Delay(a.w) = IF a.f <= Cycle THEN 0 ELSE a.w.now - a.w.mark
    BY <1>1, <1>2 DEF Begun, Delay
  <1>4. ASSUME a.even
        PROVE  /\ Delay(a.w) <= Delay(a.s) /\ Delay(a.s) <= Delay(a.w) + One
               /\ ~a.cut => Delay(a.s) = Delay(a.w)
    <2>1. a.s.now = a.w.now
      BY <1>1, <1>4, TimersEnd
    <2>2. /\ a.f = Cycle /\ a.s.mark # -1 => a.s.mark \in a.w.now - One .. a.w.now
          /\ a.f > Cycle => a.s.mark \in a.w.mark - One .. a.w.mark
          /\ ~a.cut => a.s.mark = a.w.mark
      BY <1>1, <1>4 DEF BegunByFrames
    <2>3. CASE a.f > Cycle
      <3>1. a.s.mark # -1
        BY <1>1, <2>3 DEF Begun
      <3> QED BY <1>2, <1>3, <2>1, <2>2, <2>3, <3>1
    <2>4. CASE a.f <= Cycle
      <3>1. a.w.mark = -1 /\ (a.f < Cycle => a.s.mark = -1) /\ Delay(a.w) = 0
        BY <1>1, <1>3, <2>4 DEF Begun
      <3>2. CASE a.s.mark = -1
        BY <1>2, <1>3, <3>1, <3>2
      <3>3. CASE a.s.mark # -1
        <4>1. a.f = Cycle /\ a.cut
          BY <1>2, <2>2, <2>4, <3>1, <3>3
        <4>2. a.w.now - One <= a.s.mark /\ a.s.mark <= a.w.now
          BY <1>2, <2>2, <3>3, <4>1
        <4>3. Delay(a.s) = a.w.now - a.s.mark
          BY <1>3, <2>1, <3>3
        <4> QED BY <1>2, <3>1, <4>1, <4>2, <4>3
      <3> QED BY <3>2, <3>3
    <2> QED BY <1>2, <2>3, <2>4
  <1>5. ASSUME ~a.slow
        PROVE  /\ a.even => Delay(a.s) - Delay(a.w) \in {0, One}
               /\ Distance(Delay(a.s), Delay(a.w)) < 2 * One
    <2>1. a.w.now = One * a.f /\ (a.f > Cycle => a.w.mark = One * Cycle)
      BY <1>1, <1>5 DEF Timed, BegunAtSpeed
    <2>2. CASE a.s.mark = -1
      <3>1. a.f <= Cycle
        BY <1>1, <1>2, <2>2 DEF Begun
      <3>2. Delay(a.s) = 0 /\ Delay(a.w) = 0
        BY <1>3, <2>2, <3>1
      <3> QED BY <1>2, <3>2, NotFar
    <2>3. CASE a.s.mark # -1
      <3>1. PICK k \in {0, 1} : Lagging(a, a.s.now - a.s.mark, a.f - Cycle + k)
        BY <1>1, <1>5, <2>3 DEF BegunAtSpeed
      <3>2. a.f >= Cycle
        BY <1>1, <1>2, <2>3 DEF Begun
      <3>3. PICK n \in Nat : n = a.f - Cycle
        BY <1>2, <3>2
      <3>4. /\ One * n = One * a.f - One * Cycle /\ One * n \in Nat
            /\ One * (n + k) = IF k = 0 THEN One * n ELSE One * n + One
            /\ n + k \in Nat
        BY <1>2, <3>3
      <3>5. PICK t \in Int : t = a.s.now - a.s.mark
        BY <1>2
      <3>6. /\ One * (n + k) - One + Full <= t /\ t <= One * (n + k) + One - Full
            /\ a.even => t = One * (n + k)
        BY <3>1, <3>3, <3>4, <3>5, LagEnd
      <3>7. Delay(a.s) = t
        BY <1>3, <2>3, <3>5
      <3>8. Delay(a.w) = One * n
        <4>1. CASE a.f > Cycle
          BY <1>2, <1>3, <2>1, <3>4, <4>1
        <4>2. CASE a.f = Cycle
          <5>1. n = 0 /\ One * 0 = 0
            BY <1>2, <3>3, <4>2
          <5> QED BY <1>2, <1>3, <4>2, <5>1
        <4> QED BY <1>2, <3>2, <4>1, <4>2
      <3>9. a.even => t - One * n \in {0, One}
        BY <1>2, <3>4, <3>6
      <3>10. t - One * n < 2 * One /\ One * n - t < 2 * One
        BY <1>2, <3>4, <3>6
      <3>11. Distance(t, One * n) < 2 * One
        BY <1>2, <3>4, <3>10, NotFar
      <3> QED BY <3>7, <3>8, <3>9, <3>11
    <2> QED BY <2>2, <2>3
  <1> QED BY <1>4, <1>5

LEMMA EndInStep == StepInv => InStep
  <1> SUFFICES ASSUME StepInv PROVE InStep
    OBVIOUS
  <1>1. SystemType /\ Alike(PairNow) /\ effect \in Kinds
    BY DEF StepInv, SpeedInv, SystemType
  <1>2. /\ PairNow \in Pairs /\ PairNow.s = sliced /\ PairNow.w = whole /\ PairNow.f = frames
        /\ (PairNow.slow <=> slowed) /\ (PairNow.even <=> Even)
        /\ (PairNow.cut <=> tickRate # Fps)
    BY <1>1, PairNowIs DEF PairFacts
  <1>3. AtFrameEnd => AtEnd(PairNow)
    BY <1>1, <1>2, PlaceNow, TickFacts DEF AtFrameEnd, AtEnd
  <1>4. SlowedApart <=> PairNow.slow /\ ByTheTimer
    BY <1>2 DEF SlowedApart, ByTheTimer
  <1>5. SameWhereEven
    BY <1>1, <1>2, <1>3, <1>4, SameEnd DEF SameWhereEven
  <1>6. HeldToFrames => sliced.sum = whole.sum
    BY <1>1, <1>2, <1>4, HeldEnd DEF HeldToFrames
  <1>7. AtFrameEnd /\ ~slowed /\ ~AskedOnFrames =>
          /\ Distance(sliced.sum, whole.sum) <= IF effect.does = "move" THEN Velocity ELSE One
          /\ Distance(Elapsed(sliced), Elapsed(whole)) < One
    BY <1>1, <1>2, <1>3, NearEnd
  <1>8. StartsWithAFrame
    <2> SUFFICES ASSUME AtFrameEnd, effect.does = "ask"
                 PROVE  /\ tickRate = Fps => Delay(sliced) = Delay(whole)
                        /\ Even => /\ Delay(whole) <= Delay(sliced)
                                   /\ Delay(sliced) <= Delay(whole) + One
                        /\ Even /\ ~slowed => Delay(sliced) - Delay(whole) \in {0, One}
                        /\ ~slowed => Distance(Delay(sliced), Delay(whole)) < 2 * One
      BY DEF StartsWithAFrame
    <2>1. effect = Kind("ask", "frame", "one", "one")
      BY <1>1 DEF Kinds, Kind
    <2>2. tickRate = Fps => Even
      <3>1. Fps \in Nat \ {0}
        BY Period
      <3>2. Fps % Fps = 0
        BY <3>1
      <3> QED BY <3>2 DEF Even
    <2> QED BY <1>1, <1>2, <1>3, <2>1, <2>2, DelayEnd
  <1> QED BY <1>5, <1>6, <1>7, <1>8 DEF InStep, NeverAFrameAway

\* Every site of every game keeps in step with the unmodified game at every rate,
\* whatever an object's life, its script's speeds and the pauses: the same at each
\* frame's end where the ticks add up to frames, never a frame away where they do
\* not, and what is held to frames exactly the game's (the patches of th10.c to
\* th20.c, site_helpers.c).  Only a promoted bullet's delay may be ahead, by the frame
\* that has been measured and not explained; it begins on a frame's tick all the same.
THEOREM StaysInStep == SystemSpec => []InStep
  BY EndInStep, StepInvariance, PTL

-------------------------------------------------------------------------------
(* TH08's field: the constants and the ticks. *)

LEMMA FieldBase ==
    /\ Parts \in Nat \ {0} /\ UnitsPerFrame \in Nat \ {0} /\ OneFrame \in Nat \ {0}
    /\ OneFrame = Parts * UnitsPerFrame /\ Pixel \in Nat \ {0}
    /\ FieldRates \subseteq Rates /\ Multipliers \subseteq 1 .. Parts /\ Graces \subseteq Nat
    /\ Top \in Nat \ {0} /\ Edge \in Nat \ {0} /\ SpawnFrames \in Nat \ {0}
    /\ Every \in Nat \ {0} /\ Lifetime \in Nat \ {0}
  <1>1. Parts * UnitsPerFrame \in Nat \ {0}
    BY FieldConstants, Period
  <1> QED BY <1>1, FieldConstants, Period DEF OneFrame, Pixel

\* A tick of the field: its units, where the next starts, and which is a frame's last.
LEMMA FieldTicks ==
    ASSUME fieldRate \in FieldRates, NEW t \in 0 .. fieldRate - 1
    PROVE  /\ After(t) \in 0 .. fieldRate - 1 /\ UnitsAt(t) \in 1 .. UnitsPerFrame
           /\ IsFrameTick(t) => Past(t, fieldRate) \in 0 .. UnitsPerFrame - 1
           /\ ~IsFrameTick(t) => Past(t, fieldRate) \in -UnitsPerFrame .. -1
           /\ Past(After(t), fieldRate) = Past(t, fieldRate) + UnitsAt(t)
                                          - (IF IsFrameTick(t) THEN UnitsPerFrame ELSE 0)
           /\ IsLast(t) <=> Past(After(t), fieldRate) >= 0
           /\ EvenField /\ IsFrameTick(t) => Past(t, fieldRate) = 0
  <1> DEFINE R == fieldRate
             s == Start(t, R)
             U == UnitsPerFrame
  <1>1. R \in Rates /\ R \in Nat \ {0} /\ t \in Nat /\ U \in Nat \ {0}
    BY FieldBase, Period
  <1>2. IsFrameTick(t) <=> OnTick(t, R)
    BY DEF IsFrameTick, OnTick
  <1>3. UnitsAt(t) = Start(t + 1, R) - s /\ After(t) = (t + 1) % R
    BY DEF UnitsAt, After
  <1>4. s \in Nat /\ s = (s \div U) * U + (s % U) /\ s \div U \in Nat /\ s % U \in 0 .. U - 1
    <2>1. s \in Nat
      BY <1>1, StartIs
    <2> QED BY <1>1, <2>1, DivMod
  <1>5. Place(t, R) = s % U
    <2>1. Place(t, R) = s - U * (s \div U)
      BY DEF Place, FrameAt
    <2> HIDE DEF s, U
    <2>2. U * (s \div U) = (s \div U) * U /\ (s \div U) * U \in Nat
      BY <1>1, <1>4
    <2> QED BY <1>4, <2>1, <2>2
  <1>6. IsLast(t) <=> Place(t, R) + UnitsAt(t) >= U
    BY <1>5 DEF IsLast
  <1>7. UnitsAt(t) \in 1 .. U
    BY <1>1, <1>3, TickLength
  <1>8. /\ Past(t, R) \in Int
        /\ OnTick(t, R) => Past(t, R) \in 0 .. U - 1
        /\ ~OnTick(t, R) => Past(t, R) \in -U .. -1
    BY <1>1, PastBounds
  <1>9. After(t) \in 0 .. R - 1 /\ Past(After(t), R) = Past(t, R) + UnitsAt(t)
                                                       - (IF OnTick(t, R) THEN U ELSE 0)
    BY <1>1, <1>3, NextPast
  <1>10. Past(t, R) = IF OnTick(t, R) THEN Place(t, R) ELSE Place(t, R) - U
    BY DEF Past
  <1>11. EvenField /\ OnTick(t, R) => Past(t, R) = 0
    BY <1>1, EvenTicks DEF EvenField
  <1> HIDE DEF R, s, U
  <1>12. IsLast(t) <=> Past(After(t), R) >= 0
    BY <1>1, <1>4, <1>5, <1>6, <1>7, <1>9, <1>10
  <1> QED BY <1>2, <1>7, <1>8, <1>9, <1>11, <1>12 DEF R, U

-------------------------------------------------------------------------------
(* TH08's field: the inductive invariant. *)

\* Where the field's next tick starts, from the end of the last frame that has begun.
Upto == Past(After(ran), fieldRate)

FieldClock ==
    /\ fieldRate \in FieldRates /\ {ran, coming} \subseteq 0 .. fieldRate - 1
    /\ {missed, eased, bent} \subseteq BOOLEAN /\ multiplier \in 1 .. Parts /\ lived \in Nat
    /\ IF missed THEN IsFrameTick(After(ran)) ELSE coming = After(ran)
    /\ (~eased => multiplier = Parts) /\ (lived = 0 => ~eased /\ ~bent)

\* The multiples of Every from 0 to n.
Due(n) == n \div Every + 1

AnyBullet ==
    [kind : {"bullet"}, st : {"spawning", "live", "dying", "gone"}, pos : Int, vel : Int,
     grace : Nat, timer : Int, clock : Int, caught : BOOLEAN]
AnyLaser == [kind : {"laser"}, was : Int, timer : Int, grazes : Int]
AnyItem == [kind : {"item"}, pos : Int, vel : Int]
AnyPlayer == [kind : {"player"}, pos : -Pixel .. Pixel, start : -Pixel .. Pixel,
              key : {-1, 0, 1}, held : BOOLEAN]

\* The player, u units into a frame, while a key is held.
Striding(x, m, u) == x.held => x.pos = Clamped(x.start + 2 * x.key * m * u)

\* A laser x of the field and y of the stock game, p from the end of a frame.
Swept(x, y, m, p) == x.timer = y.timer + m * p

Grazing(x, y, p) ==
    \E n \in Nat :
        /\ y.timer = n * OneFrame /\ y.grazes = Due(n - 1)
        /\ x.timer - y.timer - Parts * p \in -OneFrame + 1 .. 0
        /\ x.was >= -OneFrame /\ x.timer >= 0 /\ x.timer - x.was \in 1 .. OneFrame
        /\ x.grazes = Due(x.was \div OneFrame)

\* A velocity of n pixels a frame, of which the multiplier is part.
Baked(n, m) == n * m * UnitsPerFrame

\* A bullet of n pixels a frame where no two behaviours meet one between the field's state
\* and the stock game's: state by state.
ExactForm(x, y, m, p, slow, n) ==
    \/ /\ x.st = "live" /\ y.st \in {"live", "gone"}
       /\ x.pos = y.pos + 2 * (n * m * p) /\ (slow \/ x.timer = y.timer + Parts * p)
       /\ IF p = 0 THEN y.st = "live" ELSE y.st = "gone" <=> y.grace = 0 /\ OffScreen(y)
    \/ /\ x.st = "spawning" /\ y.st = "spawning" /\ x.timer = 0 /\ y.timer = 0
       /\ x.pos = y.pos + n * m * p /\ x.clock = y.clock + m * p
       /\ slow \/ \E q \in 0 .. SpawnFrames : y.clock = q * OneFrame
    \/ /\ x.st = "spawning" /\ y.st = "gone" /\ p < 0 /\ x.caught /\ ~slow
       /\ x.timer = 0 /\ y.timer = 0 /\ x.clock >= SpawnFrames * OneFrame
       /\ x.pos = y.pos + n * m * p
    \/ /\ x.st = "dying" /\ y.st = "dying" /\ x.pos = y.pos
       /\ x.clock = y.clock + m * p /\ (slow \/ x.timer = y.timer)
    \/ /\ x.st = "gone" /\ y.st = "gone" /\ x.pos = y.pos /\ (slow \/ x.timer = y.timer)

Exact(x, y, m, p, slow) ==
    /\ x.caught = y.caught /\ x.grace = y.grace /\ x.vel = y.vel
    /\ \E n \in Nat : x.vel = Baked(n, m) /\ ExactForm(x, y, m, p, slow, n)

\* The same less than a frame off, or two: the states and the timers.
Nearby(x, y, p) ==
    \/ /\ x.st = "spawning" /\ y.st = "spawning" /\ x.caught = y.caught
       /\ x.timer = 0 /\ y.timer = 0
       /\ \E q \in 0 .. SpawnFrames : y.clock = q * OneFrame
       /\ x.clock - y.clock - Parts * p \in -OneFrame + 1 .. 0
    \/ /\ x.st = "spawning" /\ y.st = "live" /\ ~x.caught /\ x.timer = 0 /\ y.timer = 0
       /\ x.clock - (SpawnFrames + 1) * OneFrame - Parts * p \in -OneFrame + 1 .. 0
    \/ /\ x.st = "live" /\ y.st = "live"
       /\ x.timer - y.timer - Parts * p \in -2 * OneFrame + 1 .. 0
    \/ /\ x.st = "dying" /\ y.st = "dying"
       /\ x.timer - y.timer \in -2 * OneFrame + 1 .. OneFrame
    \/ x.st = "spawning" /\ y.st = "dying" /\ x.caught /\ x.timer = 0 /\ y.timer = 0

\* The field's object x and the stock game's y under multiplier m, p from the end of a
\* frame: there was slow motion, and a behaviour as a bullet went live.
Match(x, y, m, p, slow, bends) ==
    \/ x \in AnyItem /\ y = x
    \/ {x, y} \subseteq AnyPlayer /\ (EvenField => Striding(x, m, UnitsPerFrame + p))
    \/ /\ {x, y} \subseteq AnyLaser /\ (EvenField => Swept(x, y, m, p))
       /\ ~slow => Grazing(x, y, p)
    \/ /\ {x, y} \subseteq AnyBullet
       /\ EvenField /\ ~bends /\ ~(slow /\ y.caught) => Exact(x, y, m, p, slow)
       /\ ~slow /\ "gone" \notin {x.st, y.st} => Nearby(x, y, p)

FieldInv == FieldClock /\ Match(field, stock, multiplier, Upto, eased, bent)

-------------------------------------------------------------------------------
(* TH08's field: a call to a bullet. *)

AnyCall ==
    [frame : BOOLEAN, last : BOOLEAN, units : 1 .. UnitsPerFrame, multiplier : 1 .. Parts,
     pull : {0, 1}, key : {-1, 0, 1}, patched : BOOLEAN]

LEMMA CallIs ==
    ASSUME NEW c \in AnyCall
    PROVE  /\ c.units \in Nat \ {0} /\ c.units <= UnitsPerFrame /\ c.multiplier \in Nat \ {0}
           /\ c.multiplier <= Parts /\ c.frame \in BOOLEAN /\ c.last \in BOOLEAN
           /\ c.pull \in {0, 1} /\ c.key \in {-1, 0, 1}
  BY FieldBase DEF AnyCall

LEMMA DivisionIsExact ==
    ASSUME NEW a \in Nat, NEW b \in Nat \ {0}
    PROVE  (a * b) \div b = a
  <1>1. (a * b + 0) \div b = a
    BY DivModUnique
  <1>2. a * b + 0 = a * b
    OBVIOUS
  <1> QED BY <1>1, <1>2

LEMMA DivisionIsInt ==
    ASSUME NEW a \in Int, NEW b \in Nat \ {0}
    PROVE  a \div b \in Int
  OBVIOUS

\* The live state, a bullet of velocity w * c.units: v is the velocity that the
\* behaviours leave, g the grace, and the move is twice the velocity.
LEMMA LivesKeeps ==
    ASSUME NEW c \in AnyCall, NEW x \in AnyBullet
    PROVE  /\ Lives(x, c) \in AnyBullet
           /\ Lives(x, c).st \in {x.st, "gone"}
           /\ Lives(x, c).timer = x.timer /\ Lives(x, c).clock = x.clock
           /\ Lives(x, c).caught = x.caught
  <1> DEFINE y == Behaved(x, c)
             u == Unscaled(x, c)
             v == [u EXCEPT !.vel = @ + c.pull * c.multiplier * UnitsPerFrame]
             z == [y EXCEPT !.grace = IF c.frame /\ @ > 0 THEN @ - 1 ELSE @,
                            !.pos = @ + 2 * y.vel]
  <1>1. /\ x.vel * UnitsPerFrame \in Int /\ c.units \in Nat \ {0}
        /\ c.pull * c.multiplier * UnitsPerFrame \in Int /\ UnitsPerFrame \in Nat \ {0}
    BY CallIs, FieldBase DEF AnyBullet
  <1>2. u = [x EXCEPT !.vel = (x.vel * UnitsPerFrame) \div c.units]
    BY DEF Unscaled, AnyBullet
  <1>3. u \in AnyBullet /\ u.vel \in Int
    <2>1. (x.vel * UnitsPerFrame) \div c.units \in Int
      BY <1>1, DivisionIsInt
    <2> QED BY <1>2, <2>1 DEF AnyBullet
  <1>4. v = [x EXCEPT !.vel = v.vel] /\ v.vel \in Int
    <2>1. PICK k \in Int : k = c.pull * c.multiplier * UnitsPerFrame
      BY <1>1
    <2>2. u = [x EXCEPT !.vel = u.vel]
      BY <1>2 DEF AnyBullet
    <2> HIDE DEF u
    <2>3. v = [x EXCEPT !.vel = u.vel + k]
      BY <2>1, <2>2 DEF AnyBullet
    <2> QED BY <1>3, <2>1, <2>3 DEF AnyBullet
  <1>5. v.vel * c.units \in Int /\ (v.vel * c.units) \div UnitsPerFrame \in Int
    BY <1>1, <1>4, DivisionIsInt
  <1>6. Scaled(v, c) = [x EXCEPT !.vel = (v.vel * c.units) \div UnitsPerFrame]
    BY <1>4 DEF Scaled, AnyBullet
  <1>7. y = IF c.frame THEN Scaled(v, c) ELSE x
    BY DEF Behaved
  <1>8. y = [x EXCEPT !.vel = y.vel] /\ y.vel \in Int
    BY <1>5, <1>6, <1>7 DEF AnyBullet
  <1> HIDE DEF y, u, v
  <1>9. z = [x EXCEPT !.vel = y.vel, !.pos = x.pos + 2 * y.vel,
                      !.grace = IF c.frame /\ x.grace > 0 THEN x.grace - 1 ELSE x.grace]
    BY <1>8 DEF AnyBullet
  <1>10. z \in AnyBullet /\ z.st = x.st /\ z.timer = x.timer /\ z.clock = x.clock
         /\ z.caught = x.caught
    <2>1. x.pos + 2 * y.vel \in Int
          /\ (IF c.frame /\ x.grace > 0 THEN x.grace - 1 ELSE x.grace) \in Nat
      BY <1>8 DEF AnyBullet
    <2> QED BY <1>8, <1>9, <2>1 DEF AnyBullet
  <1>11. Lives(x, c) = IF BoundsNow(c) /\ z.grace = 0 /\ OffScreen(z)
                       THEN [z EXCEPT !.st = "gone"] ELSE z
    BY DEF Lives, y
  <1> HIDE DEF z
  <1> QED BY <1>10, <1>11 DEF AnyBullet

\* A velocity of w in parts of c.units, the velocity that the behaviours leave, and
\* the grace.
Speed(x, w, u) == w \in Nat /\ x.vel = w * u
Pulled(w, c) == w + (IF c.frame THEN c.pull * c.multiplier ELSE 0)
GraceLeft(x, c) == IF c.frame /\ x.grace > 0 THEN x.grace - 1 ELSE x.grace
Outside(e) == e < 0 \/ e > Edge * Pixel

LEMMA LivesMoves ==
    ASSUME NEW c \in AnyCall, NEW x \in AnyBullet, NEW w, Speed(x, w, c.units)
    PROVE  /\ Pulled(w, c) \in Nat /\ GraceLeft(x, c) \in Nat
           /\ Lives(x, c).vel = Pulled(w, c) * c.units /\ Lives(x, c).grace = GraceLeft(x, c)
           /\ Lives(x, c).pos = x.pos + 2 * (Pulled(w, c) * c.units)
           /\ Lives(x, c).st =
                IF /\ c.last /\ GraceLeft(x, c) = 0
                   /\ Outside(x.pos + 2 * (Pulled(w, c) * c.units))
                THEN "gone" ELSE x.st
  <1> DEFINE v == Pulled(w, c)
             g == GraceLeft(x, c)
             e == x.pos + 2 * (v * c.units)
             y == Behaved(x, c)
             U == UnitsPerFrame
             z == [y EXCEPT !.grace = IF c.frame /\ @ > 0 THEN @ - 1 ELSE @,
                            !.pos = @ + 2 * y.vel]
  <1>1. c.units \in Nat \ {0} /\ U \in Nat \ {0} /\ c.multiplier \in Nat /\ c.pull \in {0, 1}
    BY CallIs, FieldBase
  <1>2. /\ v \in Nat /\ v = w + (IF c.frame THEN c.pull * c.multiplier ELSE 0) /\ e \in Int
        /\ g \in Nat /\ g = (IF c.frame /\ x.grace > 0 THEN x.grace - 1 ELSE x.grace)
        /\ w \in Nat /\ x.vel = w * c.units /\ e = x.pos + 2 * (v * c.units)
    <2>1. w \in Nat /\ x.vel = w * c.units
      BY DEF Speed
    <2>2. v \in Nat /\ v = w + (IF c.frame THEN c.pull * c.multiplier ELSE 0)
      BY <1>1, <2>1 DEF Pulled
    <2>3. g \in Nat /\ g = (IF c.frame /\ x.grace > 0 THEN x.grace - 1 ELSE x.grace)
      BY DEF GraceLeft, AnyBullet
    <2> HIDE DEF v
    <2>4. x.pos \in Int /\ v * c.units \in Nat
      BY <1>1, <2>2 DEF AnyBullet
    <2> QED BY <2>1, <2>2, <2>3, <2>4
  <1> HIDE DEF v, g, e
  <1>3. y = [x EXCEPT !.vel = v * c.units]
    <2>1. CASE ~c.frame
      BY <1>2, <2>1 DEF Behaved, AnyBullet
    <2>2. CASE c.frame
      <3> DEFINE u == Unscaled(x, c)
                 s == [u EXCEPT !.vel = @ + c.pull * c.multiplier * U]
      <3>1. (w * c.units) * U = (w * U) * c.units /\ w * U \in Nat
        BY <1>2, <1>1
      <3>2. (x.vel * U) \div c.units = w * U
        BY <1>2, <1>1, <3>1, DivisionIsExact
      <3>3. u = [x EXCEPT !.vel = w * U]
        BY <3>2 DEF Unscaled, AnyBullet
      <3>4. w * U + c.pull * c.multiplier * U = v * U
        <4>1. PICK k \in Nat : k = c.pull * c.multiplier
          BY <1>1
        <4>2. v = w + k
          BY <1>2, <2>2, <4>1
        <4>3. (w + k) * U = w * U + k * U
          BY <1>2, <1>1
        <4> QED BY <4>1, <4>2, <4>3
      <3>5. s = [x EXCEPT !.vel = v * U]
        BY <3>3, <3>4 DEF AnyBullet
      <3>6. (v * U) * c.units = (v * c.units) * U /\ v * c.units \in Nat
        BY <1>2, <1>1
      <3>7. ((v * U) * c.units) \div U = v * c.units
        BY <1>2, <1>1, <3>6, DivisionIsExact
      <3> HIDE DEF u
      <3>8. Scaled(s, c) = [x EXCEPT !.vel = v * c.units]
        BY <3>5, <3>7 DEF Scaled, AnyBullet
      <3> QED BY <2>2, <3>8 DEF Behaved, u
    <2> QED BY <2>1, <2>2, CallIs
  <1> HIDE DEF y
  <1>4. z = [x EXCEPT !.vel = v * c.units, !.grace = g, !.pos = e]
    BY <1>2, <1>3 DEF AnyBullet
  <1>5. Lives(x, c) = IF c.last /\ z.grace = 0 /\ OffScreen(z)
                      THEN [z EXCEPT !.st = "gone"] ELSE z
    BY DEF Lives, y, BoundsNow
  <1>6. z.vel = v * c.units /\ z.grace = g /\ z.pos = e /\ z.st = x.st
    BY <1>4 DEF AnyBullet
  <1>7. [z EXCEPT !.st = "gone"].vel = z.vel /\ [z EXCEPT !.st = "gone"].grace = z.grace
        /\ [z EXCEPT !.st = "gone"].pos = z.pos /\ [z EXCEPT !.st = "gone"].st = "gone"
    BY <1>4 DEF AnyBullet
  <1> HIDE DEF z
  <1> QED BY <1>2, <1>5, <1>6, <1>7 DEF OffScreen, Outside, v, g, e

\* What a call does to a bullet's state, its animation's clock and its timer.
LEMMA PassedKeeps ==
    ASSUME NEW c \in AnyCall, NEW x \in AnyBullet
    PROVE  /\ Passed(x, c) \in AnyBullet /\ Passed(x, c).caught = x.caught
           /\ x.st = "spawning" /\ ~Finished(x, c) =>
                /\ Passed(x, c).st = "spawning" /\ Passed(x, c).timer = x.timer
                /\ Passed(x, c).clock = x.clock + c.multiplier * c.units
           /\ x.st = "spawning" /\ Finished(x, c) /\ x.caught =>
                Passed(x, c).st = "gone" /\ Passed(x, c).timer = x.timer
           /\ x.st = "spawning" /\ Finished(x, c) /\ ~x.caught =>
                /\ Passed(x, c).st \in {"live", "gone"}
                /\ Passed(x, c).timer =
                     IF /\ Passed(x, c).st = "live" /\ c.units < UnitsPerFrame
                        /\ x.timer = 0
                     THEN -(UnitsPerFrame - c.units) * Parts ELSE x.timer
           /\ x.st = "live" => /\ Passed(x, c).st \in {"live", "gone"}
                               /\ Passed(x, c).timer = x.timer + c.multiplier * c.units
           /\ x.st = "dying" => /\ Passed(x, c).timer = x.timer
                                /\ IF Finished(x, c) THEN Passed(x, c).st = "gone"
                                   ELSE /\ Passed(x, c).st = "dying"
                                        /\ Passed(x, c).clock = x.clock + c.multiplier * c.units
           /\ x.st = "gone" => Passed(x, c).st = "gone" /\ Passed(x, c).timer = x.timer
  <1> DEFINE U == UnitsPerFrame
             s == Scaled(x, c)
             a == Updated(s, c)
             y == Unscaled(a, c)
             r == U - c.units
             z == MadeUp(y, c)
  <1>1. /\ c.units \in Nat \ {0} /\ U \in Nat \ {0} /\ c.units <= U /\ Parts \in Nat \ {0}
        /\ c.multiplier \in Nat \ {0}
    BY CallIs, FieldBase
  <1>2. /\ s \in AnyBullet /\ s.st = x.st /\ s.timer = x.timer /\ s.clock = x.clock
        /\ s.caught = x.caught /\ s.pos = x.pos
    <2>1. x.vel * c.units \in Int
      BY <1>1 DEF AnyBullet
    <2>2. (x.vel * c.units) \div U \in Int
      BY <1>1, <2>1, DivisionIsInt
    <2>3. s = [x EXCEPT !.vel = (x.vel * c.units) \div U]
      BY DEF Scaled, AnyBullet
    <2> QED BY <2>2, <2>3 DEF AnyBullet
  <1>3. Finished(s, c) <=> Finished(x, c)
    BY <1>2 DEF Finished
  <1> HIDE DEF s
  <1> DEFINE b == [s EXCEPT !.pos = @ + s.vel]
             l == [b EXCEPT !.st = "live"]
             k == c.multiplier * c.units
  <1>4. b \in AnyBullet /\ l \in AnyBullet /\ l.timer = x.timer /\ l.caught = x.caught
        /\ b.st = x.st /\ b.timer = x.timer /\ b.clock = x.clock /\ b.caught = x.caught
        /\ l.st = "live" /\ k \in Int
    <2>1. k \in Int
      BY <1>1
    <2>2. b = [s EXCEPT !.pos = s.pos + s.vel] /\ s.pos + s.vel \in Int
      BY <1>2 DEF AnyBullet
    <2>3. b \in AnyBullet /\ b.st = x.st /\ b.timer = x.timer /\ b.clock = x.clock
          /\ b.caught = x.caught
      BY <1>2, <2>2 DEF AnyBullet
    <2> HIDE DEF b, k
    <2> QED BY <2>1, <2>3 DEF AnyBullet
  <1>5. /\ a \in AnyBullet /\ a.caught = x.caught
        /\ x.st = "spawning" /\ ~Finished(x, c) =>
             a.st = "spawning" /\ a.timer = x.timer /\ a.clock = x.clock + k
        /\ x.st = "spawning" /\ Finished(x, c) /\ x.caught =>
             a.st = "gone" /\ a.timer = x.timer
        /\ x.st = "spawning" /\ Finished(x, c) /\ ~x.caught =>
             a.st \in {"live", "gone"} /\ a.timer = x.timer
        /\ x.st = "live" => a.st \in {"live", "gone"} /\ a.timer = x.timer + k
        /\ x.st = "dying" /\ ~Finished(x, c) =>
             a.st = "dying" /\ a.timer = x.timer /\ a.clock = x.clock + k
        /\ x.st = "dying" /\ Finished(x, c) => a.st = "gone" /\ a.timer = x.timer
        /\ x.st = "gone" => a.st = "gone" /\ a.timer = x.timer
    <2>1. CASE x.st = "spawning" /\ ~Finished(x, c)
      <3>1. a = RunClock(b, c)
        BY <1>2, <1>3, <2>1 DEF Updated, Spawns
      <3>2. a = [b EXCEPT !.clock = @ + k]
        BY <3>1 DEF RunClock
      <3> HIDE DEF a, b, k
      <3> QED BY <1>4, <2>1, <3>2 DEF AnyBullet
    <2>2. CASE x.st = "spawning" /\ Finished(x, c) /\ x.caught
      <3>1. a = [b EXCEPT !.st = "gone"]
        BY <1>2, <1>3, <2>2 DEF Updated, Spawns
      <3> HIDE DEF a, b, k
      <3> QED BY <1>4, <2>2, <3>1 DEF AnyBullet
    <2>3. CASE x.st = "spawning" /\ Finished(x, c) /\ ~x.caught
      <3>1. a = Lives(l, c)
        BY <1>2, <1>3, <2>3 DEF Updated, Spawns
      <3> HIDE DEF a, b, k, l
      <3> QED BY <1>4, <2>3, <3>1, LivesKeeps
    <2>4. CASE x.st = "live"
      <3>1. a = [Lives(s, c) EXCEPT !.timer = @ + k]
        BY <1>2, <2>4 DEF Updated
      <3>2. PICK q \in AnyBullet : q = Lives(s, c) /\ q.st \in {"live", "gone"}
                                   /\ q.timer = x.timer /\ q.caught = x.caught
        BY <1>2, <2>4, LivesKeeps
      <3> HIDE DEF a, b, k, l
      <3> QED BY <1>4, <2>4, <3>1, <3>2 DEF AnyBullet
    <2>5. CASE x.st = "dying" /\ ~Finished(x, c)
      <3>1. a = [s EXCEPT !.clock = @ + k]
        BY <1>2, <1>3, <2>5 DEF Updated, RunClock
      <3> HIDE DEF a, b, k, l
      <3> QED BY <1>2, <1>4, <2>5, <3>1 DEF AnyBullet
    <2>6. CASE x.st = "dying" /\ Finished(x, c)
      <3>1. a = [s EXCEPT !.st = "gone"]
        BY <1>2, <1>3, <2>6 DEF Updated
      <3> HIDE DEF a, b, k, l
      <3> QED BY <1>2, <2>6, <3>1 DEF AnyBullet
    <2>7. CASE x.st = "gone"
      <3>1. a = s
        BY <1>2, <2>7 DEF Updated
      <3> HIDE DEF a, b, k, l
      <3> QED BY <1>2, <2>7, <3>1
    <2>8. x.st \in {"spawning", "live", "dying", "gone"}
      BY DEF AnyBullet
    <2> HIDE DEF a, b, k, l
    <2> QED BY <2>1, <2>2, <2>3, <2>4, <2>5, <2>6, <2>7, <2>8
  <1> HIDE DEF a, b, l
  <1>6. /\ y \in AnyBullet /\ y.st = a.st /\ y.timer = a.timer /\ y.clock = a.clock
        /\ y.caught = a.caught
    <2>1. a.vel * U \in Int
      BY <1>1, <1>5 DEF AnyBullet
    <2>2. (a.vel * U) \div c.units \in Int
      BY <1>1, <2>1, DivisionIsInt
    <2>3. y = [a EXCEPT !.vel = (a.vel * U) \div c.units]
      BY DEF Unscaled, AnyBullet
    <2> QED BY <1>5, <2>2, <2>3 DEF AnyBullet
  <1> HIDE DEF y
  <1>7. /\ z \in AnyBullet /\ z.st = y.st /\ z.clock = y.clock /\ z.caught = y.caught
        /\ z.timer = IF y.timer = 0 THEN -r * Parts ELSE y.timer
    <2>1. r \in Nat /\ -r * Parts \in Int
      BY <1>1
    <2>2. y.vel * r \in Int
      BY <1>6, <2>1 DEF AnyBullet
    <2>3. (y.vel * r) \div U \in Int
      BY <1>1, <2>2, DivisionIsInt
    <2>4. PICK q \in Int : q = (y.vel * r) \div U
      BY <2>3
    <2>5. PICK e \in Int : e = y.pos + q
      BY <1>6, <2>4 DEF AnyBullet
    <2>6. PICK f \in Int : f = IF y.timer = 0 THEN -r * Parts ELSE y.timer
      BY <1>6, <2>1 DEF AnyBullet
    <2>7. z = [y EXCEPT !.pos = e, !.timer = f]
      BY <1>6, <2>4, <2>5, <2>6 DEF MadeUp, AnyBullet
    <2> HIDE DEF z, r
    <2> QED BY <1>6, <2>6, <2>7 DEF AnyBullet
  <1>8. Passed(x, c) = IF x.st = "spawning" /\ y.st = "live" /\ c.units < U THEN z ELSE y
    BY DEF Passed, y, a, s
  <1> HIDE DEF z, k, r
  <1>9. CASE ~(x.st = "spawning" /\ y.st = "live" /\ c.units < U)
    <2>1. Passed(x, c) = y
      BY <1>8, <1>9
    <2>2. x.st = "spawning" /\ y.st = "live" => ~(c.units < U)
      BY <1>9
    <2> QED BY <1>5, <1>6, <2>1, <2>2 DEF k
  <1>10. CASE x.st = "spawning" /\ y.st = "live" /\ c.units < U
    <2>1. Passed(x, c) = z
      BY <1>8, <1>10
    <2> QED BY <1>5, <1>6, <1>7, <1>10, <2>1 DEF k, r
  <1> QED BY <1>9, <1>10

\* The off-screen test of a call, at e.
Leaves(x, c, e) == c.last /\ GraceLeft(x, c) = 0 /\ Outside(e)

\* How a call moves a bullet of velocity w * UnitsPerFrame.
LEMMA PassedMoves ==
    ASSUME NEW c \in AnyCall, NEW x \in AnyBullet, NEW w, Speed(x, w, UnitsPerFrame)
    PROVE  /\ x.st = "spawning" /\ (~Finished(x, c) \/ x.caught) =>
                /\ Passed(x, c).vel = x.vel /\ Passed(x, c).grace = x.grace
                /\ Passed(x, c).pos = x.pos + w * c.units
           /\ x.st = "spawning" /\ Finished(x, c) /\ ~x.caught =>
                \E e \in Int :
                   /\ e = x.pos + w * c.units + 2 * (Pulled(w, c) * c.units)
                   /\ Passed(x, c).vel = Pulled(w, c) * UnitsPerFrame /\ Passed(x, c).grace = GraceLeft(x, c)
                   /\ Passed(x, c).st = IF Leaves(x, c, e)
                                        THEN "gone" ELSE "live"
                   /\ Passed(x, c).pos =
                        IF Passed(x, c).st = "live" /\ c.units < UnitsPerFrame
                        THEN e + Pulled(w, c) * (UnitsPerFrame - c.units) ELSE e
           /\ x.st = "live" =>
                \E e \in Int :
                   /\ e = x.pos + 2 * (Pulled(w, c) * c.units)
                   /\ Passed(x, c).vel = Pulled(w, c) * UnitsPerFrame /\ Passed(x, c).grace = GraceLeft(x, c)
                   /\ Passed(x, c).st = IF Leaves(x, c, e)
                                        THEN "gone" ELSE "live"
                   /\ Passed(x, c).pos = e
           /\ x.st \in {"dying", "gone"} =>
                /\ Passed(x, c).vel = x.vel /\ Passed(x, c).grace = x.grace
                /\ Passed(x, c).pos = x.pos
  <1> DEFINE U == UnitsPerFrame
             s == Scaled(x, c)
             a == Updated(s, c)
             y == Unscaled(a, c)
             r == U - c.units
             z == MadeUp(y, c)
             b == [s EXCEPT !.pos = @ + s.vel]
             l == [b EXCEPT !.st = "live"]
             v == Pulled(w, c)
             g == GraceLeft(x, c)
             Off(e) == Leaves(x, c, e)
  <1>1. /\ c.units \in Nat \ {0} /\ U \in Nat \ {0} /\ c.units <= U
        /\ c.multiplier \in Nat \ {0} /\ r \in Nat
        /\ w \in Nat /\ x.vel = w * U /\ v \in Nat
    <2>1. w \in Nat /\ x.vel = w * U
      BY DEF Speed
    <2> QED BY CallIs, FieldBase, <2>1 DEF Pulled
  <1> HIDE DEF v, g, Off
  <1>2. w * c.units \in Nat /\ v * c.units \in Nat /\ v * r \in Nat
    BY <1>1
  <1>3. s = [x EXCEPT !.vel = w * c.units] /\ s \in AnyBullet
    <2>1. (w * U) * c.units = (w * c.units) * U
      BY <1>1
    <2>2. (x.vel * c.units) \div U = w * c.units
      BY <1>1, <1>2, <2>1, DivisionIsExact
    <2>3. s = [x EXCEPT !.vel = w * c.units]
      BY <2>2 DEF Scaled, AnyBullet
    <2> QED BY <1>2, <2>3 DEF AnyBullet
  <1>4. Finished(s, c) <=> Finished(x, c)
    BY <1>3 DEF Finished, AnyBullet
  <1>5. /\ s.st = x.st /\ s.vel = w * c.units /\ s.grace = x.grace /\ s.pos = x.pos
        /\ s.caught = x.caught
    BY <1>3 DEF AnyBullet
  <1> HIDE DEF s
  <1>6. /\ b \in AnyBullet /\ b.vel = w * c.units /\ b.grace = x.grace
        /\ b.pos = x.pos + w * c.units /\ b.st = x.st
    <2>1. PICK q \in Int : q = s.pos + s.vel
      BY <1>3 DEF AnyBullet
    <2>2. b = [s EXCEPT !.pos = q]
      BY <2>1
    <2> HIDE DEF b
    <2> QED BY ZenonT(40), <1>3, <1>5, <2>1, <2>2 DEF AnyBullet
  <1> HIDE DEF b
  <1>7. /\ l \in AnyBullet /\ l.vel = w * c.units /\ l.grace = x.grace
        /\ l.pos = x.pos + w * c.units /\ l.st = "live"
    BY <1>6 DEF AnyBullet
  <1> HIDE DEF l
  <1>8. ASSUME NEW q \in AnyBullet, NEW h, Speed(q, h, c.units)
        PROVE  /\ Unscaled(q, c).vel = h * U /\ Unscaled(q, c).pos = q.pos
               /\ Unscaled(q, c).grace = q.grace /\ Unscaled(q, c).st = q.st
               /\ Unscaled(q, c) \in AnyBullet
    <2>1. h \in Nat /\ q.vel = h * c.units
      BY <1>8 DEF Speed
    <2>2. (h * c.units) * U = (h * U) * c.units /\ h * U \in Nat
      BY <1>1, <2>1
    <2>3. (q.vel * U) \div c.units = h * U
      BY <1>1, <2>1, <2>2, DivisionIsExact
    <2>4. Unscaled(q, c) = [q EXCEPT !.vel = h * U]
      BY <2>3 DEF Unscaled, AnyBullet
    <2> QED BY <1>8, <2>2, <2>4 DEF AnyBullet
  <1>9. Passed(x, c) = IF x.st = "spawning" /\ y.st = "live" /\ c.units < U THEN z ELSE y
    BY DEF Passed, y, a, s
  <1>10. ASSUME x.st = "spawning", ~Finished(x, c) \/ x.caught
         PROVE  /\ Passed(x, c).vel = x.vel /\ Passed(x, c).grace = x.grace
                /\ Passed(x, c).pos = x.pos + w * c.units
    <2>1. a = IF ~Finished(s, c) THEN RunClock(b, c) ELSE [b EXCEPT !.st = "gone"]
      BY <1>4, <1>5, <1>10 DEF Updated, Spawns, b
    <2>2. PICK k \in Int : k = b.clock + c.multiplier * c.units
      BY <1>1, <1>6 DEF AnyBullet
    <2>3. a = IF ~Finished(s, c) THEN [b EXCEPT !.clock = k] ELSE [b EXCEPT !.st = "gone"]
      BY <2>1, <2>2, <1>6 DEF RunClock, AnyBullet
    <2> HIDE DEF a
    <2>4. /\ a \in AnyBullet /\ a.vel = w * c.units /\ a.grace = x.grace
          /\ a.pos = x.pos + w * c.units /\ a.st \in {"spawning", "gone"}
      BY <1>6, <1>10, <2>2, <2>3 DEF AnyBullet
    <2>5. y.vel = w * U /\ y.pos = a.pos /\ y.grace = a.grace /\ y.st = a.st
      <3>1. Speed(a, w, c.units)
        BY <1>1, <2>4 DEF Speed
      <3> QED BY <1>8, <2>4, <3>1
    <2> HIDE DEF y
    <2> QED BY <1>1, <1>9, <2>4, <2>5
  <1>11. ASSUME x.st = "spawning", Finished(x, c), ~x.caught
         PROVE  \E e \in Int :
                   /\ e = x.pos + w * c.units + 2 * (v * c.units)
                   /\ Passed(x, c).vel = v * UnitsPerFrame /\ Passed(x, c).grace = g
                   /\ Passed(x, c).st = IF Off(e) THEN "gone" ELSE "live"
                   /\ Passed(x, c).pos = IF Passed(x, c).st = "live" /\ c.units < U
                                         THEN e + v * r ELSE e
    <2>1. PICK e \in Int : e = x.pos + w * c.units + 2 * (v * c.units)
      BY <1>2 DEF AnyBullet
    <2>2. e = l.pos + 2 * (v * c.units) /\ GraceLeft(l, c) = g /\ Speed(l, w, c.units)
      BY <1>1, <1>2, <1>7, <2>1 DEF AnyBullet, GraceLeft, Speed, g
    <2>3. a = Lives(l, c)
      BY <1>4, <1>5, <1>11 DEF Updated, Spawns, l, b
    <2> HIDE DEF a
    <2>4. /\ a.vel = v * c.units /\ a.grace = g /\ a.pos = e
          /\ a.st = IF Off(e) THEN "gone" ELSE "live"
      <3>1. l \in AnyBullet /\ l.vel = w * c.units /\ l.st = "live"
        BY <1>7
      <3> HIDE DEF r, y, z, v, g
      <3>2. /\ Lives(l, c).vel = v * c.units /\ Lives(l, c).grace = g /\ Lives(l, c).pos = e
            /\ Lives(l, c).st = IF c.last /\ g = 0 /\ Outside(e) THEN "gone" ELSE l.st
        BY <2>2, <3>1, LivesMoves DEF v, g
      <3> QED BY <2>3, <3>1, <3>2 DEF Off, Leaves, g
    <2>5. a \in AnyBullet
      BY <1>7, <2>3, LivesKeeps
    <2>6. /\ y.vel = v * U /\ y.pos = e /\ y.grace = g /\ y.st = a.st /\ y \in AnyBullet
      <3>1. Speed(a, v, c.units)
        BY <1>1, <2>4 DEF Speed
      <3> QED BY <1>8, <2>4, <2>5, <3>1
    <2> HIDE DEF y
    <2>7. CASE y.st = "live" /\ c.units < U
      <3>1. (v * U) * r = (v * r) * U
        BY <1>1
      <3>2. (y.vel * r) \div U = v * r
        BY <1>1, <1>2, <2>6, <3>1, DivisionIsExact
      <3>3. PICK q \in Int : q = e + v * r
        BY <1>2
      <3>4. PICK t \in Int : t = IF y.timer = 0 THEN -r * Parts ELSE y.timer
        BY <1>1, <2>6, FieldBase DEF AnyBullet
      <3>5. z = [y EXCEPT !.pos = q, !.timer = t]
        BY <2>6, <3>2, <3>3, <3>4 DEF MadeUp, AnyBullet
      <3>6. Passed(x, c) = z
        BY <1>9, <1>11, <2>7
      <3> HIDE DEF z, r, Off
      <3>7. z.vel = v * U /\ z.grace = g /\ z.st = y.st /\ z.pos = q
        BY <2>6, <3>5 DEF AnyBullet
      <3> QED BY <2>1, <2>4, <2>6, <2>7, <3>3, <3>6, <3>7
    <2>8. CASE ~(y.st = "live" /\ c.units < U)
      <3>1. Passed(x, c) = y
        BY <1>9, <2>8
      <3> HIDE DEF Off, r
      <3> QED BY <2>1, <2>4, <2>6, <2>8, <3>1
    <2> QED BY <2>7, <2>8
  <1>12. ASSUME x.st = "live"
         PROVE  \E e \in Int :
                   /\ e = x.pos + 2 * (v * c.units)
                   /\ Passed(x, c).vel = v * UnitsPerFrame /\ Passed(x, c).grace = g
                   /\ Passed(x, c).st = IF Off(e) THEN "gone" ELSE "live"
                   /\ Passed(x, c).pos = e
    <2>1. PICK e \in Int : e = x.pos + 2 * (v * c.units)
      BY <1>2 DEF AnyBullet
    <2>2. e = s.pos + 2 * (v * c.units) /\ GraceLeft(s, c) = g /\ Speed(s, w, c.units)
      BY <1>1, <1>5, <2>1 DEF GraceLeft, Speed, g
    <2>3. a = [Lives(s, c) EXCEPT !.timer = @ + c.multiplier * c.units]
      BY <1>5, <1>12 DEF Updated
    <2>4. PICK q : q = Lives(s, c) /\ q \in AnyBullet
      BY <1>3, LivesKeeps
    <2>5. q.vel = v * c.units /\ q.grace = g /\ q.pos = e /\ q.st = IF Off(e) THEN "gone" ELSE "live"
      <3> HIDE DEF a, r, y, z, v, g
      <3>1. /\ Lives(s, c).vel = v * c.units /\ Lives(s, c).grace = g /\ Lives(s, c).pos = e
            /\ Lives(s, c).st = IF c.last /\ g = 0 /\ Outside(e) THEN "gone" ELSE s.st
        BY ZenonT(40), <1>3, <1>5, <2>2, LivesMoves DEF v, g
      <3> QED BY <1>5, <1>12, <2>4, <3>1 DEF Off, Leaves, g
    <2>6. PICK k \in Int : k = q.timer + c.multiplier * c.units
      BY <1>1, <2>4 DEF AnyBullet
    <2>7. a = [q EXCEPT !.timer = k]
      BY <2>3, <2>4, <2>6 DEF AnyBullet
    <2> HIDE DEF a, Off
    <2>8. a \in AnyBullet /\ a.vel = v * c.units /\ a.grace = g /\ a.pos = e /\ a.st = q.st
      BY <2>4, <2>5, <2>6, <2>7 DEF AnyBullet
    <2>9. y.vel = v * U /\ y.pos = e /\ y.grace = g /\ y.st = a.st
      <3>1. Speed(a, v, c.units)
        BY <1>1, <2>8 DEF Speed
      <3> QED BY <1>8, <2>8, <3>1
    <2>10. Passed(x, c) = y
      BY <1>9, <1>12
    <2> HIDE DEF y
    <2> QED BY <2>1, <2>5, <2>8, <2>9, <2>10
  <1>13. ASSUME x.st \in {"dying", "gone"}
         PROVE  /\ Passed(x, c).vel = x.vel /\ Passed(x, c).grace = x.grace
                /\ Passed(x, c).pos = x.pos
    <2>1. PICK k \in Int : k = s.clock + c.multiplier * c.units
      BY <1>1, <1>3 DEF AnyBullet
    <2>2. a \in {s, [s EXCEPT !.st = "gone"], [s EXCEPT !.clock = k]}
      BY <1>3, <1>5, <1>13, <2>1 DEF Updated, RunClock, AnyBullet
    <2> HIDE DEF a
    <2>3. a \in AnyBullet /\ a.vel = w * c.units /\ a.grace = x.grace /\ a.pos = x.pos
      BY ZenonT(40), <1>3, <1>5, <2>1, <2>2 DEF AnyBullet
    <2>4. y.vel = w * U /\ y.pos = x.pos /\ y.grace = x.grace
      <3>1. Speed(a, w, c.units)
        BY <1>1, <2>3 DEF Speed
      <3> QED BY <1>8, <2>3, <3>1
    <2>5. Passed(x, c) = y
      BY <1>9, <1>13
    <2> HIDE DEF y
    <2> QED BY <1>1, <2>4, <2>5
  <1> QED BY <1>10, <1>11, <1>12, <1>13 DEF Off, r, v, g

\* The same, by the bullet's state.
LEMMA KeepsKind ==
    ASSUME NEW c \in AnyCall, NEW x \in AnyBullet
    PROVE  Passed(x, c) \in AnyBullet /\ Passed(x, c).caught = x.caught
  BY PassedKeeps

LEMMA SpawnRuns ==
    ASSUME NEW c \in AnyCall, NEW x \in AnyBullet, x.st = "spawning", ~Finished(x, c)
    PROVE  /\ Passed(x, c).st = "spawning" /\ Passed(x, c).timer = x.timer
           /\ Passed(x, c).clock = x.clock + c.multiplier * c.units
  BY PassedKeeps

LEMMA SpawnIsCaught ==
    ASSUME NEW c \in AnyCall, NEW x \in AnyBullet, x.st = "spawning", Finished(x, c), x.caught
    PROVE  Passed(x, c).st = "gone" /\ Passed(x, c).timer = x.timer
  BY PassedKeeps

LEMMA SpawnGoesLive ==
    ASSUME NEW c \in AnyCall, NEW x \in AnyBullet, x.st = "spawning", Finished(x, c), ~x.caught
    PROVE  /\ Passed(x, c).st \in {"live", "gone"}
           /\ Passed(x, c).timer =
                IF Passed(x, c).st = "live" /\ c.units < UnitsPerFrame /\ x.timer = 0
                THEN -(UnitsPerFrame - c.units) * Parts ELSE x.timer
  BY PassedKeeps

LEMMA LiveRuns ==
    ASSUME NEW c \in AnyCall, NEW x \in AnyBullet, x.st = "live"
    PROVE  /\ Passed(x, c).st \in {"live", "gone"}
           /\ Passed(x, c).timer = x.timer + c.multiplier * c.units
  BY PassedKeeps

LEMMA DyingRuns ==
    ASSUME NEW c \in AnyCall, NEW x \in AnyBullet, x.st = "dying"
    PROVE  /\ Passed(x, c).timer = x.timer
           /\ Finished(x, c) => Passed(x, c).st = "gone"
           /\ ~Finished(x, c) => /\ Passed(x, c).st = "dying"
                                 /\ Passed(x, c).clock = x.clock + c.multiplier * c.units
  BY PassedKeeps

LEMMA GoneStays ==
    ASSUME NEW c \in AnyCall, NEW x \in AnyBullet, x.st = "gone"
    PROVE  Passed(x, c).st = "gone" /\ Passed(x, c).timer = x.timer
  BY PassedKeeps

LEMMA SpawnMoves ==
    ASSUME NEW c \in AnyCall, NEW x \in AnyBullet, NEW w, Speed(x, w, UnitsPerFrame),
           x.st = "spawning", ~Finished(x, c) \/ x.caught
    PROVE  /\ Passed(x, c).vel = x.vel /\ Passed(x, c).grace = x.grace
           /\ Passed(x, c).pos = x.pos + w * c.units
  BY PassedMoves

LEMMA SpawnMovesOn ==
    ASSUME NEW c \in AnyCall, NEW x \in AnyBullet, NEW w, Speed(x, w, UnitsPerFrame),
           x.st = "spawning", Finished(x, c), ~x.caught
    PROVE  \E e \in Int :
              /\ e = x.pos + w * c.units + 2 * (Pulled(w, c) * c.units)
              /\ Passed(x, c).vel = Pulled(w, c) * UnitsPerFrame
              /\ Passed(x, c).grace = GraceLeft(x, c)
              /\ Passed(x, c).st = IF Leaves(x, c, e) THEN "gone" ELSE "live"
              /\ Passed(x, c).pos =
                   IF Passed(x, c).st = "live" /\ c.units < UnitsPerFrame
                   THEN e + Pulled(w, c) * (UnitsPerFrame - c.units) ELSE e
  BY PassedMoves

LEMMA LiveMoves ==
    ASSUME NEW c \in AnyCall, NEW x \in AnyBullet, NEW w, Speed(x, w, UnitsPerFrame),
           x.st = "live"
    PROVE  \E e \in Int :
              /\ e = x.pos + 2 * (Pulled(w, c) * c.units)
              /\ Passed(x, c).vel = Pulled(w, c) * UnitsPerFrame
              /\ Passed(x, c).grace = GraceLeft(x, c)
              /\ Passed(x, c).st = IF Leaves(x, c, e) THEN "gone" ELSE "live"
              /\ Passed(x, c).pos = e
  BY PassedMoves

LEMMA NoMore ==
    ASSUME NEW c \in AnyCall, NEW x \in AnyBullet, NEW w, Speed(x, w, UnitsPerFrame),
           x.st \in {"dying", "gone"}
    PROVE  /\ Passed(x, c).vel = x.vel /\ Passed(x, c).grace = x.grace
           /\ Passed(x, c).pos = x.pos
  BY PassedMoves

\* Whether a call ends an animation.
LEMMA FinishedIs ==
    ASSUME NEW x \in AnyBullet, NEW c \in AnyCall
    PROVE  /\ SpawnFrames * OneFrame \in Nat
           /\ Finished(x, c) <=> /\ x.clock >= SpawnFrames * OneFrame
                                 /\ IF x.st = "spawning" /\ x.caught THEN c.last ELSE c.frame
  BY FieldBase DEF Finished

\* A frame's call to a bullet at a rate that cuts every frame alike.
LEMMA ExactFrame ==
    ASSUME NEW x \in AnyBullet, NEW y \in AnyBullet, NEW c \in AnyCall, NEW d \in AnyCall,
           NEW m \in 1 .. Parts, c.multiplier = m, d.multiplier = m, c.pull = d.pull,
           c.frame, d.frame, d.last, d.units = UnitsPerFrame,
           c.last <=> c.units = UnitsPerFrame,
           NEW slow \in BOOLEAN, ~slow => m = Parts, ~(slow /\ y.caught),
           x.st = "spawning" => c.pull = 0, Exact(x, y, m, 0, slow)
    PROVE  Exact(Passed(x, c), Passed(y, d), m, c.units - UnitsPerFrame, slow)
  <1> DEFINE U == UnitsPerFrame
             u == c.units
             q == u - U
             X == Passed(x, c)
             Y == Passed(y, d)
  <1>1. PICK n \in Nat : x.vel = Baked(n, m) /\ ExactForm(x, y, m, 0, slow, n)
    BY DEF Exact, ExactForm
  <1>2. x.caught = y.caught /\ x.grace = y.grace /\ x.vel = y.vel
    BY DEF Exact
  <1>3. /\ U \in Nat \ {0} /\ u \in 1 .. U /\ q \in Int /\ m \in Nat \ {0} /\ Parts \in Nat \ {0}
        /\ c.pull \in {0, 1} /\ OneFrame = Parts * U /\ OneFrame \in Nat \ {0}
        /\ SpawnFrames \in Nat \ {0}
    BY CallIs, FieldBase
  <1>4. x.pos = y.pos /\ (slow \/ x.timer = y.timer) /\ x.st = y.st
        /\ (x.st \in {"spawning", "dying"} => x.clock = y.clock)
        /\ (x.st = "spawning" => x.timer = 0 /\ y.timer = 0)
    <2>1. n * m * 0 = 0 /\ m * 0 = 0 /\ Parts * 0 = 0
      BY <1>3
    <2> QED BY <1>1, <1>3, <2>1 DEF ExactForm, AnyBullet
  <1> DEFINE w == n * m
             k == n + c.pull
             v == k * m
  <1>5. w \in Nat /\ k \in Nat /\ v \in Nat /\ x.vel = w * U /\ Speed(x, w, U) /\ Speed(y, w, U)
    BY <1>1, <1>2, <1>3 DEF Baked, Speed
  <1>6. Pulled(w, c) = v /\ Pulled(w, d) = v /\ (x.st = "spawning" => v = w)
    <2>1. (n + c.pull) * m = n * m + c.pull * m
      BY <1>3
    <2>2. c.pull = 0 => (n + c.pull) * m = n * m
      BY <1>3
    <2> QED BY <2>1, <2>2 DEF Pulled
  <1>7. GraceLeft(x, c) = GraceLeft(y, d)
    BY <1>2 DEF GraceLeft
  <1>8. \A e : Leaves(y, d, e) <=> GraceLeft(y, d) = 0 /\ Outside(e)
    BY DEF Leaves
  <1>9. \A e : Leaves(x, c, e) <=> q = 0 /\ GraceLeft(y, d) = 0 /\ Outside(e)
    BY <1>3, <1>7 DEF Leaves
  <1>10. X \in AnyBullet /\ Y \in AnyBullet /\ X.caught = Y.caught
    BY <1>2, KeepsKind
  <1>11. SUFFICES \E h \in Nat : /\ X.grace = Y.grace /\ X.vel = Y.vel
                                 /\ X.vel = Baked(h, m) /\ ExactForm(X, Y, m, q, slow, h)
    BY <1>10 DEF Exact, ExactForm
  <1>12. /\ v * q = v * u - v * U /\ v * u \in Nat /\ v * U \in Nat
         /\ w * q = w * u - w * U /\ w * u \in Nat /\ w * U \in Nat
         /\ m * q = m * u - m * U /\ m * u \in Nat /\ m * U \in Nat
         /\ Parts * q = Parts * u - Parts * U /\ Parts * u \in Nat
         /\ -(U - u) * Parts = Parts * q /\ w * (U - u) = w * U - w * u
         /\ v * U = Baked(k, m) /\ w * U = Baked(n, m)
         /\ v * q = k * m * q /\ w * q = n * m * q
    <2>1. /\ v * q = v * u - v * U /\ v * u \in Nat /\ v * U \in Nat
      BY <1>3, <1>5
    <2>2. /\ w * q = w * u - w * U /\ w * u \in Nat /\ w * U \in Nat
          /\ w * (U - u) = w * U - w * u
      BY <1>3, <1>5
    <2>3. /\ m * q = m * u - m * U /\ m * u \in Nat /\ m * U \in Nat
      BY <1>3
    <2>4. /\ Parts * q = Parts * u - Parts * U /\ Parts * u \in Nat
          /\ -(U - u) * Parts = Parts * q
      BY <1>3
    <2> QED BY <2>1, <2>2, <2>3, <2>4 DEF Baked
  <1>13. /\ x.pos \in Int /\ y.pos \in Int /\ x.timer \in Int /\ y.timer \in Int
         /\ x.clock \in Int /\ y.clock \in Int
    BY DEF AnyBullet
  <1>14. (~slow => m = Parts) /\ u = c.units /\ q = c.units - U /\ q <= 0 /\ (u < U <=> q # 0)
         /\ d.units = U
    BY <1>3
  <1> HIDE DEF U, u, q, X, Y, v, w, k
  <1>15. CASE x.st = "live"
    <2>1. PICK e \in Int : /\ e = x.pos + 2 * (v * u)
                           /\ X.vel = v * U /\ X.grace = GraceLeft(x, c) /\ X.pos = e
                           /\ X.st = IF Leaves(x, c, e) THEN "gone" ELSE "live"
      BY <1>5, <1>6, <1>15, LiveMoves DEF X, U, u
    <2>2. PICK f \in Int : /\ f = y.pos + 2 * (v * U)
                           /\ Y.vel = v * U /\ Y.grace = GraceLeft(y, d) /\ Y.pos = f
                           /\ Y.st = IF Leaves(y, d, f) THEN "gone" ELSE "live"
      <3>1. Speed(y, w, UnitsPerFrame) /\ y.st = "live"
        BY <1>4, <1>5, <1>15 DEF U
      <3>2. \E f \in Int :
              /\ f = y.pos + 2 * (Pulled(w, d) * d.units)
              /\ Y.vel = Pulled(w, d) * UnitsPerFrame /\ Y.grace = GraceLeft(y, d) /\ Y.pos = f
              /\ Y.st = IF Leaves(y, d, f) THEN "gone" ELSE "live"
        BY <3>1, LiveMoves DEF Y
      <3> QED BY <1>6, <1>14, <3>2 DEF U
    <2>3. X.timer = x.timer + m * u /\ Y.timer = y.timer + m * U
      BY ZenonT(40), <1>4, <1>14, <1>15, LiveRuns DEF X, Y
    <2>4. slow \/ X.timer = Y.timer + Parts * q
      BY <1>4, <1>12, <1>13, <1>14, <2>3
    <2>5. e = f + 2 * (k * m * q) /\ (q = 0 => e = f)
      <3>1. e = f + 2 * (v * u) - 2 * (v * U) /\ (q = 0 => v * q = 0)
        BY <1>4, <1>5, <1>12, <1>13, <2>1, <2>2
      <3> QED BY <1>12, <2>1, <2>2, <3>1
    <2>6. OffScreen(Y) <=> Outside(f)
      BY <2>2 DEF OffScreen, Outside
    <2>7. X.grace = Y.grace /\ X.vel = Y.vel /\ X.vel = Baked(k, m)
      BY <1>7, <1>12, <2>1, <2>2
    <2>8. ExactForm(X, Y, m, q, slow, k)
      <3>1. CASE q = 0
        <4>1. X.st = Y.st /\ X.st \in {"live", "gone"} /\ X.pos = Y.pos
          BY <1>8, <1>9, <2>1, <2>2, <2>5, <3>1
        <4>2. Parts * q = 0 /\ Y.timer \in Int
          BY <1>3, <1>10, <3>1 DEF AnyBullet
        <4>3. slow \/ X.timer = Y.timer
          BY <2>4, <4>2
        <4> QED BY <2>1, <2>2, <2>4, <2>5, <3>1, <4>1, <4>3 DEF ExactForm
      <3>2. CASE q # 0
        BY <1>7, <1>8, <1>9, <2>1, <2>2, <2>4, <2>5, <2>6, <3>2 DEF ExactForm
      <3> QED BY <3>1, <3>2
    <2> QED BY <1>5, <2>7, <2>8
  <1>16. CASE x.st = "spawning"
    <2>1. SpawnFrames * OneFrame \in Nat
          /\ (Finished(y, d) <=> x.clock >= SpawnFrames * OneFrame)
          /\ (Finished(x, c) <=> x.clock >= SpawnFrames * OneFrame /\ (~x.caught \/ q = 0))
      <3>1. c.last <=> q = 0
        BY <1>3, <1>14 DEF U
      <3> QED BY <1>2, <1>4, <1>16, <3>1, FinishedIs
    <2>2. v = w
      BY <1>6, <1>16
    <2>3. CASE ~(x.clock >= SpawnFrames * OneFrame)
      <3>1. /\ X.st = "spawning" /\ X.timer = 0 /\ X.clock = x.clock + m * u
            /\ Y.st = "spawning" /\ Y.timer = 0 /\ Y.clock = y.clock + m * U
        BY ZenonT(40), <1>4, <1>14, <1>16, <2>1, <2>3, SpawnRuns DEF X, Y
      <3>2. /\ X.vel = x.vel /\ X.grace = x.grace /\ X.pos = x.pos + w * u
            /\ Y.vel = y.vel /\ Y.grace = y.grace /\ Y.pos = y.pos + w * U
        <4>1. Speed(x, w, UnitsPerFrame) /\ Speed(y, w, UnitsPerFrame)
              /\ y.st = "spawning" /\ ~Finished(x, c) /\ ~Finished(y, d)
          BY <1>4, <1>5, <1>16, <2>1, <2>3 DEF U
        <4>2. X.vel = x.vel /\ X.grace = x.grace /\ X.pos = x.pos + w * c.units
          BY <1>16, <4>1, SpawnMoves DEF X
        <4>3. Y.vel = y.vel /\ Y.grace = y.grace /\ Y.pos = y.pos + w * d.units
          BY <4>1, SpawnMoves DEF Y
        <4> QED BY <1>14, <4>2, <4>3
      <3>3. X.clock = Y.clock + m * q /\ X.pos = Y.pos + n * m * q
        BY <1>4, <1>12, <1>13, <1>16, <3>1, <3>2
      <3>4. slow \/ \E j \in 0 .. SpawnFrames : Y.clock = j * OneFrame
        <4> SUFFICES ASSUME ~slow PROVE \E j \in 0 .. SpawnFrames : Y.clock = j * OneFrame
          OBVIOUS
        <4>1. PICK i \in 0 .. SpawnFrames : y.clock = i * OneFrame
          BY <1>1, <1>4, <1>16 DEF ExactForm
        <4>2. i # SpawnFrames
          BY <1>3, <1>4, <1>16, <2>1, <2>3, <4>1
        <4>3. i + 1 \in 0 .. SpawnFrames /\ (i + 1) * OneFrame = i * OneFrame + OneFrame
          BY <1>3, <4>2
        <4>4. Y.clock = i * OneFrame + OneFrame
          BY <1>3, <1>14, <3>1, <4>1
        <4> QED BY <4>3, <4>4
      <3>5. ExactForm(X, Y, m, q, slow, n)
        BY <3>1, <3>3, <3>4 DEF ExactForm
      <3> QED BY <1>1, <1>2, <3>2, <3>5
    <2>4. CASE x.clock >= SpawnFrames * OneFrame /\ ~x.caught
      <3>1. PICK e \in Int : /\ e = x.pos + w * u + 2 * (w * u)
                             /\ X.vel = w * U /\ X.grace = GraceLeft(x, c)
                             /\ X.st = IF Leaves(x, c, e) THEN "gone" ELSE "live"
                             /\ X.pos = IF X.st = "live" /\ u < U THEN e + w * (U - u) ELSE e
        BY <1>5, <1>6, <1>16, <2>1, <2>2, <2>4, SpawnMovesOn DEF X, U, u
      <3>2. PICK f \in Int : /\ f = y.pos + w * U + 2 * (w * U)
                             /\ Y.vel = w * U /\ Y.grace = GraceLeft(y, d)
                             /\ Y.st = IF Leaves(y, d, f) THEN "gone" ELSE "live"
                             /\ Y.pos = f
        <4>1. y.st = "spawning" /\ Finished(y, d) /\ ~y.caught
          BY <1>2, <1>4, <1>16, <2>1, <2>4
        <4>2. ~(d.units < UnitsPerFrame)
          BY <1>3, <1>14 DEF U
        <4> QED BY <1>5, <1>6, <1>14, <2>2, <4>1, <4>2, SpawnMovesOn DEF Y, U
      <3>3. /\ X.timer = IF X.st = "live" /\ u < U THEN -(U - u) * Parts ELSE 0
            /\ Y.timer = 0
        <4>1. y.st = "spawning" /\ Finished(y, d) /\ ~y.caught /\ ~(d.units < UnitsPerFrame)
          BY <1>2, <1>3, <1>4, <1>14, <1>16, <2>1, <2>4 DEF U
        <4>2. Finished(x, c) /\ x.timer = 0 /\ y.timer = 0
          BY <1>4, <1>16, <2>1, <2>4
        <4> QED BY <1>16, <2>4, <4>1, <4>2, SpawnGoesLive DEF X, Y, U, u
      <3>4. X.grace = Y.grace /\ X.vel = Y.vel /\ X.vel = Baked(n, m)
        BY <1>7, <1>12, <3>1, <3>2
      <3>5. CASE q = 0
        <4>1. e = f /\ ~(u < U)
          <5>1. u = U
            BY <1>3, <3>5 DEF q
          <5> QED BY <1>3, <1>4, <3>1, <3>2, <5>1
        <4>2. X.st = Y.st /\ X.pos = Y.pos /\ X.timer = 0 /\ Y.timer = 0
          BY <1>8, <1>9, <3>1, <3>2, <3>3, <3>5, <4>1
        <4>3. n * m * q = 0 /\ Parts * q = 0 /\ Y.pos = Y.pos + 2 * (n * m * q)
          BY <1>3, <3>2, <3>5
        <4> QED BY <3>1, <3>4, <3>5, <4>2, <4>3 DEF ExactForm
      <3>6. CASE q # 0
        <4>1. X.st = "live" /\ u < U /\ X.pos = e + w * (U - u) /\ X.timer = -(U - u) * Parts
          BY <1>9, <1>14, <3>1, <3>3, <3>6
        <4>2. X.pos = Y.pos + 2 * (n * m * q)
          BY <1>4, <1>12, <1>13, <1>16, <3>1, <3>2, <4>1
        <4>3. X.timer = Y.timer + Parts * q
          <5>1. Parts * q \in Int
            BY <1>3
          <5> QED BY <1>12, <3>3, <4>1, <5>1
        <4>4. Y.st = "gone" <=> Y.grace = 0 /\ OffScreen(Y)
          BY <1>8, <3>2 DEF OffScreen, Outside
        <4>5. ExactForm(X, Y, m, q, slow, n)
          BY <3>2, <3>6, <4>1, <4>2, <4>3, <4>4 DEF ExactForm
        <4> QED BY <3>4, <4>5
      <3> QED BY <3>5, <3>6
    <2>5. CASE x.clock >= SpawnFrames * OneFrame /\ x.caught
      <3>1. ~slow
        BY <1>2, <2>5
      <3>2. y.st = "spawning" /\ Finished(y, d) /\ y.caught /\ y.timer = 0 /\ x.timer = 0
        BY <1>2, <1>4, <1>16, <2>1, <2>5
      <3>3. Y.st = "gone" /\ Y.timer = 0
        BY <3>2, SpawnIsCaught DEF Y
      <3>4. /\ X.vel = x.vel /\ X.grace = x.grace /\ X.pos = x.pos + w * u
            /\ Y.vel = y.vel /\ Y.grace = y.grace /\ Y.pos = y.pos + w * U
        BY <1>5, <1>14, <1>16, <2>5, <3>2, SpawnMoves DEF X, Y, U
      <3>5. X.pos = Y.pos + n * m * q
        BY <1>4, <1>12, <1>13, <1>16, <3>4
      <3>6. CASE q = 0
        <4>1. X.st = "gone" /\ X.timer = 0
          BY <1>16, <2>1, <2>5, <3>2, <3>6, SpawnIsCaught DEF X
        <4>2. n * m * q = 0 /\ Y.pos \in Int
          BY <1>3, <1>10, <3>6 DEF AnyBullet
        <4>3. X.pos = Y.pos
          BY <3>5, <4>2
        <4>4. ExactForm(X, Y, m, q, slow, n)
          BY <3>3, <4>1, <4>3 DEF ExactForm
        <4> QED BY <1>1, <1>2, <3>4, <4>4
      <3>7. CASE q # 0
        <4>1. X.st = "spawning" /\ X.timer = 0 /\ X.clock = x.clock + m * u
          BY <1>14, <1>16, <2>1, <2>5, <3>2, <3>7, SpawnRuns DEF X
        <4>2. X.clock >= SpawnFrames * OneFrame /\ q < 0 /\ X.caught
          <5>1. X.caught = x.caught
            BY KeepsKind DEF X
          <5> QED BY <1>12, <1>13, <1>14, <1>3, <2>1, <2>5, <3>7, <4>1, <5>1 DEF q, u, U
        <4>3. ExactForm(X, Y, m, q, slow, n)
          BY <3>1, <3>3, <3>5, <4>1, <4>2 DEF ExactForm
        <4> QED BY <1>1, <1>2, <3>4, <4>3
      <3> QED BY <3>6, <3>7
    <2> QED BY <2>3, <2>4, <2>5
  <1>17. CASE x.st = "dying"
    <2>1. /\ X.vel = x.vel /\ X.grace = x.grace /\ X.pos = x.pos
          /\ Y.vel = y.vel /\ Y.grace = y.grace /\ Y.pos = y.pos
      BY <1>4, <1>5, <1>17, NoMore DEF X, Y, U
    <2>2. Finished(x, c) <=> Finished(y, d)
      BY <1>4, <1>17, FinishedIs
    <2>3. X.timer = x.timer /\ Y.timer = y.timer
      BY <1>4, <1>17, DyingRuns DEF X, Y
    <2>4. CASE Finished(x, c)
      <3>1. X.st = "gone" /\ Y.st = "gone"
        BY <1>4, <1>17, <2>2, <2>4, DyingRuns DEF X, Y
      <3>2. ExactForm(X, Y, m, q, slow, n)
        BY <1>4, <2>1, <2>3, <3>1 DEF ExactForm
      <3> QED BY <1>1, <1>2, <2>1, <3>2
    <2>5. CASE ~Finished(x, c)
      <3>1. /\ X.st = "dying" /\ X.clock = x.clock + m * u
            /\ Y.st = "dying" /\ Y.clock = y.clock + m * U
        BY ZenonT(40), <1>4, <1>14, <1>17, <2>2, <2>5, DyingRuns DEF X, Y
      <3>2. X.clock = Y.clock + m * q
        BY <1>4, <1>12, <1>13, <1>17, <3>1
      <3>3. ExactForm(X, Y, m, q, slow, n)
        BY <1>4, <2>1, <2>3, <3>1, <3>2 DEF ExactForm
      <3> QED BY <1>1, <1>2, <2>1, <3>3
    <2> QED BY <2>4, <2>5
  <1>18. CASE x.st = "gone"
    <2>1. /\ X.vel = x.vel /\ X.grace = x.grace /\ X.pos = x.pos
          /\ Y.vel = y.vel /\ Y.grace = y.grace /\ Y.pos = y.pos
      BY <1>4, <1>5, <1>18, NoMore DEF X, Y, U
    <2>2. X.timer = x.timer /\ Y.timer = y.timer /\ X.st = "gone" /\ Y.st = "gone"
      BY <1>4, <1>18, GoneStays DEF X, Y
    <2>3. ExactForm(X, Y, m, q, slow, n)
      BY <1>4, <2>1, <2>2 DEF ExactForm
    <2> QED BY <1>1, <1>2, <2>1, <2>3
  <1>19. x.st \in {"spawning", "live", "dying", "gone"}
    BY DEF AnyBullet
  <1> QED BY <1>15, <1>16, <1>17, <1>18, <1>19

\* A call to a bullet on the ticks between.
LEMMA ExactMinor ==
    ASSUME NEW x \in AnyBullet, NEW y \in AnyBullet, NEW c \in AnyCall,
           NEW m \in 1 .. Parts, c.multiplier = m, ~c.frame,
           NEW p \in Int, p < 0, p + c.units <= 0, c.last <=> p + c.units = 0,
           NEW slow \in BOOLEAN, ~slow => m = Parts, ~(slow /\ y.caught), Exact(x, y, m, p, slow)
    PROVE  Exact(Passed(x, c), y, m, p + c.units, slow)
  <1> DEFINE U == UnitsPerFrame
             u == c.units
             q == p + u
             X == Passed(x, c)
  <1>1. PICK n \in Nat : x.vel = Baked(n, m) /\ ExactForm(x, y, m, p, slow, n)
    BY DEF Exact, ExactForm
  <1>2. x.caught = y.caught /\ x.grace = y.grace /\ x.vel = y.vel
    BY DEF Exact
  <1>3. /\ U \in Nat \ {0} /\ u \in 1 .. U /\ q \in Int /\ q <= 0 /\ m \in Nat \ {0}
        /\ Parts \in Nat \ {0} /\ OneFrame \in Nat \ {0} /\ SpawnFrames \in Nat \ {0}
        /\ u = c.units /\ (c.last <=> q = 0)
    BY CallIs, FieldBase
  <1> DEFINE w == n * m
  <1>4. w \in Nat /\ Speed(x, w, UnitsPerFrame) /\ Pulled(w, c) = w
    BY <1>1, <1>3 DEF Baked, Speed, Pulled
  <1>5. GraceLeft(x, c) = x.grace /\ \A e : Leaves(x, c, e) <=> q = 0 /\ x.grace = 0 /\ Outside(e)
    BY <1>3 DEF GraceLeft, Leaves
  <1>6. X \in AnyBullet /\ X.caught = x.caught
    BY KeepsKind
  <1>7. SUFFICES X.grace = x.grace /\ X.vel = x.vel /\ ExactForm(X, y, m, q, slow, n)
    BY <1>1, <1>2, <1>6 DEF Exact, ExactForm
  <1>8. /\ w * q = w * p + w * u /\ w * u \in Nat /\ w * p \in Int
        /\ m * q = m * p + m * u /\ m * u \in Nat /\ m * p \in Int /\ m * p < 0
        /\ Parts * q = Parts * p + Parts * u /\ Parts * u \in Nat /\ Parts * p \in Int
        /\ (q = 0 => w * q = 0 /\ Parts * q = 0) /\ w * q \in Int
        /\ w * q = n * m * q /\ w * p = n * m * p /\ w * UnitsPerFrame = Baked(n, m)
    <2>1. w * q = w * p + w * u /\ w * u \in Nat /\ w * p \in Int /\ w * q \in Int
      BY <1>3, <1>4
    <2>2. m * q = m * p + m * u /\ m * u \in Nat /\ m * p \in Int /\ m * p < 0
      BY <1>3
    <2>3. Parts * q = Parts * p + Parts * u /\ Parts * u \in Nat /\ Parts * p \in Int
      BY <1>3
    <2>4. q = 0 => w * q = 0 /\ Parts * q = 0
      BY <1>3, <1>4
    <2> QED BY <2>1, <2>2, <2>3, <2>4 DEF Baked
  <1>9. /\ x.pos \in Int /\ y.pos \in Int /\ x.timer \in Int /\ y.timer \in Int
        /\ x.clock \in Int /\ y.clock \in Int
    BY DEF AnyBullet
  <1> HIDE DEF U, u, q, X, w
  <1>10. CASE x.st = "live"
    <2>1. PICK e \in Int : /\ e = x.pos + 2 * (w * u)
                           /\ X.vel = w * UnitsPerFrame /\ X.grace = x.grace /\ X.pos = e
                           /\ X.st = IF Leaves(x, c, e) THEN "gone" ELSE "live"
      <3>1. \E e \in Int :
              /\ e = x.pos + 2 * (Pulled(w, c) * c.units)
              /\ X.vel = Pulled(w, c) * UnitsPerFrame /\ X.grace = GraceLeft(x, c) /\ X.pos = e
              /\ X.st = IF Leaves(x, c, e) THEN "gone" ELSE "live"
        BY <1>4, <1>10, LiveMoves DEF X
      <3> QED BY <1>3, <1>4, <1>5, <3>1
    <2>2. X.timer = x.timer + m * u
      BY <1>3, <1>10, LiveRuns DEF X
    <2>3. /\ y.st \in {"live", "gone"} /\ x.pos = y.pos + 2 * (w * p)
          /\ (slow \/ x.timer = y.timer + Parts * p)
          /\ (y.st = "gone" <=> y.grace = 0 /\ Outside(y.pos))
      BY <1>1, <1>8, <1>10 DEF ExactForm, OffScreen, Outside
    <2>4. e = y.pos + 2 * (w * q) /\ (slow \/ X.timer = y.timer + Parts * q)
      BY <1>3, <1>8, <1>9, <2>1, <2>2, <2>3
    <2>5. ExactForm(X, y, m, q, slow, n)
      <3>1. CASE q = 0
        <4>1. e = y.pos /\ (slow \/ X.timer = y.timer)
          <5>1. PICK a \in Int, b \in Int : a = w * q /\ b = Parts * q
            BY <1>3, <1>8
          <5>2. a = 0 /\ b = 0
            BY <1>8, <3>1, <5>1
          <5> QED BY <1>9, <2>4, <5>1, <5>2
        <4>2. X.st = y.st /\ X.st \in {"live", "gone"} /\ X.pos = y.pos
          BY <1>2, <1>5, <2>1, <2>3, <3>1, <4>1
        <4> QED BY <1>8, <2>1, <2>4, <3>1, <4>1, <4>2 DEF ExactForm
      <3>2. CASE q # 0
        <4>1. X.st = "live"
          BY <1>5, <2>1, <3>2
        <4> QED BY <1>8, <2>1, <2>3, <2>4, <3>2, <4>1 DEF ExactForm, OffScreen, Outside
      <3> QED BY <3>1, <3>2
    <2> QED BY <1>1, <1>8, <2>1, <2>5
  <1>11. CASE x.st = "spawning" /\ y.st = "spawning"
    <2>1. /\ x.timer = 0 /\ y.timer = 0 /\ x.pos = y.pos + w * p /\ x.clock = y.clock + m * p
          /\ (slow \/ \E j \in 0 .. SpawnFrames : y.clock = j * OneFrame)
      BY <1>1, <1>8, <1>11 DEF ExactForm
    <2>2. ~Finished(x, c)
      <3>1. CASE ~x.caught
        BY <1>11, <3>1, FinishedIs
      <3>2. CASE x.caught
        <4>1. PICK j \in 0 .. SpawnFrames : y.clock = j * OneFrame
          BY <1>2, <2>1, <3>2
        <4>2. j * OneFrame <= SpawnFrames * OneFrame /\ SpawnFrames * OneFrame \in Nat
          BY <1>3, MulMono
        <4>3. x.clock < SpawnFrames * OneFrame
          BY <1>8, <1>9, <2>1, <4>1, <4>2
        <4> QED BY <1>9, <4>2, <4>3, FinishedIs
      <3> QED BY <3>1, <3>2
    <2>3. X.st = "spawning" /\ X.timer = 0 /\ X.clock = x.clock + m * u
      BY <1>3, <1>11, <2>1, <2>2, SpawnRuns DEF X
    <2>4. X.vel = x.vel /\ X.grace = x.grace /\ X.pos = x.pos + w * u
      BY <1>3, <1>4, <1>11, <2>2, SpawnMoves DEF X
    <2>5. X.clock = y.clock + m * q /\ X.pos = y.pos + n * m * q
      BY <1>8, <1>9, <2>1, <2>3, <2>4
    <2> QED BY <1>11, <2>1, <2>3, <2>4, <2>5 DEF ExactForm
  <1>12. CASE x.st = "spawning" /\ y.st # "spawning"
    <2>1. /\ y.st = "gone" /\ x.caught /\ ~slow /\ x.timer = 0 /\ y.timer = 0
          /\ x.clock >= SpawnFrames * OneFrame /\ x.pos = y.pos + w * p
      BY <1>1, <1>8, <1>12 DEF ExactForm
    <2>2. X.vel = x.vel /\ X.grace = x.grace /\ X.pos = x.pos + w * u
      BY <1>3, <1>4, <1>12, <2>1, SpawnMoves DEF X
    <2>3. X.pos = y.pos + w * q
      BY <1>8, <1>9, <2>1, <2>2
    <2>4. Finished(x, c) <=> q = 0
      BY <1>3, <1>12, <2>1, FinishedIs
    <2>5. CASE q = 0
      <3>1. X.st = "gone" /\ X.timer = 0
        BY <1>12, <2>1, <2>4, <2>5, SpawnIsCaught DEF X
      <3>2. X.pos = y.pos
        BY <1>8, <1>9, <2>3, <2>5
      <3> QED BY <2>1, <2>2, <3>1, <3>2 DEF ExactForm
    <2>6. CASE q # 0
      <3>1. X.st = "spawning" /\ X.timer = 0 /\ X.clock = x.clock + m * u
        BY <1>3, <1>12, <2>1, <2>4, <2>6, SpawnRuns DEF X
      <3>2. X.clock >= SpawnFrames * OneFrame /\ q < 0
        BY <1>3, <1>8, <1>9, <2>1, <2>6, <3>1, FieldBase
      <3> QED BY <1>6, <1>8, <2>1, <2>2, <2>3, <3>1, <3>2 DEF ExactForm
    <2> QED BY <2>5, <2>6
  <1>13. CASE x.st = "dying"
    <2>1. X.vel = x.vel /\ X.grace = x.grace /\ X.pos = x.pos
      BY <1>4, <1>13, NoMore DEF X
    <2>2. ~Finished(x, c)
      BY <1>13, FinishedIs
    <2>3. X.st = "dying" /\ X.timer = x.timer /\ X.clock = x.clock + m * u
      BY <1>3, <1>13, <2>2, DyingRuns DEF X
    <2>4. /\ y.st = "dying" /\ x.pos = y.pos /\ x.clock = y.clock + m * p
          /\ (slow \/ x.timer = y.timer)
      BY <1>1, <1>13 DEF ExactForm
    <2>5. X.clock = y.clock + m * q
      BY <1>8, <1>9, <2>3, <2>4
    <2> QED BY <2>1, <2>3, <2>4, <2>5 DEF ExactForm
  <1>14. CASE x.st = "gone"
    <2>1. X.vel = x.vel /\ X.grace = x.grace /\ X.pos = x.pos
      BY <1>4, <1>14, NoMore DEF X
    <2>2. X.st = "gone" /\ X.timer = x.timer
      BY <1>14, GoneStays DEF X
    <2>3. y.st = "gone" /\ x.pos = y.pos /\ (slow \/ x.timer = y.timer)
      BY <1>1, <1>14 DEF ExactForm
    <2> QED BY <2>1, <2>2, <2>3 DEF ExactForm
  <1>15. x.st \in {"spawning", "live", "dying", "gone"}
    BY DEF AnyBullet
  <1> QED BY <1>10, <1>11, <1>12, <1>13, <1>14, <1>15

\* Parts times what is less than a frame.
LEMMA LessThanAFrame ==
    ASSUME NEW p \in 0 .. UnitsPerFrame - 1
    PROVE  Parts * p \in 0 .. OneFrame - 1
  <1>1. /\ Parts \in Nat \ {0} /\ UnitsPerFrame \in Nat \ {0} /\ OneFrame \in Nat \ {0}
        /\ OneFrame = Parts * UnitsPerFrame
    BY FieldBase
  <1>2. (p + 1) * Parts <= UnitsPerFrame * Parts /\ p \in Nat
    BY <1>1, MulMono
  <1>3. /\ (p + 1) * Parts = Parts * p + Parts /\ UnitsPerFrame * Parts = OneFrame
        /\ Parts * p \in Nat
    BY <1>1
  <1> QED BY <1>1, <1>2, <1>3

\* A frame's call to a bullet at any rate, at full speed.
LEMMA CloseFrame ==
    ASSUME NEW x \in AnyBullet, NEW y \in AnyBullet, NEW c \in AnyCall, NEW d \in AnyCall,
           c.multiplier = Parts, d.multiplier = Parts,
           c.frame, d.frame, d.last, d.units = UnitsPerFrame,
           NEW p \in 0 .. UnitsPerFrame - 1, Nearby(x, y, p),
           "gone" \notin {Passed(x, c).st, Passed(y, d).st}
    PROVE  Nearby(Passed(x, c), Passed(y, d), p + c.units - UnitsPerFrame)
  <1> DEFINE u == c.units
             r == p + u - UnitsPerFrame
             F == SpawnFrames * OneFrame
             X == Passed(x, c)
             Y == Passed(y, d)
             a == Parts * p
             b == Parts * u
             O == OneFrame
  <1>1. /\ u \in 1 .. UnitsPerFrame /\ UnitsPerFrame \in Nat \ {0} /\ Parts \in Nat \ {0}
        /\ SpawnFrames \in Nat \ {0} /\ O \in Nat \ {0} /\ O = Parts * UnitsPerFrame
    BY CallIs, FieldBase
  <1>2. /\ a \in 0 .. O - 1 /\ b \in Nat /\ Parts * r = a + b - O /\ F \in Nat
        /\ -(UnitsPerFrame - u) * Parts = b - O /\ (SpawnFrames + 1) * O = F + O
        /\ (~(u < UnitsPerFrame) => b = O)
    <2>1. a \in 0 .. O - 1
      BY LessThanAFrame
    <2>2. b \in Nat /\ Parts * r = a + b - O /\ -(UnitsPerFrame - u) * Parts = b - O
      BY <1>1
    <2>3. F \in Nat /\ (SpawnFrames + 1) * O = F + O
      BY <1>1
    <2>4. ~(u < UnitsPerFrame) => u = UnitsPerFrame
      BY <1>1
    <2> QED BY <1>1, <2>1, <2>2, <2>3, <2>4
  <1>3. X.caught = x.caught /\ Y.caught = y.caught /\ X.st # "gone" /\ Y.st # "gone"
    BY KeepsKind
  <1>4. /\ x.timer \in Int /\ y.timer \in Int /\ x.clock \in Int /\ y.clock \in Int
    BY DEF AnyBullet
  <1>5. /\ Finished(y, d) <=> y.clock >= F
        /\ Finished(x, c) <=> x.clock >= F /\ (x.st = "spawning" /\ x.caught => c.last)
    BY FinishedIs
  <1>6. u = c.units /\ O = OneFrame /\ d.multiplier * d.units = O /\ c.multiplier * c.units = b
    BY <1>1
  <1> SUFFICES Nearby(X, Y, r)
    OBVIOUS
  <1> HIDE DEF u, r, F, X, Y, a, b, O
  <1>7. CASE x.st = "spawning" /\ y.st = "spawning"
    <2>1. /\ x.caught = y.caught /\ x.timer = 0 /\ y.timer = 0
          /\ \E q \in 0 .. SpawnFrames : y.clock = q * O
          /\ x.clock - y.clock - a \in -O + 1 .. 0
      BY <1>7 DEF Nearby, a, O
    <2>2. PICK q \in 0 .. SpawnFrames : y.clock = q * O
      BY <2>1
    <2>3. CASE ~Finished(y, d)
      <3>1. q < SpawnFrames
        BY <1>1, <1>2, <1>5, <2>2, <2>3 DEF F, O
      <3>2. (q + 1) * O <= SpawnFrames * O /\ (q + 1) * O = q * O + O /\ q * O \in Nat
            /\ q + 1 \in 0 .. SpawnFrames
        BY <1>1, <3>1, MulMono
      <3>3. x.clock < F
        BY <1>1, <1>2, <1>4, <2>1, <2>2, <3>2 DEF F, O
      <3>4. X.st = "spawning" /\ X.timer = 0 /\ X.clock = x.clock + b
        BY <1>2, <1>4, <1>5, <1>6, <1>7, <2>1, <3>3, SpawnRuns DEF X
      <3>5. Y.st = "spawning" /\ Y.timer = 0 /\ Y.clock = y.clock + O
        BY <1>6, <1>7, <2>1, <2>3, SpawnRuns DEF Y
      <3>6. Y.clock = (q + 1) * O
        BY <2>2, <3>2, <3>5
      <3>7. X.clock - Y.clock - Parts * r \in -O + 1 .. 0
        BY <1>1, <1>2, <1>4, <2>1, <3>4, <3>5
      <3> QED BY <1>3, <2>1, <3>2, <3>4, <3>5, <3>6, <3>7 DEF Nearby, r, u, O
    <2>4. CASE Finished(y, d)
      <3>1. ~y.caught
        BY <1>3, <1>7, <2>4, SpawnIsCaught DEF Y
      <3>2. Y.st = "live" /\ Y.timer = 0
        BY <1>3, <1>6, <1>7, <2>1, <2>4, <3>1, FieldBase, SpawnGoesLive DEF Y
      <3>3. y.clock = F
        <4>1. q * O <= F
          BY <1>1, <2>2, MulMono DEF F, O
        <4> QED BY <1>2, <1>4, <1>5, <2>2, <2>4, <4>1
      <3>4. CASE Finished(x, c)
        <4>1. X.st = "live" /\ X.timer = IF u < UnitsPerFrame THEN b - O ELSE 0
          BY <1>2, <1>3, <1>6, <1>7, <2>1, <3>1, <3>4, SpawnGoesLive DEF X
        <4>2. X.timer - Y.timer - Parts * r \in -2 * O + 1 .. 0
          BY <1>1, <1>2, <3>2, <4>1
        <4> QED BY <3>2, <4>1, <4>2 DEF Nearby, r, u, O
      <3>5. CASE ~Finished(x, c)
        <4>1. X.st = "spawning" /\ X.timer = 0 /\ X.clock = x.clock + b
          BY <1>6, <1>7, <2>1, <3>5, SpawnRuns DEF X
        <4>2. X.clock - (SpawnFrames + 1) * O - Parts * r \in -O + 1 .. 0
          BY <1>1, <1>2, <1>4, <2>1, <3>3, <4>1
        <4> QED BY <1>3, <2>1, <3>1, <3>2, <4>1, <4>2 DEF Nearby, r, u, O
      <3> QED BY <3>4, <3>5
    <2> QED BY <2>3, <2>4
  <1>8. CASE x.st = "spawning" /\ y.st = "live"
    <2>1. /\ ~x.caught /\ x.timer = 0 /\ y.timer = 0
          /\ x.clock - (SpawnFrames + 1) * O - a \in -O + 1 .. 0
      BY <1>8 DEF Nearby, a, O
    <2>2. Finished(x, c)
      BY <1>1, <1>2, <1>4, <1>5, <2>1
    <2>3. X.st = "live" /\ X.timer = IF u < UnitsPerFrame THEN b - O ELSE 0
      BY <1>2, <1>3, <1>6, <1>8, <2>1, <2>2, SpawnGoesLive DEF X
    <2>4. Y.st = "live" /\ Y.timer = y.timer + O
      BY <1>3, <1>6, <1>8, LiveRuns DEF Y
    <2>5. X.timer - Y.timer - Parts * r \in -2 * O + 1 .. 0
      BY <1>1, <1>2, <2>1, <2>3, <2>4
    <2> QED BY <2>3, <2>4, <2>5 DEF Nearby, r, u, O
  <1>9. CASE x.st = "live"
    <2>1. y.st = "live" /\ x.timer - y.timer - a \in -2 * O + 1 .. 0
      BY <1>9 DEF Nearby, a, O
    <2>2. X.st = "live" /\ X.timer = x.timer + b
      BY <1>3, <1>6, <1>9, LiveRuns DEF X
    <2>3. Y.st = "live" /\ Y.timer = y.timer + O
      BY <1>3, <1>6, <2>1, LiveRuns DEF Y
    <2>4. X.timer - Y.timer - Parts * r \in -2 * O + 1 .. 0
      BY <1>1, <1>2, <1>4, <2>1, <2>2, <2>3
    <2> QED BY <2>2, <2>3, <2>4 DEF Nearby, r, u, O
  <1>10. CASE x.st = "dying"
    <2>1. y.st = "dying" /\ x.timer - y.timer \in -2 * O + 1 .. O
      BY <1>10 DEF Nearby, O
    <2>2. X.st = "dying" /\ X.timer = x.timer
      BY <1>3, <1>10, DyingRuns DEF X
    <2>3. Y.st = "dying" /\ Y.timer = y.timer
      BY <1>3, <2>1, DyingRuns DEF Y
    <2> QED BY <2>1, <2>2, <2>3 DEF Nearby, O
  <1>11. CASE x.st = "spawning" /\ y.st = "dying"
    <2>1. x.caught /\ x.timer = 0 /\ y.timer = 0
      BY <1>11 DEF Nearby
    <2>2. X.st = "spawning" /\ X.timer = 0
      BY <1>3, <1>11, <2>1, SpawnRuns, SpawnIsCaught DEF X
    <2>3. Y.st = "dying" /\ Y.timer = 0
      BY <1>3, <1>11, <2>1, DyingRuns DEF Y
    <2> QED BY <1>3, <2>1, <2>2, <2>3 DEF Nearby
  <1> QED BY <1>7, <1>8, <1>9, <1>10, <1>11 DEF Nearby

\* A call to a bullet on the ticks between, at full speed.
LEMMA CloseMinor ==
    ASSUME NEW x \in AnyBullet, NEW y \in AnyBullet, NEW c \in AnyCall,
           c.multiplier = Parts, ~c.frame, NEW p \in Int, Nearby(x, y, p),
           Passed(x, c).st # "gone"
    PROVE  Nearby(Passed(x, c), y, p + c.units)
  <1> DEFINE r == p + c.units
             X == Passed(x, c)
             a == Parts * p
             b == Parts * c.units
             O == OneFrame
             F == (SpawnFrames + 1) * O
  <1>1. /\ c.units \in Nat \ {0} /\ Parts \in Nat \ {0} /\ O \in Nat \ {0}
        /\ SpawnFrames \in Nat \ {0}
    BY CallIs, FieldBase
  <1>2. a \in Int /\ b \in Nat /\ Parts * r = a + b /\ F \in Nat
    BY <1>1
  <1>3. X.caught = x.caught /\ X.st # "gone"
    BY KeepsKind
  <1>4. /\ x.timer \in Int /\ y.timer \in Int /\ x.clock \in Int /\ y.clock \in Int
        /\ x.st \in {"spawning", "live", "dying", "gone"}
    BY DEF AnyBullet
  <1>5. c.multiplier * c.units = b
    OBVIOUS
  <1> SUFFICES Nearby(X, y, r)
    OBVIOUS
  <1> HIDE DEF r, X, a, b, O, F
  <1>6. CASE x.st = "spawning"
    <2>1. ~Finished(x, c)
      <3>1. CASE x.caught
        BY <1>3, <1>6, <3>1, SpawnIsCaught DEF X
      <3>2. CASE ~x.caught
        BY <1>6, <3>2, FinishedIs
      <3> QED BY <3>1, <3>2
    <2>2. X.st = "spawning" /\ X.timer = x.timer /\ X.clock = x.clock + b
      BY <1>5, <1>6, <2>1, SpawnRuns DEF X
    <2>3. CASE y.st = "spawning"
      <3>1. /\ x.caught = y.caught /\ x.timer = 0 /\ y.timer = 0
            /\ \E q \in 0 .. SpawnFrames : y.clock = q * O
            /\ x.clock - y.clock - a \in -O + 1 .. 0
        BY <1>6, <2>3 DEF Nearby, a, O
      <3>2. X.clock - y.clock - Parts * r \in -O + 1 .. 0
        BY <1>1, <1>2, <1>4, <2>2, <3>1
      <3> QED BY <1>3, <2>2, <2>3, <3>1, <3>2 DEF Nearby, r, O
    <2>4. CASE y.st = "live"
      <3>1. /\ ~x.caught /\ x.timer = 0 /\ y.timer = 0 /\ x.clock - F - a \in -O + 1 .. 0
        BY <1>6, <2>4 DEF Nearby, a, F, O
      <3>2. X.clock - F - Parts * r \in -O + 1 .. 0
        BY <1>1, <1>2, <1>4, <2>2, <3>1
      <3> QED BY <1>3, <2>2, <2>4, <3>1, <3>2 DEF Nearby, r, O, F
    <2>5. CASE y.st = "dying"
      BY <1>3, <1>6, <2>2, <2>5 DEF Nearby
    <2> QED BY <1>6, <2>3, <2>4, <2>5 DEF Nearby
  <1>7. CASE x.st = "live"
    <2>1. y.st = "live" /\ x.timer - y.timer - a \in -2 * O + 1 .. 0
      BY <1>7 DEF Nearby, a, O
    <2>2. X.st = "live" /\ X.timer = x.timer + b
      BY <1>3, <1>5, <1>7, LiveRuns DEF X
    <2>3. X.timer - y.timer - Parts * r \in -2 * O + 1 .. 0
      BY <1>1, <1>2, <1>4, <2>1, <2>2
    <2> QED BY <2>1, <2>2, <2>3 DEF Nearby, r, O
  <1>8. CASE x.st = "dying"
    <2>1. y.st = "dying" /\ x.timer - y.timer \in -2 * O + 1 .. O
      BY <1>8 DEF Nearby, O
    <2>2. X.st = "dying" /\ X.timer = x.timer
      BY <1>3, <1>8, DyingRuns DEF X
    <2> QED BY <2>1, <2>2 DEF Nearby, O
  <1> QED BY <1>4, <1>6, <1>7, <1>8 DEF Nearby

\* What slow motion and a bomb do to a bullet before a frame.
LEMMA PreparedIs ==
    ASSUME NEW x \in AnyBullet, NEW m \in 1 .. Parts, NEW bomb \in BOOLEAN,
           multiplier \in 1 .. Parts
    PROVE  /\ Prepared(x, m, bomb) \in AnyBullet
           /\ Prepared(x, m, bomb).pos = x.pos /\ Prepared(x, m, bomb).grace = x.grace
           /\ Prepared(x, m, bomb).timer = x.timer
           /\ Prepared(x, m, bomb).vel = (x.vel * m) \div multiplier
           /\ Prepared(x, m, bomb).st = IF bomb /\ x.st = "live" THEN "dying" ELSE x.st
           /\ Prepared(x, m, bomb).caught = (x.caught \/ (bomb /\ x.st = "spawning"))
           /\ Prepared(x, m, bomb).clock = IF bomb /\ x.st = "live" THEN 0 ELSE x.clock
  <1> DEFINE y == Rescaled(x, m)
  <1>1. multiplier \in Nat \ {0} /\ m \in Nat
    BY FieldBase
  <1>2. x.vel * m \in Int
    BY <1>1 DEF AnyBullet
  <1>3. PICK v \in Int : v = (x.vel * m) \div multiplier
    BY <1>1, <1>2, DivisionIsInt
  <1>4. y = [x EXCEPT !.vel = v]
    BY <1>3 DEF Rescaled, AnyBullet
  <1>5. /\ y \in AnyBullet /\ y.pos = x.pos /\ y.grace = x.grace /\ y.timer = x.timer
        /\ y.vel = v /\ y.st = x.st /\ y.caught = x.caught /\ y.clock = x.clock
    BY <1>3, <1>4 DEF AnyBullet
  <1>6. Prepared(x, m, bomb) = IF bomb THEN Bombed(y) ELSE y
    BY DEF Prepared
  <1>7. Bombed(y) = IF y.st = "spawning" THEN [y EXCEPT !.caught = TRUE]
                    ELSE IF y.st = "live" THEN [y EXCEPT !.st = "dying", !.clock = 0] ELSE y
    BY DEF Bombed
  <1> HIDE DEF y
  <1>8. CASE ~bomb
    BY <1>3, <1>5, <1>6, <1>8 DEF AnyBullet
  <1>9. CASE bomb /\ y.st = "spawning"
    <2>1. PICK z : z = [y EXCEPT !.caught = TRUE]
      OBVIOUS
    <2>2. /\ z \in AnyBullet /\ z.pos = y.pos /\ z.grace = y.grace /\ z.timer = y.timer
          /\ z.vel = y.vel /\ z.st = y.st /\ z.caught = TRUE /\ z.clock = y.clock
      BY <1>5, <2>1 DEF AnyBullet
    <2>3. Prepared(x, m, bomb) = z
      BY <1>6, <1>7, <1>9, <2>1
    <2> QED BY <1>3, <1>5, <1>9, <2>2, <2>3
  <1>10. CASE bomb /\ y.st = "live"
    <2>1. PICK z : z = [y EXCEPT !.st = "dying", !.clock = 0]
      OBVIOUS
    <2>2. /\ z \in AnyBullet /\ z.pos = y.pos /\ z.grace = y.grace /\ z.timer = y.timer
          /\ z.vel = y.vel /\ z.st = "dying" /\ z.caught = y.caught /\ z.clock = 0
      <3>1. PICK r \in AnyBullet : r = [y EXCEPT !.st = "dying"]
        BY <1>5 DEF AnyBullet
      <3>2. /\ r.pos = y.pos /\ r.grace = y.grace /\ r.timer = y.timer /\ r.vel = y.vel
            /\ r.st = "dying" /\ r.caught = y.caught
        BY <1>5, <3>1 DEF AnyBullet
      <3>3. z = [r EXCEPT !.clock = 0]
        BY <1>5, <2>1, <3>1 DEF AnyBullet
      <3>4. z \in AnyBullet /\ z.st = r.st /\ z.clock = 0
        <4>1. PICK i \in Int : i = 0
          OBVIOUS
        <4>2. z = [r EXCEPT !.clock = i]
          BY <3>3, <4>1
        <4> QED BY <3>1, <4>1, <4>2 DEF AnyBullet
      <3>5. z.pos = r.pos /\ z.grace = r.grace /\ z.timer = r.timer /\ z.vel = r.vel
        BY <3>1, <3>3 DEF AnyBullet
      <3>6. z.caught = r.caught
        BY <3>1, <3>3 DEF AnyBullet
      <3> QED BY <3>2, <3>4, <3>5, <3>6
    <2>3. Prepared(x, m, bomb) = z
      BY <1>6, <1>7, <1>10, <2>1
    <2>4. x.caught \in BOOLEAN /\ x.st = "live"
      BY <1>5, <1>10 DEF AnyBullet
    <2> QED BY <1>3, <1>5, <1>10, <2>2, <2>3, <2>4
  <1>11. CASE bomb /\ y.st \notin {"spawning", "live"}
    BY <1>3, <1>5, <1>6, <1>7, <1>11 DEF AnyBullet
  <1> QED BY <1>8, <1>9, <1>10, <1>11

LEMMA ClosePrepared ==
    ASSUME NEW x \in AnyBullet, NEW y \in AnyBullet, NEW m \in 1 .. Parts, NEW bomb \in BOOLEAN,
           multiplier \in 1 .. Parts, NEW p \in 0 .. UnitsPerFrame - 1, Nearby(x, y, p)
    PROVE  Nearby(Prepared(x, m, bomb), Prepared(y, m, bomb), p)
  <1> DEFINE X == Prepared(x, m, bomb)
             Y == Prepared(y, m, bomb)
             a == Parts * p
             O == OneFrame
  <1>1. a \in 0 .. O - 1 /\ O \in Nat \ {0}
    BY LessThanAFrame, FieldBase
  <1>2. /\ X.timer = x.timer /\ X.st = (IF bomb /\ x.st = "live" THEN "dying" ELSE x.st)
        /\ X.caught = (x.caught \/ (bomb /\ x.st = "spawning"))
        /\ X.clock = IF bomb /\ x.st = "live" THEN 0 ELSE x.clock
    BY PreparedIs
  <1>3. /\ Y.timer = y.timer /\ Y.st = (IF bomb /\ y.st = "live" THEN "dying" ELSE y.st)
        /\ Y.caught = (y.caught \/ (bomb /\ y.st = "spawning"))
        /\ Y.clock = IF bomb /\ y.st = "live" THEN 0 ELSE y.clock
    BY PreparedIs
  <1>4. x.timer \in Int /\ y.timer \in Int /\ x.caught \in BOOLEAN /\ y.caught \in BOOLEAN
    BY DEF AnyBullet
  <1> SUFFICES Nearby(X, Y, p)
    OBVIOUS
  <1> HIDE DEF X, Y
  <1>5. CASE ~bomb
    BY <1>2, <1>3, <1>4, <1>5 DEF Nearby
  <1>6. CASE bomb /\ x.st = "spawning" /\ y.st = "spawning"
    BY <1>2, <1>3, <1>4, <1>6 DEF Nearby
  <1>7. CASE bomb /\ x.st = "spawning" /\ y.st # "spawning"
    BY <1>2, <1>3, <1>4, <1>7 DEF Nearby
  <1>8. CASE bomb /\ x.st = "live"
    <2>1. y.st = "live" /\ x.timer - y.timer - a \in -2 * O + 1 .. 0
      BY <1>8 DEF Nearby
    <2> HIDE DEF a, O
    <2>2. x.timer - y.timer \in -2 * O + 1 .. O
      BY <1>1, <1>4, <2>1
    <2> QED BY <1>2, <1>3, <1>8, <2>1, <2>2 DEF Nearby, O
  <1>9. CASE bomb /\ x.st = "dying"
    BY <1>2, <1>3, <1>9 DEF Nearby
  <1> QED BY <1>5, <1>6, <1>7, <1>8, <1>9 DEF Nearby

LEMMA ExactPrepared ==
    ASSUME NEW x \in AnyBullet, NEW y \in AnyBullet, NEW m \in 1 .. Parts, NEW bomb \in BOOLEAN,
           multiplier \in 1 .. Parts, NEW slow \in BOOLEAN, NEW s \in BOOLEAN, s => slow,
           Exact(x, y, multiplier, 0, s)
    PROVE  Exact(Prepared(x, m, bomb), Prepared(y, m, bomb), m, 0, slow)
  <1> DEFINE X == Prepared(x, m, bomb)
             Y == Prepared(y, m, bomb)
  <1>1. PICK n \in Nat : x.vel = Baked(n, multiplier) /\ ExactForm(x, y, multiplier, 0, s, n)
    BY DEF Exact, ExactForm
  <1>2. x.caught = y.caught /\ x.grace = y.grace /\ x.vel = y.vel
    BY DEF Exact
  <1>3. multiplier \in Nat \ {0} /\ m \in Nat \ {0} /\ UnitsPerFrame \in Nat
        /\ Parts \in Nat
    BY FieldBase
  <1>4. (x.vel * m) \div multiplier = Baked(n, m)
    <2>1. (n * multiplier * UnitsPerFrame) * m = (n * m * UnitsPerFrame) * multiplier
          /\ n * m * UnitsPerFrame \in Nat
      BY <1>3
    <2> QED BY <1>1, <1>3, <2>1, DivisionIsExact DEF Baked
  <1>5. n * multiplier * 0 = 0 /\ multiplier * 0 = 0 /\ n * m * 0 = 0 /\ m * 0 = 0
        /\ Parts * 0 = 0
    BY <1>3
  <1>6. /\ x.pos \in Int /\ y.pos \in Int /\ x.timer \in Int /\ y.timer \in Int
        /\ x.clock \in Int /\ y.clock \in Int /\ x.caught \in BOOLEAN /\ y.caught \in BOOLEAN
        /\ x.st \in {"spawning", "live", "dying", "gone"}
    BY DEF AnyBullet
  <1>7. /\ x.st = y.st /\ x.pos = y.pos /\ (s \/ x.timer = y.timer)
        /\ x.st \in {"spawning", "dying"} => x.clock = y.clock
        /\ x.st = "spawning" => /\ x.timer = 0 /\ y.timer = 0
                                /\ s \/ \E q \in 0 .. SpawnFrames : y.clock = q * OneFrame
    BY <1>1, <1>5, <1>6 DEF ExactForm
  <1>8. /\ X \in AnyBullet /\ X.pos = x.pos /\ X.grace = x.grace /\ X.timer = x.timer
        /\ X.vel = Baked(n, m)
        /\ X.st = (IF bomb /\ x.st = "live" THEN "dying" ELSE x.st)
        /\ X.caught = (x.caught \/ (bomb /\ x.st = "spawning"))
        /\ X.clock = IF bomb /\ x.st = "live" THEN 0 ELSE x.clock
    BY ZenonT(40), <1>4, PreparedIs
  <1>9. /\ Y \in AnyBullet /\ Y.pos = y.pos /\ Y.grace = y.grace /\ Y.timer = y.timer
        /\ Y.vel = Baked(n, m)
        /\ Y.st = (IF bomb /\ y.st = "live" THEN "dying" ELSE y.st)
        /\ Y.caught = (y.caught \/ (bomb /\ y.st = "spawning"))
        /\ Y.clock = IF bomb /\ y.st = "live" THEN 0 ELSE y.clock
    <2>1. (y.vel * m) \div multiplier = Baked(n, m)
      BY <1>2, <1>4
    <2> QED BY ZenonT(40), <2>1, PreparedIs
  <1> SUFFICES ExactForm(X, Y, m, 0, slow, n) /\ X.caught = Y.caught
    BY <1>2, <1>8, <1>9 DEF Exact, ExactForm
  <1> HIDE DEF X, Y
  <1>10. X.caught = Y.caught
    BY <1>2, <1>7, <1>8, <1>9
  <1>11. ExactForm(X, Y, m, 0, slow, n)
    <2>1. X.pos = Y.pos + 2 * (n * m * 0) /\ X.pos = Y.pos + n * m * 0 /\ X.pos = Y.pos
      BY <1>5, <1>6, <1>7, <1>8, <1>9
    <2>2. (slow \/ X.timer = Y.timer + Parts * 0) /\ (slow \/ X.timer = Y.timer)
      BY <1>5, <1>6, <1>7, <1>8, <1>9
    <2>3. X.st = Y.st /\ X.st \in {"spawning", "live", "dying", "gone"}
          /\ (X.st \in {"spawning", "dying"} => X.clock = Y.clock + m * 0)
      BY <1>5, <1>6, <1>7, <1>8, <1>9
    <2>4. X.st = "spawning" => /\ X.timer = 0 /\ Y.timer = 0
                               /\ slow \/ \E q \in 0 .. SpawnFrames : Y.clock = q * OneFrame
      BY <1>7, <1>8, <1>9
    <2> QED BY <2>1, <2>2, <2>3, <2>4 DEF ExactForm
  <1> QED BY <1>10, <1>11

-------------------------------------------------------------------------------
(* TH08's field: a call to a laser, an item and the player. *)

LEMMA FloorInt ==
    ASSUME NEW a \in Int, NEW b \in Nat \ {0}
    PROVE  a \div b \in Int /\ (a \div b) * b <= a /\ a < (a \div b + 1) * b
  OBVIOUS

\* Of the multiples of Every one is added where there is one.
LEMMA DueStep ==
    ASSUME NEW n \in Nat
    PROVE  Due(n) = Due(n - 1) + (IF n % Every = 0 THEN 1 ELSE 0)
  <1>1. Every \in Nat \ {0}
    BY FieldBase
  <1>2. CASE n = 0
    <2>1. PICK b \in Nat \ {0} : b = Every
      BY <1>1
    <2>2. 0 \div b = 0 /\ 0 % b = 0 /\ (-1) \div b = -1
      OBVIOUS
    <2>3. n - 1 = -1
      BY <1>2
    <2> QED BY <1>2, <2>1, <2>2, <2>3 DEF Due
  <1>3. CASE n # 0
    <2>1. PICK a \in Nat : n = a + 1 /\ n - 1 = a
      BY <1>3
    <2>2. /\ IF (a % Every) + 1 < Every
             THEN (a + 1) \div Every = a \div Every /\ (a + 1) % Every = (a % Every) + 1
             ELSE (a + 1) \div Every = a \div Every + 1 /\ (a + 1) % Every = 0
          /\ a % Every \in 0 .. Every - 1 /\ a \div Every \in Nat
      BY <1>1, NextDivMod, DivMod
    <2>3. (a % Every) + 1 # 0
      BY <2>2, <1>1
    <2> QED BY <2>1, <2>2, <2>3 DEF Due
  <1> QED BY <1>2, <1>3

\* A laser's call, and its grazes at full speed.
LEMMA GrazedIs ==
    ASSUME NEW x \in AnyLaser, NEW c \in AnyCall
    PROVE  /\ Grazed(x, c) \in AnyLaser
           /\ Grazed(x, c).was = x.timer
           /\ Grazed(x, c).timer = x.timer + c.multiplier * c.units
           /\ Grazed(x, c).grazes =
                IF /\ (x.timer \div OneFrame) % Every = 0
                   /\ ~c.patched \/ x.was \div OneFrame # x.timer \div OneFrame
                THEN x.grazes + 1 ELSE x.grazes
  <1> DEFINE due == /\ (x.timer \div OneFrame) % Every = 0
                    /\ ~c.patched \/ x.was \div OneFrame # x.timer \div OneFrame
  <1>1. PICK t \in Int : t = x.timer + c.multiplier * c.units
    BY CallIs DEF AnyLaser
  <1>2. PICK g \in Int : g = IF due THEN x.grazes + 1 ELSE x.grazes
    BY DEF AnyLaser
  <1> HIDE DEF due
  <1>3. Grazed(x, c) = [x EXCEPT !.grazes = g, !.was = x.timer, !.timer = t]
    BY <1>1, <1>2 DEF Grazed, due, AnyLaser
  <1> QED BY <1>1, <1>2, <1>3 DEF AnyLaser, due

LEMMA GrazesOn ==
    ASSUME NEW x \in AnyLaser, NEW c \in AnyCall, c.multiplier = Parts, c.patched,
           x.was >= -OneFrame, x.timer >= 0, x.timer - x.was \in 1 .. OneFrame,
           x.grazes = Due(x.was \div OneFrame)
    PROVE  /\ Grazed(x, c).was >= -OneFrame /\ Grazed(x, c).timer >= 0
           /\ Grazed(x, c).timer - Grazed(x, c).was \in 1 .. OneFrame
           /\ Grazed(x, c).grazes = Due(Grazed(x, c).was \div OneFrame)
  <1> DEFINE i == x.was \div OneFrame
             j == x.timer \div OneFrame
             b == Parts * c.units
  <1>1. OneFrame \in Nat \ {0} /\ x.was \in Int /\ x.timer \in Int /\ x.grazes \in Int
        /\ Every \in Nat \ {0}
    BY FieldBase DEF AnyLaser
  <1>2. b \in 1 .. OneFrame
    <2>1. /\ c.units \in Nat \ {0} /\ c.units <= UnitsPerFrame /\ Parts \in Nat \ {0}
          /\ UnitsPerFrame \in Nat /\ OneFrame = Parts * UnitsPerFrame
      BY CallIs, FieldBase
    <2>2. c.units * Parts <= UnitsPerFrame * Parts
      BY <2>1, MulMono
    <2> QED BY <2>1, <2>2
  <1>3. /\ i \in Int /\ i * OneFrame <= x.was /\ x.was < (i + 1) * OneFrame
        /\ j \in Int /\ j * OneFrame <= x.timer /\ x.timer < (j + 1) * OneFrame
    BY <1>1, FloorInt
  <1> HIDE DEF i, j, b
  <1>4. j \in {i, i + 1} /\ j >= 0
    <2>1. /\ (i + 1) * OneFrame = i * OneFrame + OneFrame
          /\ (j + 1) * OneFrame = j * OneFrame + OneFrame
          /\ i * OneFrame \in Int /\ j * OneFrame \in Int
      BY <1>1, <1>3
    <2>2. ASSUME j + 1 <= i PROVE FALSE
      <3>1. (j + 1) * OneFrame <= i * OneFrame
        BY <1>1, <1>3, <2>2, MulMono
      <3> QED BY <1>1, <1>3, <3>1
    <2>3. ASSUME i + 2 <= j PROVE FALSE
      <3>1. (i + 2) * OneFrame <= j * OneFrame /\ (i + 2) * OneFrame = i * OneFrame + 2 * OneFrame
        BY <1>1, <1>3, <2>3, MulMono
      <3> QED BY <1>1, <1>3, <2>1, <3>1
    <2>4. ASSUME j + 1 <= 0 PROVE FALSE
      <3>1. (j + 1) * OneFrame <= 0 * OneFrame /\ 0 * OneFrame = 0
        BY <1>1, <1>3, <2>4, MulMono
      <3> QED BY <1>1, <1>3, <2>1, <3>1
    <2> QED BY <1>3, <2>2, <2>3, <2>4
  <1>5. /\ Grazed(x, c).was = x.timer /\ Grazed(x, c).timer = x.timer + b
        /\ Grazed(x, c).grazes = IF j % Every = 0 /\ i # j THEN x.grazes + 1 ELSE x.grazes
    BY GrazedIs DEF i, j, b
  <1>6. Grazed(x, c).grazes = Due(j)
    <2>1. j = i => Grazed(x, c).grazes = Due(j)
      BY <1>5 DEF i
    <2>2. j = i + 1 => Due(j) = Due(i) + (IF j % Every = 0 THEN 1 ELSE 0) /\ i # j
      <3>1. j \in Nat /\ (j = i + 1 => j - 1 = i /\ i # j)
        BY <1>3, <1>4
      <3> QED BY <3>1, DueStep
    <2>3. x.grazes = Due(i)
      BY DEF i
    <2>4. Due(i) \in Int
      BY <1>1, <2>3
    <2> QED BY <1>4, <1>5, <2>1, <2>2, <2>3, <2>4
  <1> QED BY <1>1, <1>2, <1>5, <1>6 DEF j

LEMMA LaserFrame ==
    ASSUME NEW x \in AnyLaser, NEW y \in AnyLaser, NEW c \in AnyCall, NEW d \in AnyCall,
           NEW m \in 1 .. Parts, c.multiplier = m, d.multiplier = m, c.patched, ~d.patched,
           d.units = UnitsPerFrame, NEW p \in Int
    PROVE  /\ Swept(x, y, m, p) =>
                Swept(Grazed(x, c), Grazed(y, d), m, p + c.units - UnitsPerFrame)
           /\ m = Parts /\ Grazing(x, y, p) =>
                Grazing(Grazed(x, c), Grazed(y, d), p + c.units - UnitsPerFrame)
  <1> DEFINE u == c.units
             r == p + u - UnitsPerFrame
             X == Grazed(x, c)
             Y == Grazed(y, d)
  <1>1. /\ u \in Nat \ {0} /\ UnitsPerFrame \in Nat \ {0} /\ Parts \in Nat \ {0}
        /\ m \in Nat \ {0} /\ OneFrame = Parts * UnitsPerFrame /\ OneFrame \in Nat \ {0}
        /\ x.timer \in Int /\ y.timer \in Int
    BY CallIs, FieldBase DEF AnyLaser
  <1>2. X.timer = x.timer + m * u /\ Y.timer = y.timer + m * UnitsPerFrame
        /\ X \in AnyLaser /\ Y \in AnyLaser
    BY GrazedIs
  <1>3. m * r = m * p + m * u - m * UnitsPerFrame
        /\ m * p \in Int /\ m * u \in Nat /\ m * UnitsPerFrame \in Nat
    BY <1>1
  <1> HIDE DEF u, r, X, Y
  <1>4. Swept(x, y, m, p) => Swept(X, Y, m, r)
    BY <1>1, <1>2, <1>3 DEF Swept
  <1>5. ASSUME m = Parts, Grazing(x, y, p) PROVE Grazing(X, Y, r)
    <2>1. PICK n \in Nat :
            /\ y.timer = n * OneFrame /\ y.grazes = Due(n - 1)
            /\ x.timer - y.timer - Parts * p \in -OneFrame + 1 .. 0
            /\ x.was >= -OneFrame /\ x.timer >= 0 /\ x.timer - x.was \in 1 .. OneFrame
            /\ x.grazes = Due(x.was \div OneFrame)
      BY <1>5 DEF Grazing
    <2>2. /\ X.was >= -OneFrame /\ X.timer >= 0 /\ X.timer - X.was \in 1 .. OneFrame
          /\ X.grazes = Due(X.was \div OneFrame)
      BY <1>5, <2>1, GrazesOn DEF X
    <2>3. n + 1 \in Nat /\ Y.timer = (n + 1) * OneFrame /\ (n + 1) - 1 = n
      <3>1. (n + 1) * OneFrame = n * OneFrame + OneFrame
        BY <1>1
      <3> QED BY <1>1, <1>2, <1>5, <2>1, <3>1
    <2>4. Y.grazes = Due((n + 1) - 1)
      <3>1. y.timer \div OneFrame = n
        BY <1>1, <2>1, DivisionIsExact
      <3>2. Y.grazes = IF n % Every = 0 THEN y.grazes + 1 ELSE y.grazes
        BY <3>1, GrazedIs DEF Y
      <3>3. y.grazes \in Int
        BY DEF AnyLaser
      <3> QED BY <2>1, <2>3, <3>2, <3>3, DueStep
    <2>5. X.timer - Y.timer - Parts * r \in -OneFrame + 1 .. 0
      BY <1>1, <1>2, <1>3, <1>5, <2>1
    <2> QED BY <2>2, <2>3, <2>4, <2>5 DEF Grazing
  <1> QED BY <1>4, <1>5 DEF r, u, X, Y

LEMMA LaserMinor ==
    ASSUME NEW x \in AnyLaser, NEW y \in AnyLaser, NEW c \in AnyCall,
           NEW m \in 1 .. Parts, c.multiplier = m, c.patched, NEW p \in Int
    PROVE  /\ Swept(x, y, m, p) => Swept(Grazed(x, c), y, m, p + c.units)
           /\ m = Parts /\ Grazing(x, y, p) => Grazing(Grazed(x, c), y, p + c.units)
  <1> DEFINE u == c.units
             r == p + u
             X == Grazed(x, c)
  <1>1. /\ u \in Nat \ {0} /\ Parts \in Nat \ {0} /\ m \in Nat \ {0} /\ OneFrame \in Nat \ {0}
        /\ x.timer \in Int /\ y.timer \in Int
    BY CallIs, FieldBase DEF AnyLaser
  <1>2. X.timer = x.timer + m * u
    BY GrazedIs
  <1>3. m * r = m * p + m * u /\ m * p \in Int /\ m * u \in Nat
    BY <1>1
  <1> HIDE DEF u, r, X
  <1>4. Swept(x, y, m, p) => Swept(X, y, m, r)
    BY <1>1, <1>2, <1>3 DEF Swept
  <1>5. ASSUME m = Parts, Grazing(x, y, p) PROVE Grazing(X, y, r)
    <2>1. PICK n \in Nat :
            /\ y.timer = n * OneFrame /\ y.grazes = Due(n - 1)
            /\ x.timer - y.timer - Parts * p \in -OneFrame + 1 .. 0
            /\ x.was >= -OneFrame /\ x.timer >= 0 /\ x.timer - x.was \in 1 .. OneFrame
            /\ x.grazes = Due(x.was \div OneFrame)
      BY <1>5 DEF Grazing
    <2>2. /\ X.was >= -OneFrame /\ X.timer >= 0 /\ X.timer - X.was \in 1 .. OneFrame
          /\ X.grazes = Due(X.was \div OneFrame)
      BY <1>5, <2>1, GrazesOn DEF X
    <2>3. X.timer - y.timer - Parts * r \in -OneFrame + 1 .. 0
      BY <1>1, <1>2, <1>3, <1>5, <2>1
    <2> QED BY <2>1, <2>2, <2>3 DEF Grazing
  <1> QED BY <1>4, <1>5 DEF r, u, X

LEMMA ItemCalled ==
    ASSUME NEW x \in AnyItem, NEW c \in AnyCall
    PROVE  /\ Fallen(x, c) \in AnyItem /\ (~c.frame => Fallen(x, c) = x)
           /\ \A d \in AnyCall : c.frame /\ d.frame /\ c.multiplier = d.multiplier =>
                                     Fallen(x, c) = Fallen(x, d)
  <1>1. PICK m \in Nat, v \in Int, e \in Int :
            m = c.multiplier /\ v = x.vel + c.multiplier /\ e = x.pos + v * m
    BY CallIs DEF AnyItem
  <1>2. Fallen(x, c) = IF ~c.frame THEN x ELSE [x EXCEPT !.vel = v, !.pos = e]
    BY <1>1 DEF Fallen, AnyItem
  <1>3. Fallen(x, c) \in AnyItem /\ (~c.frame => Fallen(x, c) = x)
    BY <1>1, <1>2 DEF AnyItem
  <1>4. ASSUME NEW d \in AnyCall, c.frame, d.frame, c.multiplier = d.multiplier
        PROVE  Fallen(x, c) = Fallen(x, d)
    BY <1>4 DEF Fallen
  <1> QED BY <1>3, <1>4

LEMMA Walks ==
    ASSUME NEW x \in AnyPlayer, NEW c \in AnyCall
    PROVE  /\ Walked(x, c) \in AnyPlayer
           /\ c.frame => Striding(Walked(x, c), c.multiplier, c.units)
           /\ \A u \in Nat : ~c.frame /\ Striding(x, c.multiplier, u) =>
                                 Striding(Walked(x, c), c.multiplier, u + c.units)
  <1> DEFINE e == Clamped(x.pos + 2 * c.key * c.multiplier * c.units)
             y == [x EXCEPT !.pos = e]
             z == IF c.frame THEN [y EXCEPT !.start = x.pos, !.key = c.key, !.held = TRUE]
                  ELSE [y EXCEPT !.held = @ /\ c.key = x.key]
  <1>1. /\ c.units \in Nat /\ c.multiplier \in Nat /\ c.key \in {-1, 0, 1} /\ Pixel \in Nat
        /\ x.pos \in -Pixel .. Pixel /\ x.start \in -Pixel .. Pixel /\ x.key \in {-1, 0, 1}
        /\ x.held \in BOOLEAN
    BY CallIs, FieldBase DEF AnyPlayer
  <1>2. \A a \in Int : Clamped(a) \in -Pixel .. Pixel
    BY <1>1 DEF Clamped
  <1>3. 2 * c.key * c.multiplier * c.units \in Int
    BY <1>1
  <1>4. e \in -Pixel .. Pixel
    BY <1>1, <1>2, <1>3
  <1>5. Walked(x, c) = z
    BY DEF Walked
  <1> HIDE DEF e
  <1>6. y \in AnyPlayer /\ y.pos = e /\ y.start = x.start /\ y.key = x.key /\ y.held = x.held
    BY <1>4 DEF AnyPlayer
  <1> HIDE DEF y
  <1>7. CASE c.frame
    <2>1. z = [y EXCEPT !.start = x.pos, !.key = c.key, !.held = TRUE]
      BY <1>7
    <2> HIDE DEF z
    <2>2. z \in AnyPlayer /\ z.pos = e /\ z.start = x.pos /\ z.key = c.key
      BY <1>1, <1>6, <2>1 DEF AnyPlayer
    <2>3. Striding(z, c.multiplier, c.units)
      BY <2>2 DEF Striding, e
    <2> QED BY <1>5, <1>7, <2>2, <2>3
  <1>8. CASE ~c.frame
    <2>1. PICK h \in BOOLEAN : h = (x.held /\ c.key = x.key)
      BY <1>1
    <2>2. z = [y EXCEPT !.held = h]
      BY <1>6, <1>8, <2>1 DEF AnyPlayer
    <2> HIDE DEF z
    <2>3. /\ z \in AnyPlayer /\ z.pos = e /\ z.start = x.start /\ z.key = x.key
          /\ z.held = h
      BY <1>6, <2>1, <2>2 DEF AnyPlayer
    <2>4. ASSUME NEW u \in Nat, Striding(x, c.multiplier, u)
          PROVE  Striding(z, c.multiplier, u + c.units)
      <3> SUFFICES ASSUME h
                   PROVE  e = Clamped(x.start + 2 * x.key * c.multiplier * (u + c.units))
        BY <2>3 DEF Striding
      <3>1. x.held /\ c.key = x.key
        BY <2>1
      <3>2. x.pos = Clamped(x.start + 2 * x.key * c.multiplier * u)
        BY <2>4, <3>1 DEF Striding
      <3>3. e = Clamped(x.pos + 2 * x.key * c.multiplier * c.units)
        BY <3>1 DEF e
      <3>4. PICK a \in Nat, b \in Nat, s \in Nat :
                /\ a = c.multiplier * u /\ b = c.multiplier * c.units
                /\ s = c.multiplier * (u + c.units) /\ s = a + b
        BY <1>1
      <3>5. /\ 2 * x.key * c.multiplier * u = 2 * x.key * a
            /\ 2 * x.key * c.multiplier * c.units = 2 * x.key * b
            /\ 2 * x.key * c.multiplier * (u + c.units) = 2 * x.key * s
        BY <1>1, <3>4
      <3>6. CASE x.key = 0
        BY <1>1, <3>2, <3>3, <3>4, <3>5, <3>6 DEF Clamped
      <3>7. CASE x.key = 1
        BY <1>1, <3>2, <3>3, <3>4, <3>5, <3>7 DEF Clamped
      <3>8. CASE x.key = -1
        BY <1>1, <3>2, <3>3, <3>4, <3>5, <3>8 DEF Clamped
      <3> QED BY <1>1, <3>6, <3>7, <3>8
    <2> QED BY <1>5, <1>8, <2>3, <2>4
  <1> QED BY <1>7, <1>8

-------------------------------------------------------------------------------
(* TH08's field: the ticks keep the field with the stock game. *)

FrameCall(t, m, pull, key) == [TickCall(t, m, pull, key) EXCEPT !.frame = TRUE]

LEMMA CallsAre ==
    ASSUME fieldRate \in FieldRates, NEW t \in 0 .. fieldRate - 1, NEW m \in 1 .. Parts,
           NEW pull \in {0, 1}, NEW key \in {-1, 0, 1}
    PROVE  /\ FrameCall(t, m, pull, key) \in AnyCall /\ StockCall(m, pull, key) \in AnyCall
           /\ TickCall(t, m, pull, key) \in AnyCall
           /\ \A c \in {FrameCall(t, m, pull, key), TickCall(t, m, pull, key)} :
                /\ c.last = IsLast(t) /\ c.units = UnitsAt(t) /\ c.multiplier = m
                /\ c.pull = pull /\ c.key = key /\ c.patched
           /\ FrameCall(t, m, pull, key).frame
           /\ TickCall(t, m, pull, key).frame = IsFrameTick(t)
           /\ StockCall(m, pull, key).frame /\ StockCall(m, pull, key).last
           /\ StockCall(m, pull, key).units = UnitsPerFrame
           /\ StockCall(m, pull, key).multiplier = m /\ StockCall(m, pull, key).pull = pull
           /\ ~StockCall(m, pull, key).patched
  <1>1. UnitsAt(t) \in 1 .. UnitsPerFrame /\ UnitsPerFrame \in 1 .. UnitsPerFrame
    BY FieldTicks, FieldBase
  <1>2. IsLast(t) \in BOOLEAN /\ IsFrameTick(t) \in BOOLEAN
    BY DEF IsLast, IsFrameTick
  <1>3. PICK l \in BOOLEAN, f \in BOOLEAN : l = IsLast(t) /\ f = IsFrameTick(t)
    BY <1>2
  <1>4. /\ TickCall(t, m, pull, key) \in AnyCall
        /\ TickCall(t, m, pull, key) =
            [frame |-> f, last |-> l, units |-> UnitsAt(t), multiplier |-> m, pull |-> pull,
             key |-> key, patched |-> TRUE]
    BY <1>1, <1>3 DEF TickCall, AnyCall
  <1>5. ASSUME NEW c \in AnyCall
        PROVE  LET e == [c EXCEPT !.frame = TRUE]
               IN /\ e \in AnyCall /\ e.frame /\ e.last = c.last /\ e.units = c.units
                  /\ e.multiplier = c.multiplier /\ e.pull = c.pull /\ e.key = c.key
                  /\ e.patched = c.patched
    BY DEF AnyCall
  <1>6. LET c == TickCall(t, m, pull, key)
        IN /\ c.frame = f /\ c.last = l /\ c.units = UnitsAt(t) /\ c.multiplier = m
           /\ c.pull = pull /\ c.key = key /\ c.patched
    BY <1>4
  <1>8. LET c == FrameCall(t, m, pull, key)
        IN /\ c \in AnyCall /\ c.frame /\ c.last = l /\ c.units = UnitsAt(t)
           /\ c.multiplier = m /\ c.pull = pull /\ c.key = key /\ c.patched
    <2> DEFINE r == TickCall(t, m, pull, key)
    <2>1. r \in AnyCall /\ r.last = l /\ r.units = UnitsAt(t) /\ r.multiplier = m
          /\ r.pull = pull /\ r.key = key /\ r.patched
      BY <1>4, <1>6
    <2>2. LET e == [r EXCEPT !.frame = TRUE]
          IN /\ e \in AnyCall /\ e.frame /\ e.last = r.last /\ e.units = r.units
             /\ e.multiplier = r.multiplier /\ e.pull = r.pull /\ e.key = r.key
             /\ e.patched = r.patched
      BY <1>5, <2>1
    <2> HIDE DEF r
    <2>3. FrameCall(t, m, pull, key) = [r EXCEPT !.frame = TRUE]
      BY DEF FrameCall, r
    <2> QED BY <2>1, <2>2, <2>3
  <1>7. StockCall(m, pull, key) \in AnyCall
    BY <1>1 DEF StockCall, AnyCall
  <1> QED BY <1>3, <1>4, <1>6, <1>7, <1>8 DEF StockCall

\* The same by kind.
MatchOfKind(x, y, m, p, slow, bends) ==
    /\ x.kind = y.kind /\ x.kind \in {"item", "player", "laser", "bullet"}
    /\ x.kind = "item" => x \in AnyItem /\ y = x
    /\ x.kind = "player" =>
         {x, y} \subseteq AnyPlayer /\ (EvenField => Striding(x, m, UnitsPerFrame + p))
    /\ x.kind = "laser" =>
         /\ {x, y} \subseteq AnyLaser /\ (EvenField => Swept(x, y, m, p))
         /\ ~slow => Grazing(x, y, p)
    /\ x.kind = "bullet" =>
         /\ {x, y} \subseteq AnyBullet
         /\ EvenField /\ ~bends /\ ~(slow /\ y.caught) => Exact(x, y, m, p, slow)
         /\ ~slow /\ "gone" \notin {x.st, y.st} => Nearby(x, y, p)

LEMMA MatchIs ==
    ASSUME NEW x, NEW y, NEW m, NEW p, NEW s, NEW b,
           Match(x, y, m, p, s, b)
    PROVE  MatchOfKind(x, y, m, p, s, b)
  <1>5. /\ \A z \in AnyItem : z.kind = "item"
        /\ \A z \in AnyPlayer : z.kind = "player"
        /\ \A z \in AnyLaser : z.kind = "laser"
        /\ \A z \in AnyBullet : z.kind = "bullet"
    BY DEF AnyItem, AnyPlayer, AnyLaser, AnyBullet
  <1>1. CASE x \in AnyItem /\ y = x
    BY <1>5, <1>1 DEF MatchOfKind
  <1>2. CASE {x, y} \subseteq AnyPlayer /\ (EvenField => Striding(x, m, UnitsPerFrame + p))
    <2>1. x.kind = "player" /\ y.kind = "player"
      BY <1>5, <1>2
    <2> QED BY <1>2, <2>1 DEF MatchOfKind
  <1>3. CASE /\ {x, y} \subseteq AnyLaser /\ (EvenField => Swept(x, y, m, p))
             /\ ~s => Grazing(x, y, p)
    <2>1. x.kind = "laser" /\ y.kind = "laser"
      BY <1>5, <1>3
    <2> QED BY <1>3, <2>1 DEF MatchOfKind
  <1>4. CASE /\ {x, y} \subseteq AnyBullet
             /\ EvenField /\ ~b /\ ~(s /\ y.caught) => Exact(x, y, m, p, s)
             /\ ~s /\ "gone" \notin {x.st, y.st} => Nearby(x, y, p)
    <2>1. x.kind = "bullet" /\ y.kind = "bullet"
      BY <1>5, <1>4
    <2> QED BY <1>4, <2>1 DEF MatchOfKind
  <1> QED BY <1>1, <1>2, <1>3, <1>4 DEF Match

\* A behaviour changes a bullet's velocity as it may go live.
BendsOnce(x, y, pull) == pull # 0 /\ y.kind = "bullet" /\ "spawning" \in {x.st, y.st}

LEMMA MatchFrame ==
    ASSUME fieldRate \in FieldRates, multiplier \in 1 .. Parts,
           NEW t \in 0 .. fieldRate - 1, IsFrameTick(t),
           NEW m \in 1 .. Parts, NEW bomb \in BOOLEAN, NEW pull \in {0, 1},
           NEW key \in {-1, 0, 1}, NEW s \in BOOLEAN, NEW b \in BOOLEAN,
           NEW old, NEW oldStock, Match(old, oldStock, multiplier, Past(t, fieldRate), s, b),
           old.kind # "bullet" => ~bomb,
           NEW slow \in BOOLEAN, slow <=> m # Parts \/ s, NEW bends \in BOOLEAN,
           bends <=> BendsOnce(Prepared(old, m, bomb), Prepared(oldStock, m, bomb), pull) \/ b
    PROVE  Match(FieldCalled(Prepared(old, m, bomb), FrameCall(t, m, pull, key)),
                 FieldCalled(Prepared(oldStock, m, bomb), StockCall(m, pull, key)),
                 m, Past(After(t), fieldRate), slow, bends)
  <1> DEFINE x == Prepared(old, m, bomb)
             y == Prepared(oldStock, m, bomb)
             c == FrameCall(t, m, pull, key)
             d == StockCall(m, pull, key)
             U == UnitsPerFrame
             p == Past(t, fieldRate)
             q == Past(After(t), fieldRate)
             X == FieldCalled(x, c)
             Y == FieldCalled(y, d)
  <1>1. /\ c \in AnyCall /\ d \in AnyCall /\ c.units = UnitsAt(t) /\ c.frame /\ d.frame /\ d.last
        /\ d.units = U /\ c.multiplier = m /\ d.multiplier = m /\ c.patched /\ ~d.patched
        /\ c.pull = pull /\ d.pull = pull /\ (c.last <=> IsLast(t))
    BY CallsAre
  <1>2. /\ p \in 0 .. U - 1 /\ q = p + c.units - U /\ c.units \in 1 .. U /\ U \in Nat \ {0}
        /\ (c.last <=> q >= 0) /\ (EvenField => p = 0)
    BY <1>1, FieldTicks, FieldBase
  <1>0. MatchOfKind(old, oldStock, multiplier, p, s, b)
    BY MatchIs, Zenon
  <1> HIDE DEF c, d, U, p, q
  <1>3. old.kind \in {"item", "player", "laser", "bullet"} /\ old.kind = oldStock.kind
    BY <1>0 DEF MatchOfKind
  <1>4. CASE old.kind \in {"item", "player", "laser"}
    <2>1. x = old /\ y = oldStock
      BY <1>3, <1>4 DEF Prepared, Rescaled
    <2>2. CASE old.kind = "item"
      <3>1. x \in AnyItem /\ y = x
        BY <2>1, <2>2, <1>0 DEF MatchOfKind
      <3>2. X = Fallen(x, c) /\ Y = Fallen(y, d)
        BY <2>1, <2>2, <3>1 DEF FieldCalled
      <3>3. X \in AnyItem /\ Y = X
        BY <1>1, <3>1, <3>2, ItemCalled
      <3> QED BY <3>3 DEF Match, c, d
    <2>3. CASE old.kind = "player"
      <3>1. {x, y} \subseteq AnyPlayer
        BY <2>1, <2>3, <1>0 DEF MatchOfKind
      <3>2. X = Walked(x, c) /\ Y = Walked(y, d)
        BY <1>3, <2>1, <2>3 DEF FieldCalled
      <3>3. {X, Y} \subseteq AnyPlayer /\ Striding(X, m, c.units)
        BY <1>1, <3>1, <3>2, Walks
      <3>4. EvenField => U + q = c.units
        BY <1>2
      <3> QED BY <3>3, <3>4 DEF Match, c, d, q, U
    <2>4. CASE old.kind = "laser"
      <3>1. /\ {x, y} \subseteq AnyLaser /\ (EvenField => Swept(x, y, multiplier, p))
            /\ ~s => Grazing(x, y, p)
        BY <2>1, <2>4, <1>0 DEF MatchOfKind
      <3>2. X = Grazed(x, c) /\ Y = Grazed(y, d)
        BY <1>3, <2>1, <2>4 DEF FieldCalled
      <3>3. EvenField => Swept(x, y, m, p)
        <4>1. multiplier * 0 = 0 /\ m * 0 = 0
          BY FieldBase
        <4> QED BY <1>2, <3>1, <4>1 DEF Swept
      <3>4. {X, Y} \subseteq AnyLaser
        BY <1>1, <3>1, <3>2, GrazedIs
      <3>5. EvenField => Swept(X, Y, m, q)
        BY <1>1, <1>2, <3>1, <3>2, <3>3, LaserFrame DEF U
      <3>6. ~slow => Grazing(X, Y, q)
        BY <1>1, <1>2, <3>1, <3>2, LaserFrame DEF U
      <3> QED BY <3>4, <3>5, <3>6 DEF Match, c, d, q
    <2> QED BY <1>4, <2>2, <2>3, <2>4
  <1>5. CASE old.kind = "bullet"
    <2>1. /\ {old, oldStock} \subseteq AnyBullet
          /\ EvenField /\ ~b /\ ~(s /\ oldStock.caught) => Exact(old, oldStock, multiplier, p, s)
          /\ ~s /\ "gone" \notin {old.st, oldStock.st} => Nearby(old, oldStock, p)
      BY <1>5, <1>0 DEF MatchOfKind
    <2>2. /\ x \in AnyBullet /\ y \in AnyBullet
          /\ (oldStock.caught => y.caught) /\ (old.st = "gone" <=> x.st = "gone")
          /\ (oldStock.st = "gone" <=> y.st = "gone")
      <3>0. old \in AnyBullet /\ oldStock \in AnyBullet
        BY <2>1
      <3>1. /\ x \in AnyBullet
            /\ x.st = IF bomb /\ old.st = "live" THEN "dying" ELSE old.st
        BY <3>0, PreparedIs
      <3>2. /\ y \in AnyBullet
            /\ y.st = IF bomb /\ oldStock.st = "live" THEN "dying" ELSE oldStock.st
            /\ y.caught = (oldStock.caught \/ (bomb /\ oldStock.st = "spawning"))
        BY <3>0, PreparedIs
      <3>3. oldStock.caught => y.caught
        BY <3>2, Zenon
      <3> QED BY <3>1, <3>2, <3>3
    <2>3. X = Passed(x, c) /\ Y = Passed(y, d) /\ y.kind = "bullet"
      BY <2>2 DEF FieldCalled, AnyBullet
    <2>4. X \in AnyBullet /\ Y \in AnyBullet /\ Y.caught = y.caught
      BY <1>1, <2>2, <2>3, KeepsKind
    <2>5. ASSUME EvenField, ~bends, ~(slow /\ Y.caught) PROVE Exact(X, Y, m, q, slow)
      <3>1. p = 0 /\ q = c.units - U /\ ~b /\ ~(s /\ oldStock.caught) /\ ~(slow /\ y.caught)
        BY <1>2, <2>2, <2>4, <2>5
      <3>2. Exact(old, oldStock, multiplier, 0, s)
        BY <2>1, <2>5, <3>1
      <3>3. Exact(x, y, m, 0, slow)
        BY <2>1, <3>2, ExactPrepared
      <3>4. x.st = "spawning" => c.pull = 0
        BY <1>1, <2>3, <2>5 DEF BendsOnce
      <3>5. (c.last <=> c.units = UnitsPerFrame) /\ (~slow => m = Parts)
            /\ d.units = UnitsPerFrame
        BY <1>1, <1>2, <3>1 DEF U
      <3> QED BY <1>1, <2>2, <2>3, <3>1, <3>3, <3>4, <3>5, ExactFrame DEF U
    <2>6. ASSUME ~slow, "gone" \notin {X.st, Y.st} PROVE Nearby(X, Y, q)
      <3>1. ~s /\ m = Parts
        BY <2>6
      <3>2. x.st # "gone" /\ y.st # "gone"
        BY <1>1, <2>2, <2>3, <2>6, GoneStays
      <3>3. Nearby(x, y, p)
        BY <1>2, <2>1, <2>2, <3>1, <3>2, ClosePrepared DEF U
      <3> QED BY <1>1, <1>2, <2>2, <2>3, <2>6, <3>1, <3>3, CloseFrame DEF U
    <2> QED BY <2>4, <2>5, <2>6 DEF Match, c, d, q
  <1> QED BY <1>3, <1>4, <1>5

LEMMA MatchMinor ==
    ASSUME fieldRate \in FieldRates, NEW m \in 1 .. Parts,
           NEW t \in 0 .. fieldRate - 1, ~IsFrameTick(t), NEW key \in {-1, 0, 1},
           NEW s \in BOOLEAN, ~s => m = Parts, NEW b \in BOOLEAN,
           NEW x, NEW y, Match(x, y, m, Past(t, fieldRate), s, b)
    PROVE  Match(FieldCalled(x, TickCall(t, m, 0, key)), y, m, Past(After(t), fieldRate), s, b)
  <1> DEFINE c == TickCall(t, m, 0, key)
             U == UnitsPerFrame
             p == Past(t, fieldRate)
             q == Past(After(t), fieldRate)
             X == FieldCalled(x, c)
  <1>1. /\ c \in AnyCall /\ c.units = UnitsAt(t) /\ ~c.frame /\ c.multiplier = m /\ c.patched
        /\ (c.last <=> IsLast(t))
    BY CallsAre
  <1>2. /\ p \in -U .. -1 /\ q = p + c.units /\ c.units \in 1 .. U /\ U \in Nat \ {0}
        /\ (c.last <=> q >= 0) /\ (EvenField => q <= 0)
    <2>1. /\ p \in -U .. -1 /\ q = p + c.units /\ c.units \in 1 .. U /\ U \in Nat \ {0}
          /\ (c.last <=> q >= 0) /\ After(t) \in 0 .. fieldRate - 1
      BY <1>1, FieldTicks, FieldBase
    <2>2. (EvenField /\ IsFrameTick(After(t)) => q = 0)
          /\ (~IsFrameTick(After(t)) => q \in -U .. -1)
      BY <2>1, FieldTicks
    <2> HIDE DEF p, q, c, U
    <2> QED BY <2>1, <2>2
  <1>0. MatchOfKind(x, y, m, p, s, b)
    BY MatchIs, Zenon
  <1> HIDE DEF c, U, p, q
  <1>3. x.kind \in {"item", "player", "laser", "bullet"}
    BY <1>0 DEF MatchOfKind
  <1>4. CASE x.kind = "item"
    <2>1. x \in AnyItem /\ y = x
      BY <1>4, <1>0 DEF MatchOfKind
    <2>2. X = x
      BY <1>1, <1>4, <2>1, ItemCalled DEF FieldCalled
    <2> QED BY <2>1, <2>2 DEF Match, c
  <1>5. CASE x.kind = "player"
    <2>1. {x, y} \subseteq AnyPlayer /\ (EvenField => Striding(x, m, U + p))
      BY <1>5, <1>0 DEF MatchOfKind, U
    <2>2. X = Walked(x, c)
      BY <1>5 DEF FieldCalled
    <2>3. X \in AnyPlayer
      BY <1>1, <2>1, <2>2, Walks
    <2>4. U + p \in Nat /\ (U + p) + c.units = U + q
      BY <1>2
    <2>5. EvenField => Striding(X, m, U + q)
      BY <1>1, <2>1, <2>2, <2>4, Walks
    <2> QED BY <2>1, <2>3, <2>5 DEF Match, c, q, U
  <1>6. CASE x.kind = "laser"
    <2>1. /\ {x, y} \subseteq AnyLaser /\ (EvenField => Swept(x, y, m, p))
          /\ ~s => Grazing(x, y, p)
      BY <1>6, <1>0 DEF MatchOfKind
    <2>2. X = Grazed(x, c)
      BY <1>6 DEF FieldCalled
    <2>3. X \in AnyLaser
      BY <1>1, <2>1, <2>2, GrazedIs
    <2>4. EvenField => Swept(X, y, m, q)
      BY <1>1, <1>2, <2>1, <2>2, LaserMinor
    <2>5. ~s => Grazing(X, y, q)
      BY <1>1, <1>2, <2>1, <2>2, LaserMinor
    <2> QED BY <2>1, <2>3, <2>4, <2>5 DEF Match, c, q
  <1>7. CASE x.kind = "bullet"
    <2>1. /\ {x, y} \subseteq AnyBullet
          /\ EvenField /\ ~b /\ ~(s /\ y.caught) => Exact(x, y, m, p, s)
          /\ ~s /\ "gone" \notin {x.st, y.st} => Nearby(x, y, p)
      BY <1>7, <1>0 DEF MatchOfKind
    <2>2. X = Passed(x, c)
      BY <1>7 DEF FieldCalled
    <2>3. X \in AnyBullet
      BY <1>1, <2>1, <2>2, KeepsKind
    <2>4. ASSUME EvenField, ~b, ~(s /\ y.caught) PROVE Exact(X, y, m, q, s)
      <3>1. Exact(x, y, m, p, s) /\ p \in Int /\ p < 0 /\ p + c.units <= 0
            /\ (c.last <=> p + c.units = 0)
        BY <1>2, <2>1, <2>4
      <3>2. Exact(Passed(x, c), y, m, p + c.units, s)
        BY <1>1, <2>1, <2>4, <3>1, ExactMinor
      <3> QED BY <1>2, <2>2, <3>2
    <2>5. ASSUME ~s, "gone" \notin {X.st, y.st} PROVE Nearby(X, y, q)
      <3>1. x.st # "gone"
        BY <1>1, <2>1, <2>2, <2>5, GoneStays
      <3>2. Nearby(x, y, p) /\ p \in Int /\ c.multiplier = Parts
        BY <1>1, <1>2, <2>1, <2>5, <3>1
      <3>3. Nearby(Passed(x, c), y, p + c.units)
        BY <1>1, <2>1, <2>2, <2>5, <3>2, CloseMinor
      <3> QED BY <1>2, <2>2, <3>3
    <2> QED BY <2>1, <2>3, <2>4, <2>5 DEF Match, c, q
  <1> QED BY <1>3, <1>4, <1>5, <1>6, <1>7

-------------------------------------------------------------------------------
(* TH08's field: the invariant. *)

\* A new bullet.
LEMMA BulletsAre ==
    ASSUME NEW x \in Bullets
    PROVE  \E st \in {"spawning", "live"}, v \in Int, g \in Nat : x = Bullet(st, v, OneFrame, g)
  <1>1. Pixel \in Int /\ -OneFrame \in Int /\ 0 \in Nat /\ Graces \subseteq Nat
    BY FieldBase
  <1>2. CASE x \in {Bullet(st, Pixel, OneFrame, g) : st \in {"spawning", "live"}, g \in Graces}
    BY <1>1, <1>2
  <1>3. CASE x = Bullet("live", -OneFrame, OneFrame, 0)
    BY <1>1, <1>3
  <1> QED BY <1>2, <1>3 DEF Bullets

\* A new object beside itself.
LEMMA NewMatch ==
    ASSUME multiplier \in 1 .. Parts, NEW x \in FieldObjects,
           NEW p \in 0 .. UnitsPerFrame - 1, EvenField => p = 0,
           NEW z, z = IF x.kind = "bullet" THEN [x EXCEPT !.vel = (@ * multiplier) \div Parts]
                      ELSE x
    PROVE  Match(z, z, multiplier, p, FALSE, FALSE) /\ z.kind = x.kind
  <1> DEFINE m == multiplier
             U == UnitsPerFrame
  <1>1. /\ Parts \in Nat \ {0} /\ U \in Nat \ {0} /\ OneFrame \in Nat \ {0}
        /\ OneFrame = Parts * U /\ Pixel \in Nat \ {0} /\ Graces \subseteq Nat
        /\ SpawnFrames \in Nat \ {0} /\ m \in Nat \ {0} /\ Every \in Nat \ {0} /\ p \in Nat
    BY FieldBase
  <1>2. Parts * p \in 0 .. OneFrame - 1
    BY LessThanAFrame
  <1> HIDE DEF m, U
  <1>3. CASE x = Item
    <2>1. z = x /\ z \in AnyItem
      BY <1>3 DEF Item, AnyItem
    <2> QED BY <2>1 DEF Match
  <1>4. CASE x = Player
    <2>1. z = x
      BY <1>4 DEF Player
    <2>2. z \in AnyPlayer
      BY <1>1, <1>4, <2>1 DEF Player, AnyPlayer
    <2>3. z.pos = 0 /\ z.start = 0 /\ z.key = 0
      BY <1>4, <2>1 DEF Player
    <2>4. 0 + 2 * 0 * multiplier * (UnitsPerFrame + p) = 0 /\ Clamped(0) = 0
      BY <1>1 DEF Clamped, m, U
    <2>5. Striding(z, multiplier, UnitsPerFrame + p)
      BY <2>3, <2>4 DEF Striding
    <2> QED BY <2>1, <2>2, <2>5 DEF Match
  <1>5. CASE x = Laser
    <2>1. z = x
      BY <1>5 DEF Laser
    <2>2. z.was = -OneFrame /\ z.timer = 0 /\ z.grazes = 0 /\ z \in AnyLaser
      BY <1>1, <1>5, <2>1 DEF Laser, AnyLaser
    <2>3. EvenField => Swept(z, z, multiplier, p)
      BY <1>1, <2>2 DEF Swept, m
    <2>4. Due(-1) = 0 /\ (-OneFrame) \div OneFrame = -1
      <3>1. PICK b \in Nat \ {0}, o \in Nat \ {0} : b = Every /\ o = OneFrame
        BY <1>1
      <3>2. (-1) \div b = -1
        OBVIOUS
      <3>3. (-1 * o + 0) \div o = -1 /\ -1 * o + 0 = -o
        BY IntDivModUnique
      <3> QED BY <3>1, <3>2, <3>3 DEF Due
    <2>5. Grazing(z, z, p)
      <3>1. 0 = 0 * OneFrame /\ 0 - 1 = -1 /\ 0 \in Nat
        BY <1>1
      <3>2. 0 - 0 - Parts * p \in -OneFrame + 1 .. 0 /\ 0 - (-OneFrame) \in 1 .. OneFrame
        BY <1>1, <1>2
      <3>3. /\ z.timer = 0 * OneFrame /\ z.grazes = Due(0 - 1)
            /\ z.timer - z.timer - Parts * p \in -OneFrame + 1 .. 0
        BY <2>2, <2>4, <3>1, <3>2
      <3>4. z.was >= -OneFrame /\ z.timer >= 0 /\ z.timer - z.was \in 1 .. OneFrame
        BY <1>1, <2>2, <3>2
      <3>5. z.grazes = Due(z.was \div OneFrame)
        BY <2>2, <2>4
      <3> QED BY <3>1, <3>3, <3>4, <3>5, Zenon DEF Grazing
    <2> QED BY <2>1, <2>2, <2>3, <2>5 DEF Match
  <1>6. CASE x \in Bullets
    <2>1. /\ x.kind = "bullet" /\ x.st \in {"spawning", "live"} /\ x.vel = OneFrame
          /\ x.timer = 0 /\ x.clock = 0 /\ x.caught = FALSE /\ x \in AnyBullet
      <3>1. PICK st \in {"spawning", "live"}, v \in Int, g \in Nat : x = Bullet(st, v, OneFrame, g)
        BY <1>6, BulletsAre
      <3> QED BY <1>1, <3>1 DEF Bullet, AnyBullet
    <2>2. (OneFrame * m) \div Parts = Baked(1, m)
      <3>1. (m * U) * Parts = OneFrame * m /\ m * U \in Nat /\ 1 * m * U = m * U
        BY <1>1
      <3> QED BY <1>1, <3>1, DivisionIsExact DEF Baked, U
    <2>3. Baked(1, m) \in Int
      BY <1>1 DEF Baked, U
    <2>4. /\ z.st = x.st /\ z.vel = Baked(1, m) /\ z.timer = 0 /\ z.clock = 0
          /\ ~z.caught /\ z \in AnyBullet /\ z.kind = "bullet" /\ z.pos \in Int
      <3>1. z = [x EXCEPT !.vel = Baked(1, m)]
        BY <2>1, <2>2 DEF m
      <3> QED BY <2>1, <2>3, <3>1 DEF AnyBullet
    <2>5. 0 = 0 * OneFrame /\ 0 \in 0 .. SpawnFrames
      BY <1>1
    <2>6. Nearby(z, z, p)
      <3>1. 0 - 0 - Parts * p \in -OneFrame + 1 .. 0 /\ 0 - 0 - Parts * p \in -2 * OneFrame + 1 .. 0
        BY <1>1, <1>2
      <3>2. CASE z.st = "spawning"
        BY <2>4, <2>5, <3>1, <3>2 DEF Nearby
      <3>3. CASE z.st = "live"
        BY <2>4, <3>1, <3>3 DEF Nearby
      <3> QED BY <2>1, <2>4, <3>2, <3>3
    <2>7. ASSUME EvenField PROVE Exact(z, z, m, p, FALSE)
      <3>1. p = 0 /\ 2 * (1 * m * p) = 0 /\ 1 * m * p = 0 /\ m * p = 0 /\ Parts * p = 0
        BY <1>1, <2>7
      <3>2. ExactForm(z, z, m, p, FALSE, 1)
        <4>1. CASE z.st = "spawning"
          BY <2>4, <2>5, <3>1, <4>1 DEF ExactForm
        <4>2. CASE z.st = "live"
          BY <2>4, <3>1, <4>2 DEF ExactForm
        <4> QED BY <2>1, <2>4, <4>1, <4>2
      <3> QED BY <2>4, <3>2 DEF Exact
    <2> QED BY <2>1, <2>4, <2>6, <2>7 DEF Match, m
  <1> QED BY <1>3, <1>4, <1>5, <1>6 DEF FieldObjects, Item, Laser, Player

\* A frame of the game, from objects that match.
LEMMA RunFrameKeeps ==
    ASSUME fieldRate \in FieldRates, multiplier \in 1 .. Parts, eased \in BOOLEAN, bent \in BOOLEAN,
           NEW t \in 0 .. fieldRate - 1, IsFrameTick(t), NEW old, NEW oldStock, NEW age \in Nat,
           NEW s \in BOOLEAN, s <=> age > 0 /\ eased, NEW b \in BOOLEAN, b <=> age > 0 /\ bent,
           Match(old, oldStock, multiplier, Past(t, fieldRate), s, b),
           old.kind = field.kind, RunFrame(t, old, oldStock, age)
    PROVE  FieldInv'
  <1>1. PICK m \in Multipliers, bomb \in IF IsBullet THEN BOOLEAN ELSE {FALSE},
             key \in IF old.kind = "player" THEN {-1, 0, 1} ELSE {0} :
          \E pull \in Pulls(Prepared(oldStock, m, bomb), m) :
            LET x == Prepared(old, m, bomb)
                y == Prepared(oldStock, m, bomb)
            IN /\ field' = FieldCalled(x, FrameCall(t, m, pull, key))
               /\ stock' = FieldCalled(y, StockCall(m, pull, key))
               /\ multiplier' = m /\ lived' = age + 1
               /\ eased' = (m # Parts \/ (age > 0 /\ eased))
               /\ bent' = ((pull # 0 /\ y.kind = "bullet" /\ "spawning" \in {x.st, y.st})
                           \/ (age > 0 /\ bent))
               /\ ran' = t /\ coming' = After(t) /\ missed' = FALSE /\ UNCHANGED fieldRate
    BY DEF RunFrame, FrameCall
  <1> DEFINE x == Prepared(old, m, bomb)
             y == Prepared(oldStock, m, bomb)
  <1>2. PICK pull \in Pulls(y, m) :
            /\ field' = FieldCalled(x, FrameCall(t, m, pull, key))
            /\ stock' = FieldCalled(y, StockCall(m, pull, key))
            /\ multiplier' = m /\ lived' = age + 1
            /\ eased' = (m # Parts \/ (age > 0 /\ eased))
            /\ bent' = ((pull # 0 /\ y.kind = "bullet" /\ "spawning" \in {x.st, y.st})
                        \/ (age > 0 /\ bent))
            /\ ran' = t /\ coming' = After(t) /\ missed' = FALSE /\ fieldRate' = fieldRate
    BY <1>1
  <1>3. /\ m \in 1 .. Parts /\ bomb \in BOOLEAN /\ key \in {-1, 0, 1} /\ pull \in {0, 1}
        /\ (old.kind # "bullet" => ~bomb)
    BY FieldBase DEF IsBullet, Pulls
  <1> HIDE DEF x, y
  <1>4. After(t) \in 0 .. fieldRate - 1 /\ After(t)' = After(t)
    BY <1>2, FieldTicks DEF After
  <1>5. /\ eased' \in BOOLEAN /\ bent' \in BOOLEAN /\ (eased' <=> m # Parts \/ s)
        /\ (bent' <=> (pull # 0 /\ y.kind = "bullet" /\ "spawning" \in {x.st, y.st}) \/ b)
    BY <1>2
  <1>6. PICK e \in BOOLEAN, f \in BOOLEAN : e = eased' /\ f = bent'
    BY <1>5
  <1>7. Match(field', stock', m, Past(After(t), fieldRate), e, f)
    <2>1. (e <=> m # Parts \/ s) /\ (f <=> BendsOnce(x, y, pull) \/ b)
      BY <1>5, <1>6 DEF BendsOnce
    <2>2. Match(FieldCalled(x, FrameCall(t, m, pull, key)), FieldCalled(y, StockCall(m, pull, key)),
                m, Past(After(t), fieldRate), e, f)
      <3>1. m \in 1 .. Parts /\ bomb \in BOOLEAN /\ key \in {-1, 0, 1} /\ pull \in {0, 1}
            /\ (old.kind # "bullet" => ~bomb)
        BY <1>3
      <3>2. /\ e <=> m # Parts \/ s
            /\ f <=> BendsOnce(Prepared(old, m, bomb), Prepared(oldStock, m, bomb), pull) \/ b
        BY <2>1 DEF x, y
      <3>3. Match(FieldCalled(Prepared(old, m, bomb), FrameCall(t, m, pull, key)),
                  FieldCalled(Prepared(oldStock, m, bomb), StockCall(m, pull, key)),
                  m, Past(After(t), fieldRate), e, f)
        BY <3>1, <3>2, MatchFrame, SMTT(60)
      <3> QED BY <3>3 DEF x, y
    <2> QED BY <1>2, <2>2
  <1>8. FieldClock'
    <2>1. fieldRate' \in FieldRates /\ {ran', coming'} \subseteq 0 .. fieldRate' - 1
      BY <1>2, <1>4
    <2>2. {missed', eased', bent'} \subseteq BOOLEAN /\ multiplier' \in 1 .. Parts /\ lived' \in Nat
      <3>1. missed' \in BOOLEAN /\ multiplier' \in 1 .. Parts /\ lived' \in Nat
        <4>1. multiplier' = m /\ lived' = age + 1
          BY <1>2
        <4>2. multiplier' \in 1 .. Parts
          BY <1>3, <4>1
        <4>3. lived' \in Nat
          BY <4>1
        <4>4. missed' \in BOOLEAN
          BY <1>2
        <4> QED BY <4>2, <4>3, <4>4
      <3> QED BY <1>5, <3>1
    <2>3. ~missed' /\ coming' = After(ran)'
      BY <1>2 DEF After
    <2>4. (~eased' => multiplier' = Parts) /\ lived' # 0
      BY <1>2, <1>5
    <2> QED BY <2>1, <2>2, <2>3, <2>4 DEF FieldClock
  <1>9. Upto' = Past(After(t), fieldRate) /\ EvenField' = EvenField
    BY <1>2 DEF Upto, After, EvenField
  <1>10. Match(field, stock, multiplier, Upto, eased, bent)'
    BY <1>2, <1>6, <1>7, <1>9 DEF Match
  <1> QED BY <1>8, <1>10 DEF FieldInv

LEMMA InitFieldInv == FieldInit => FieldInv
  <1> SUFFICES ASSUME FieldInit PROVE FieldInv
    OBVIOUS
  <1>1. /\ fieldRate \in FieldRates /\ coming = 0 /\ ran = fieldRate - 1 /\ missed = FALSE
        /\ field \in FieldObjects /\ stock = field /\ multiplier = Parts /\ lived = 0
        /\ eased = FALSE /\ bent = FALSE
    BY DEF FieldInit
  <1>2. fieldRate \in Rates /\ fieldRate \in Nat \ {0} /\ Parts \in Nat \ {0}
        /\ UnitsPerFrame \in Nat \ {0}
    BY <1>1, FieldBase, Period
  <1>3. After(ran) = 0
    <2>1. PICK R \in Nat \ {0} : R = fieldRate
      BY <1>2
    <2>2. (1 * R + 0) \div R = 1 /\ (1 * R + 0) % R = 0
      BY DivModUnique
    <2>3. 1 * R + 0 = ran + 1
      BY <1>1, <2>1
    <2> QED BY <2>1, <2>2, <2>3 DEF After
  <1>4. Upto = 0
    BY <1>2, <1>3, FirstTick DEF Upto
  <1>5. FieldClock
    <2>1. {ran, coming} \subseteq 0 .. fieldRate - 1
      BY <1>1, <1>2
    <2>2. multiplier \in 1 .. Parts
      BY <1>1, <1>2
    <2> QED BY <1>1, <1>3, <2>1, <2>2 DEF FieldClock
  <1>6. Match(field, field, multiplier, 0, FALSE, FALSE)
    <2> DEFINE z == IF field.kind = "bullet" THEN [field EXCEPT !.vel = (@ * multiplier) \div Parts]
                    ELSE field
    <2>1. z = field
      <3>1. (OneFrame * Parts) \div Parts = OneFrame
        BY <1>2, FieldBase, DivisionIsExact
      <3>2. CASE field \in Bullets
        <4>1. PICK st \in {"spawning", "live"}, v \in Int, g \in Nat : field = Bullet(st, v, OneFrame, g)
          BY <3>2, BulletsAre
        <4>2. field.kind = "bullet" /\ field.vel = OneFrame /\ field \in AnyBullet
          BY FieldBase, <4>1 DEF Bullet, AnyBullet
        <4>3. z = [field EXCEPT !.vel = OneFrame]
          BY <1>1, <3>1, <4>2
        <4> HIDE DEF z
        <4> QED BY <4>2, <4>3 DEF AnyBullet
      <3>3. CASE field \in {Laser, Item, Player}
        BY <3>3 DEF Laser, Item, Player
      <3> QED BY <1>1, <3>2, <3>3 DEF FieldObjects
    <2>2. multiplier \in 1 .. Parts /\ 0 \in 0 .. UnitsPerFrame - 1
      BY <1>1, <1>2
    <2> HIDE DEF z
    <2>3. Match(z, z, multiplier, 0, FALSE, FALSE)
      BY <1>1, <2>2, NewMatch DEF z
    <2> QED BY <2>1, <2>3
  <1> QED BY <1>1, <1>4, <1>5, <1>6 DEF FieldInv

\* The tick that a frame's pass runs on, whatever pauses went before.
LEMMA ResumedIs ==
    ASSUME FieldInv, IsFrameTick(coming)
    PROVE  /\ Resumed = After(ran) /\ IsFrameTick(After(ran)) /\ After(ran) \in 0 .. fieldRate - 1
           /\ fieldRate \in FieldRates /\ multiplier \in 1 .. Parts
           /\ eased \in BOOLEAN /\ bent \in BOOLEAN
  BY FieldTicks DEF FieldInv, FieldClock, Resumed

LEMMA FieldFrameKeeps == FieldInv /\ FieldFrame => FieldInv'
  <1> SUFFICES ASSUME FieldInv, FieldFrame PROVE FieldInv'
    OBVIOUS
  <1>1. IsFrameTick(coming) /\ RunFrame(Resumed, field, stock, lived)
    BY DEF FieldFrame
  <1>2. /\ Resumed = After(ran) /\ IsFrameTick(After(ran)) /\ After(ran) \in 0 .. fieldRate - 1
        /\ fieldRate \in FieldRates /\ multiplier \in 1 .. Parts
        /\ eased \in BOOLEAN /\ bent \in BOOLEAN
    BY <1>1, ResumedIs
  <1>3. PICK s \in BOOLEAN, b \in BOOLEAN : s = eased /\ b = bent
    BY <1>2
  <1>4. lived \in Nat /\ (s <=> lived > 0 /\ eased) /\ (b <=> lived > 0 /\ bent)
    BY <1>3 DEF FieldInv, FieldClock
  <1>5. Match(field, stock, multiplier, Past(After(ran), fieldRate), s, b)
    BY <1>3 DEF FieldInv, Upto
  <1>6. RunFrame(After(ran), field, stock, lived)
    BY <1>1, <1>2
  <1> QED BY <1>2, <1>4, <1>5, <1>6, RunFrameKeeps

\* A frame with a new object.
LEMMA NewKeeps ==
    ASSUME FieldInv, NEW t \in 0 .. fieldRate - 1, IsFrameTick(t), NEW x \in FieldObjects,
           x.kind = field.kind, NEW z,
           z = IF x.kind = "bullet" THEN [x EXCEPT !.vel = (@ * multiplier) \div Parts] ELSE x,
           RunFrame(t, z, z, 0)
    PROVE  FieldInv'
  <1>1. fieldRate \in FieldRates /\ multiplier \in 1 .. Parts /\ eased \in BOOLEAN /\ bent \in BOOLEAN
    BY DEF FieldInv, FieldClock
  <1>2. Past(t, fieldRate) \in 0 .. UnitsPerFrame - 1 /\ (EvenField => Past(t, fieldRate) = 0)
    BY <1>1, FieldTicks
  <1>3. Match(z, z, multiplier, Past(t, fieldRate), FALSE, FALSE) /\ z.kind = x.kind
    BY <1>1, <1>2, NewMatch
  <1>4. PICK s \in BOOLEAN, b \in BOOLEAN : s = FALSE /\ b = FALSE
    OBVIOUS
  <1>5. 0 \in Nat /\ (s <=> 0 > 0 /\ eased) /\ (b <=> 0 > 0 /\ bent) /\ z.kind = field.kind
    BY <1>3, <1>4
  <1>6. Match(z, z, multiplier, Past(t, fieldRate), s, b)
    BY <1>3, <1>4
  <1> QED BY <1>1, <1>5, <1>6, RunFrameKeeps

LEMMA FieldMinorKeeps == FieldInv /\ FieldMinor => FieldInv'
  <1> SUFFICES ASSUME FieldInv, FieldMinor PROVE FieldInv'
    OBVIOUS
  <1>1. PICK key \in {-1, 0, 1} : field' = FieldCalled(field, TickCall(coming, multiplier, 0, key))
    BY DEF FieldMinor
  <1>2. /\ ~IsFrameTick(coming) /\ ~missed /\ ran' = coming /\ coming' = After(coming)
        /\ fieldRate' = fieldRate /\ missed' = missed /\ stock' = stock
        /\ multiplier' = multiplier /\ lived' = lived /\ eased' = eased /\ bent' = bent
    BY DEF FieldMinor
  <1>3. /\ fieldRate \in FieldRates /\ {ran, coming} \subseteq 0 .. fieldRate - 1
        /\ {missed, eased, bent} \subseteq BOOLEAN /\ multiplier \in 1 .. Parts /\ lived \in Nat
        /\ coming = After(ran) /\ (~eased => multiplier = Parts) /\ (lived = 0 => ~eased /\ ~bent)
    BY <1>2 DEF FieldInv, FieldClock
  <1>4. Match(field, stock, multiplier, Past(coming, fieldRate), eased, bent)
    BY <1>3 DEF FieldInv, Upto
  <1>5. Match(field', stock, multiplier, Past(After(coming), fieldRate), eased, bent)
    BY <1>1, <1>2, <1>3, <1>4, MatchMinor
  <1>6. Upto' = Past(After(coming), fieldRate) /\ EvenField' = EvenField
        /\ After(ran)' = After(coming)
    BY <1>2 DEF Upto, After, EvenField
  <1>7. Match(field, stock, multiplier, Upto, eased, bent)'
    BY <1>2, <1>5, <1>6 DEF Match
  <1>8. After(coming) \in 0 .. fieldRate - 1
    BY <1>3, FieldTicks
  <1>9. FieldClock'
    <2>1. {ran', coming'} \subseteq 0 .. fieldRate' - 1
      BY <1>2, <1>3, <1>8
    <2> QED BY <1>2, <1>3, <1>6, <2>1 DEF FieldClock
  <1> QED BY <1>7, <1>9 DEF FieldInv

\* The ticks that leave the objects alone.
LEMMA FieldRests ==
    ASSUME FieldInv, UNCHANGED <<fieldRate, ran, field, stock, multiplier, lived, eased, bent>>,
           coming' \in 0 .. fieldRate - 1, missed' \in BOOLEAN,
           IF missed' THEN IsFrameTick(After(ran)) ELSE coming' = After(ran)
    PROVE  FieldInv'
  <1>1. Upto' = Upto /\ EvenField' = EvenField /\ After(ran)' = After(ran)
        /\ (IsFrameTick(After(ran)))' = IsFrameTick(After(ran))
    BY DEF Upto, After, EvenField, IsFrameTick
  <1>2. Match(field, stock, multiplier, Upto, eased, bent)'
    BY <1>1 DEF FieldInv, Match
  <1>3. FieldClock'
    BY <1>1 DEF FieldInv, FieldClock
  <1> QED BY <1>2, <1>3 DEF FieldInv

LEMMA FieldPauseKeeps == FieldInv /\ FieldPause => FieldInv'
  <1> SUFFICES ASSUME FieldInv, FieldPause PROVE FieldInv'
    OBVIOUS
  <1>1. /\ IsFrameTick(coming) \/ missed
        /\ missed' = (missed \/ IsFrameTick(coming)) /\ coming' = After(coming)
        /\ UNCHANGED <<fieldRate, ran, field, stock, multiplier, lived, eased, bent>>
    BY DEF FieldPause
  <1>2. fieldRate \in FieldRates /\ coming \in 0 .. fieldRate - 1 /\ missed \in BOOLEAN
        /\ (IF missed THEN IsFrameTick(After(ran)) ELSE coming = After(ran))
    BY DEF FieldInv, FieldClock
  <1>3. coming' \in 0 .. fieldRate - 1
    BY <1>1, <1>2, FieldTicks
  <1>4. missed' /\ missed' \in BOOLEAN /\ IsFrameTick(After(ran))
    BY <1>1, <1>2
  <1> QED BY <1>1, <1>3, <1>4, FieldRests

LEMMA NextFieldInv == FieldInv /\ [FieldNext]_fieldVars => FieldInv'
  <1> SUFFICES ASSUME FieldInv, [FieldNext]_fieldVars PROVE FieldInv'
    OBVIOUS
  <1>1. CASE FieldFrame
    BY <1>1, FieldFrameKeeps
  <1>2. CASE FieldNewborn
    <2>1. PICK x \in FieldObjects :
            /\ x.kind = field.kind
            /\ LET z == IF x.kind = "bullet" THEN [x EXCEPT !.vel = (@ * multiplier) \div Parts]
                        ELSE x
               IN RunFrame(Resumed, z, z, 0)
      BY <1>2 DEF FieldNewborn
    <2>2. Resumed \in 0 .. fieldRate - 1 /\ IsFrameTick(Resumed)
      BY <1>2, ResumedIs DEF FieldNewborn
    <2> QED BY <2>1, <2>2, NewKeeps
  <1>3. CASE FieldStage
    <2>1. PICK x \in FieldObjects :
            /\ x.kind = field.kind
            /\ LET z == IF x.kind = "bullet" THEN [x EXCEPT !.vel = (@ * multiplier) \div Parts]
                        ELSE x
               IN RunFrame(0, z, z, 0)
      BY <1>3 DEF FieldStage
    <2>2. 0 \in 0 .. fieldRate - 1 /\ IsFrameTick(0)
      <3>1. fieldRate \in Rates /\ fieldRate \in Nat \ {0}
        BY FieldBase, Period DEF FieldInv, FieldClock
      <3> QED BY <3>1, FirstTick DEF IsFrameTick, OnTick
    <2> QED BY <2>1, <2>2, NewKeeps
  <1>4. CASE FieldMinor
    BY <1>4, FieldMinorKeeps
  <1>5. CASE FieldPause
    BY <1>5, FieldPauseKeeps
  <1>6. CASE UNCHANGED fieldVars
    <2>1. /\ UNCHANGED <<fieldRate, ran, field, stock, multiplier, lived, eased, bent>>
          /\ coming' = coming /\ missed' = missed
      BY <1>6 DEF fieldVars
    <2>2. /\ coming \in 0 .. fieldRate - 1 /\ missed \in BOOLEAN
          /\ IF missed THEN IsFrameTick(After(ran)) ELSE coming = After(ran)
      BY DEF FieldInv, FieldClock
    <2> QED BY <2>1, <2>2, FieldRests
  <1> QED BY <1>1, <1>2, <1>3, <1>4, <1>5, <1>6 DEF FieldNext

\* Of the multiples of Every there is at most one more, up to the next number.
LEMMA DueNext ==
    ASSUME NEW n \in Int
    PROVE  Due(n) \in Int /\ Due(n + 1) \in Due(n) .. Due(n) + 1
  <1>1. PICK e \in Nat \ {0} : e = Every
    BY FieldBase
  <1>2. n \div e \in Int /\ (n \div e) * e <= n /\ n < (n \div e + 1) * e
    BY FloorInt
  <1>3. (n + 1) \div e \in Int /\ ((n + 1) \div e) * e <= n + 1
        /\ n + 1 < ((n + 1) \div e + 1) * e
    BY FloorInt
  <1>4. PICK a \in Int, b \in Int : a = n \div e /\ b = (n + 1) \div e
    BY <1>2, <1>3
  <1>5. a <= b
    <2>1. a * e < (b + 1) * e
      BY <1>2, <1>3, <1>4
    <2>2. CASE b + 1 <= a
      <3>1. (b + 1) * e <= a * e
        BY <2>2, MulMono
      <3> QED BY <2>1, <3>1
    <2> QED BY <2>2
  <1>6. b <= a + 1
    <2>1. b * e < (a + 1) * e + 1
      BY <1>2, <1>3, <1>4
    <2>2. CASE a + 2 <= b
      <3>1. (a + 2) * e <= b * e
        BY <2>2, MulMono
      <3>2. (a + 2) * e = (a + 1) * e + e
        OBVIOUS
      <3> QED BY <2>1, <3>1, <3>2
    <2> QED BY <2>2
  <1> QED BY <1>1, <1>4, <1>5, <1>6 DEF Due

\* A laser at a frame's end, at full speed.
LEMMA LaserEnd ==
    ASSUME NEW x \in AnyLaser, NEW y \in AnyLaser, NEW p \in 0 .. UnitsPerFrame - 1,
           Grazing(x, y, p)
    PROVE  /\ Difference(x.timer, y.timer) < OneFrame /\ Difference(x.grazes, y.grazes) <= 1
           /\ x.timer = y.timer => x.grazes = y.grazes
  <1> DEFINE O == OneFrame
             a == Parts * p
             k == x.was \div O
  <1>1. O \in Nat \ {0} /\ a \in 0 .. O - 1
    BY FieldBase, LessThanAFrame
  <1> HIDE DEF O, a
  <1>2. PICK n \in Nat :
          /\ y.timer = n * O /\ y.grazes = Due(n - 1) /\ x.timer - y.timer - a \in -O + 1 .. 0
          /\ x.timer - x.was \in 1 .. O /\ x.grazes = Due(k)
    BY DEF Grazing, O, a
  <1>3. x.timer \in Int /\ y.timer \in Int /\ x.was \in Int /\ x.grazes \in Int /\ y.grazes \in Int
    BY DEF AnyLaser
  <1>4. x.timer - y.timer \in -O + 1 .. O - 1
    BY <1>1, <1>2, <1>3
  <1>5. x.was - n * O \in -2 * O + 1 .. O - 2 /\ (x.timer = y.timer => x.was - n * O \in -O .. -1)
    BY <1>1, <1>2, <1>3, <1>4
  <1>6. k \in Int /\ k * O <= x.was /\ x.was < (k + 1) * O
    BY <1>1, <1>3, FloorInt
  <1> HIDE DEF k
  <1>7. k \in n - 2 .. n
    <2>1. CASE k + 1 <= n - 2
      <3>1. (k + 1) * O <= (n - 2) * O
        BY <1>1, <1>6, <2>1, MulMono
      <3>2. (n - 2) * O = n * O - 2 * O /\ n * O \in Int
        BY <1>1
      <3> QED BY <1>1, <1>3, <1>5, <1>6, <3>1, <3>2
    <2>2. CASE n + 1 <= k
      <3>1. (n + 1) * O <= k * O
        BY <1>1, <1>6, <2>2, MulMono
      <3>2. (n + 1) * O = n * O + O /\ n * O \in Int
        BY <1>1
      <3> QED BY <1>1, <1>3, <1>5, <1>6, <3>1, <3>2
    <2> QED BY <1>6, <2>1, <2>2
  <1>8. x.timer = y.timer => k = n - 1
    <2>1. CASE k <= n - 2 /\ x.timer = y.timer
      <3>1. (k + 1) * O <= (n - 1) * O
        BY <1>1, <1>6, <2>1, MulMono
      <3>2. (n - 1) * O = n * O - O /\ n * O \in Int
        BY <1>1
      <3> QED BY <1>1, <1>3, <1>5, <1>6, <2>1, <3>1, <3>2
    <2>2. CASE n <= k /\ x.timer = y.timer
      <3>1. n * O <= k * O
        BY <1>1, <1>6, <2>2, MulMono
      <3>2. n * O \in Int
        BY <1>1
      <3> QED BY <1>1, <1>3, <1>5, <1>6, <2>2, <3>1, <3>2
    <2> QED BY <1>7, <2>1, <2>2
  <1>9. /\ n - 2 \in Int /\ n - 1 \in Int /\ (n - 2) + 1 = n - 1 /\ (n - 1) + 1 = n
        /\ Due(n - 1) \in Due(n - 2) .. Due(n - 2) + 1 /\ Due(n) \in Due(n - 1) .. Due(n - 1) + 1
        /\ Due(n - 2) \in Int /\ Due(n - 1) \in Int
    <2>1. n - 2 \in Int /\ n - 1 \in Int /\ (n - 2) + 1 = n - 1 /\ (n - 1) + 1 = n
      OBVIOUS
    <2>2. Due(n - 2) \in Int /\ Due((n - 2) + 1) \in Due(n - 2) .. Due(n - 2) + 1
      BY <2>1, DueNext
    <2>3. Due(n - 1) \in Int /\ Due((n - 1) + 1) \in Due(n - 1) .. Due(n - 1) + 1
      BY <2>1, DueNext
    <2> QED BY <2>1, <2>2, <2>3
  <1>10. k = n - 2 \/ k = n - 1 \/ k = n
    BY <1>6, <1>7
  <1>11. Difference(x.grazes, y.grazes) <= 1
    BY <1>2, <1>9, <1>10 DEF Difference
  <1>12. Difference(x.timer, y.timer) < O
    BY <1>1, <1>3, <1>4 DEF Difference
  <1> QED BY <1>2, <1>8, <1>11, <1>12 DEF O

LEMMA EndAsStock == FieldInv => FieldAsStock
  <1> SUFFICES ASSUME FieldInv, FieldFrameEnd
               PROVE  Near /\ (EvenField => BulletSame /\ LaserSame /\ PlayerSame)
    BY DEF FieldAsStock
  <1> DEFINE p == Upto
  <1>1. /\ p \in 0 .. UnitsPerFrame - 1 /\ (EvenField => p = 0)
        /\ (~eased => multiplier = Parts) /\ multiplier \in 1 .. Parts /\ Parts \in Nat \ {0}
    <2>1. fieldRate \in FieldRates /\ ran \in 0 .. fieldRate - 1 /\ IsFrameTick(After(ran))
      BY DEF FieldInv, FieldClock, FieldFrameEnd
    <2>2. After(ran) \in 0 .. fieldRate - 1
      BY <2>1, FieldTicks
    <2> QED BY <2>1, <2>2, FieldTicks, FieldBase DEF FieldInv, FieldClock, Upto
  <1>2. MatchOfKind(field, stock, multiplier, p, eased, bent)
    BY MatchIs DEF FieldInv
  <1> HIDE DEF p
  <1>3. Near
    <2>1. field.kind = "item" => field = stock
      BY <1>2 DEF MatchOfKind
    <2>2. ASSUME field.kind = "laser", ~eased
          PROVE  /\ Difference(field.timer, stock.timer) < OneFrame
                 /\ Difference(field.grazes, stock.grazes) <= 1
      <3>1. field \in AnyLaser /\ stock \in AnyLaser /\ Grazing(field, stock, p)
        BY <1>2, <2>2 DEF MatchOfKind
      <3> QED BY <1>1, <3>1, LaserEnd
    <2>3. ASSUME field.kind = "bullet", ~eased, "gone" \notin {field.st, stock.st}
          PROVE  Difference(field.timer, stock.timer) < 2 * OneFrame
      <3>1. field \in AnyBullet /\ stock \in AnyBullet /\ Nearby(field, stock, p)
        BY <1>2, <2>3 DEF MatchOfKind
      <3>2. PICK a \in 0 .. OneFrame - 1 : a = Parts * p
        BY <1>1, LessThanAFrame
      <3>3. /\ field.timer \in Int /\ stock.timer \in Int /\ OneFrame \in Nat \ {0}
            /\ \/ field.timer = 0 /\ stock.timer = 0
               \/ field.timer - stock.timer - a \in -2 * OneFrame + 1 .. 0
               \/ field.timer - stock.timer \in -2 * OneFrame + 1 .. OneFrame
        BY <3>1, <3>2, FieldBase DEF Nearby, AnyBullet
      <3> QED BY <3>3 DEF Difference
    <2> QED BY <2>1, <2>2, <2>3 DEF Near
  <1>4. ASSUME EvenField PROVE BulletSame
    <2> SUFFICES ASSUME field.kind = "bullet", ~bent, ~(eased /\ stock.caught)
                 PROVE  /\ field.st = stock.st /\ field.pos = stock.pos /\ field.vel = stock.vel
                        /\ field.grace = stock.grace /\ (eased \/ field.timer = stock.timer)
      BY DEF BulletSame
    <2>1. field \in AnyBullet /\ stock \in AnyBullet /\ Exact(field, stock, multiplier, p, eased)
      BY <1>2, <1>4 DEF MatchOfKind
    <2>2. PICK n \in Nat : ExactForm(field, stock, multiplier, p, eased, n)
      BY <2>1 DEF Exact
    <2>3. p = 0 /\ 2 * (n * multiplier * p) = 0 /\ n * multiplier * p = 0 /\ Parts * p = 0
      BY <1>1, <1>4
    <2>4. stock.pos \in Int /\ stock.timer \in Int
      BY <2>1 DEF AnyBullet
    <2>5. field.st = stock.st /\ field.pos = stock.pos /\ (eased \/ field.timer = stock.timer)
      BY <2>2, <2>3, <2>4 DEF ExactForm
    <2> QED BY <2>1, <2>5 DEF Exact
  <1>5. ASSUME EvenField PROVE LaserSame
    <2> SUFFICES ASSUME field.kind = "laser"
                 PROVE  field.timer = stock.timer /\ (eased \/ field.grazes = stock.grazes)
      BY DEF LaserSame
    <2>1. /\ field \in AnyLaser /\ stock \in AnyLaser /\ Swept(field, stock, multiplier, p)
          /\ (~eased => Grazing(field, stock, p))
      BY <1>2, <1>5 DEF MatchOfKind
    <2>2. field.timer = stock.timer
      <3>1. multiplier * p = 0 /\ stock.timer \in Int
        BY <1>1, <1>5, <2>1 DEF AnyLaser
      <3> QED BY <2>1, <3>1 DEF Swept
    <2>3. ASSUME ~eased PROVE field.grazes = stock.grazes
      BY <1>1, <2>1, <2>2, <2>3, LaserEnd
    <2> QED BY <2>2, <2>3
  <1>6. ASSUME EvenField PROVE PlayerSame
    <2> SUFFICES ASSUME field.kind = "player", field.held
                 PROVE  field.pos = Clamped(field.start + 2 * field.key * multiplier * UnitsPerFrame)
      BY DEF PlayerSame
    <2>1. Striding(field, multiplier, UnitsPerFrame + p) /\ UnitsPerFrame + p = UnitsPerFrame
      BY <1>1, <1>2, <1>6, FieldBase DEF MatchOfKind
    <2> QED BY <2>1 DEF Striding
  <1> QED BY <1>3, <1>4, <1>5, <1>6

\* TH08's playfield at every rate, with a speed baked into its velocities, whatever
\* the slow motion, the behaviours, the bombs and the pauses: bullets, lasers and the
\* player are the unmodified game's at each frame's end where every frame is cut
\* alike, and near it where not (th08_walk, th08_projectiles_pass, th08_items,
\* th08_player_clamp, th08_sched_resume).
THEOREM FieldStaysStock == FieldSpec => []FieldAsStock
  <1>1. FieldInv /\ [FieldNext]_fieldVars => FieldInv'
    BY NextFieldInv
  <1> QED BY InitFieldInv, <1>1, EndAsStock, PTL DEF FieldSpec
===============================================================================
