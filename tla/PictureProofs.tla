----------------------------- MODULE PictureProofs ----------------------------
(***************************************************************************)
(* Proofs about the picture: who shows it (Presentation), for any sizes,   *)
(* what its draw calls are faded by (DrawClasses), for any priorities,     *)
(* rules, sprites and nesting, and the copies of the textures they show    *)
(* (TextureCopies), for any number of them.  The three share no state.     *)
(*                                                                         *)
(* A device always has its picture arranged: handed over, or drawn on the  *)
(* target and scaled to the chain that was decided on (Arranges).  9Ex is  *)
(* used only where a chain of the patch's own was decided on, and with one *)
(* no reset reaches the device (Decided).                                  *)
(*                                                                         *)
(* A draw call is faded as its quads are because what may be drawn next is *)
(* always of the batch's class (OfItsClass): a VM that has drawn a child,  *)
(* whose class is the child's now, draws no more (Nesting).  The veil is   *)
(* due for as long as nothing of the world is drawn, and once it is laid   *)
(* all that waits is of the world (LayersApart).                           *)
(*                                                                         *)
(* The table of textures holds each of them once and each copy once        *)
(* (Table), whatever order its entries are dropped in (Keeps); a copy that *)
(* is not marked is of its texture as it is (UpToDate), and the budget is  *)
(* the sum of what the entries take (Differ).  A bind that draws a copy    *)
(* holds the place of its texture's entry all along (Holds).               *)
(***************************************************************************)
EXTENDS Presentation, DrawClasses, TextureCopies, WellFoundedInduction, TLAPS

-------------------------------------------------------------------------------
(* The picture. *)

Modes == [want : BOOLEAN, ex : BOOLEAN, external : BOOLEAN, wrapped : BOOLEAN]
Scalers == [bb : {"none", "own", "device"}, out : Sizes \cup {0}, ok : BOOLEAN,
            enabled : BOOLEAN, draws : {"target", "device"}]
Windows == [client : Sizes \cup {0}, minimized : BOOLEAN, moving : BOOLEAN, pending : BOOLEAN]

\* A picture that is handed over is drawn on the device; one of the patch's own is
\* drawn on the target and has a chain to be shown with.
Arranges(m, s) ==
    /\ s.enabled => IF m.external THEN s.bb = "none" /\ s.draws = "device"
                    ELSE /\ s.ok /\ s.draws = "target" /\ s.out \in Sizes
                         /\ s.bb = IF m.want THEN "own" ELSE "device"
    /\ ~s.enabled => s.bb = "none"

\* The INI and the folder leave the patch a chain of its own.
OwnChain == conf.ext # 1 /\ (conf.own = 1 \/ (conf.own = -1 /\ conf.wrapper = "none"))

\* 9Ex goes with a chain of the patch's own, whatever the order of the calls.
Decided ==
    /\ made = "nothing" => mode.want /\ ~mode.external /\ ~mode.wrapped /\ ~usingEx
    /\ ~conf.flip /\ made # "nothing" =>
          IF OwnChain THEN mode.want /\ ~mode.external /\ ~mode.wrapped
                      ELSE ~mode.ex /\ ~usingEx

PictureInv ==
    /\ TypeOK
    /\ made = "device" => chain \in Sizes /\ Arranges(mode, scaler)
    /\ Decided
    /\ PictureShown /\ TexturesKept

\* The window's sizes are positive.
LEMMA Wide == Native \in Sizes /\ 0 \notin Sizes /\ \A w \in Sizes : w \in Nat /\ w > 0
  BY PresentationConstants

\* scaler_set_output, where making a chain does not fail.
LEMMA SetOutputs ==
    ASSUME "chain" \notin Faults, NEW m \in Modes, NEW s \in Scalers, NEW w \in Sizes,
           NEW r \in SetOutput(m, s, w)
    PROVE  /\ r \in Scalers /\ r.ok = s.ok /\ r.enabled = s.enabled /\ r.draws = s.draws
           /\ r.bb = IF m.want THEN "own" ELSE "none"
           /\ m.want => r.out = w
  <1>1. CASE m.want
    <2>1. r = [s EXCEPT !.bb = "own", !.out = w]
      BY <1>1 DEF SetOutput
    <2> QED BY <1>1, <2>1 DEF Scalers
  <1>2. CASE ~m.want
    <2>1. r = [s EXCEPT !.bb = "none", !.out = 0]
      BY <1>2 DEF SetOutput, Released
    <2> QED BY <1>2, <2>1 DEF Scalers
  <1> QED BY <1>1, <1>2

\* The same on a device that has the patch's chain.
LEMMA OwnOutput ==
    ASSUME "chain" \notin Faults, mode \in Modes, mode.want, NEW s \in Scalers,
           NEW w \in Sizes, NEW r, r \in SetOutput(mode, s, w)
    PROVE  /\ r \in Scalers /\ r.ok = s.ok /\ r.enabled = s.enabled /\ r.draws = s.draws
           /\ r.bb = "own" /\ r.out \in Sizes
  <1>1. r = [s EXCEPT !.bb = "own", !.out = w]
    BY DEF SetOutput
  <1> QED BY <1>1 DEF Scalers

\* scaler_create arranges the chain as the mode wants it.
LEMMA ScalerCreates ==
    ASSUME "chain" \notin Faults, TypeOK, NEW m \in Modes, NEW s \in Scalers, NEW used \in Sizes,
           m.external => s.draws = "device" \/ ~s.enabled,
           NEW r \in ScalerCreate(m, s, used)
    PROVE  r \in Scalers /\ Arranges(m, r) /\ (r.enabled => s.enabled)
  <1>1. PICK k : k = ReleasedAll(s)
    OBVIOUS
  <1>0. k \in Scalers /\ k.bb = "none" /\ ~k.ok /\ k.enabled = s.enabled /\ k.draws = s.draws
    BY <1>1 DEF ReleasedAll, Released, Scalers
  <1>2. CASE m.external
    <2>1. r = [k EXCEPT !.out = used]
      BY <1>1, <1>2 DEF ScalerCreate, ExternalCreate
    <2> QED BY <1>0, <1>1, <1>2, <2>1 DEF Scalers, Arranges
  <1>3. CASE ~m.external /\ ~s.enabled
    <2>1. r = k
      BY <1>0, <1>1, <1>3 DEF ScalerCreate
    <2> QED BY <1>0, <1>1, <1>3, <2>1 DEF Arranges
  <1>4. CASE ~m.external /\ s.enabled
    <2>1. PICK c \in Sizes : c = ClientOr(Native)
      <3>1. ClientOr(Native) \in Sizes
        BY Wide DEF ClientOr, TypeOK
      <3> QED BY <3>1
    <2>2. \/ \E o \in SetOutput(m, k, c) : r = [OrDevice(o, used) EXCEPT !.ok = TRUE, !.draws = "target"]
          \/ r = [k EXCEPT !.enabled = FALSE]
      BY <1>0, <1>1, <1>4, <2>1 DEF ScalerCreate
    <2>3. CASE r = [k EXCEPT !.enabled = FALSE]
      BY <1>0, <1>1, <2>3 DEF Scalers, Arranges
    <2>4. ASSUME NEW o \in SetOutput(m, k, c),
                 r = [OrDevice(o, used) EXCEPT !.ok = TRUE, !.draws = "target"]
          PROVE  r \in Scalers /\ Arranges(m, r)
      <3>1. /\ o \in Scalers /\ o.enabled /\ o.bb = IF m.want THEN "own" ELSE "none"
            /\ m.want => o.out = c
        BY ZenonT(40), <1>0, <1>1, <1>4, <2>4, SetOutputs
      <3>2. PICK d : d = OrDevice(o, used)
        OBVIOUS
      <3>3. /\ d \in Scalers /\ d.enabled /\ d.out \in Sizes
            /\ d.bb = IF m.want THEN "own" ELSE "device"
        BY <3>1, <3>2 DEF OrDevice, Scalers
      <3>4. r = [d EXCEPT !.ok = TRUE, !.draws = "target"]
        BY <2>4, <3>2
      <3> QED BY <1>4, <3>3, <3>4 DEF Scalers, Arranges
    <2> QED BY <1>4, <2>2, <2>3, <2>4
  <1> QED BY <1>2, <1>3, <1>4

\* What is arranged is shown.
LEMMA ArrangedIsShown ==
    ASSUME NEW m \in Modes, NEW s \in Scalers, Arranges(m, s)
    PROVE  Shows(s) = "stale" => ~s.enabled
  <1> SUFFICES ASSUME s.enabled PROVE Shows(s) = "picture"
    BY DEF Scalers
  <1>1. CASE m.external
    BY <1>1 DEF Shows, Blits, Arranges
  <1>2. CASE ~m.external
    <2>1. s.ok /\ s.bb # "none" /\ s.out \in Sizes
      BY <1>2 DEF Arranges
    <2>2. s.out > 0
      BY <2>1, Wide
    <2> QED BY <2>1, <2>2 DEF Shows, Blits
  <1> QED BY <1>1, <1>2

\* A reset of the device arranges it again, or switches the scaling off.
LEMMA Resets ==
    ASSUME "chain" \notin Faults, PictureInv, made = "device", NEW s \in Scalers, Arranges(mode, s),
           s.enabled => scaler.enabled, s.bb # "own", DeviceReset(s)
    PROVE  /\ scaler' \in Scalers /\ Arranges(mode, scaler') /\ (scaler'.enabled => s.enabled)
           /\ chain' \in Sizes
           /\ lost' \in BOOLEAN /\ (lost' => conf.flip \/ ~scaler'.enabled)
  <1>1. mode \in Modes /\ chain \in Sizes /\ lost \in BOOLEAN /\ usingEx \in BOOLEAN /\ conf \in Confs
        /\ window \in Windows
    BY DEF PictureInv, TypeOK, Modes, Windows
  <1>2. AdjustPp(mode) \in Sizes
    BY <1>1, Wide DEF AdjustPp, ClientOr, Windows
  <1>3. s.enabled /\ usingEx => conf.flip
    BY <1>1 DEF PictureInv, Decided, Arranges, Modes
  <1>4. CASE /\ chain' = AdjustPp(mode) /\ lost' = (lost \/ usingEx)
             /\ scaler' \in ScalerCreate(mode, [s EXCEPT !.draws = "device"], chain')
    <2>1. PICK k : k = [s EXCEPT !.draws = "device"]
      OBVIOUS
    <2>0. k \in Scalers /\ k.draws = "device" /\ k.enabled = s.enabled
      BY <2>1 DEF Scalers
    <2>2. /\ scaler' \in Scalers /\ Arranges(mode, scaler') /\ (scaler'.enabled => k.enabled)
      BY <1>1, <1>2, <1>4, <2>0, <2>1, ScalerCreates DEF PictureInv
    <2>3. lost' => conf.flip \/ ~s.enabled
      BY <1>3, <1>4 DEF PictureInv, TexturesKept
    <2> QED BY <1>1, <1>2, <1>4, <2>0, <2>2, <2>3
  <1>5. CASE scaler' \in ScalerCreate(mode, s, chain) /\ UNCHANGED <<chain, lost>>
    <2>1. /\ scaler' \in Scalers /\ Arranges(mode, scaler') /\ (scaler'.enabled => s.enabled)
      BY <1>1, <1>5, ScalerCreates DEF PictureInv, Arranges
    <2> QED BY <1>1, <1>5, <2>1 DEF PictureInv, TexturesKept
  <1> QED BY <1>4, <1>5 DEF DeviceReset, ResetFailed

\* What leaves the device and what was decided as they are.
LEMMA PictureKept ==
    ASSUME PictureInv, UNCHANGED <<conf, mode, usingEx, made>>,
           scaler' \in Scalers, window' \in Windows, chain' \in Sizes \cup {0},
           chainDue' \in BOOLEAN, lost' \in BOOLEAN, shown' \in {"none", "picture", "stale"},
           made = "device" => chain' \in Sizes /\ Arranges(mode, scaler'),
           shown' = "stale" => ~scaler'.enabled,
           lost' => conf.flip \/ ~scaler'.enabled
    PROVE  PictureInv'
  <1>1. TypeOK'
    BY DEF PictureInv, TypeOK, Scalers, Windows
  <1>2. Decided'
    BY DEF PictureInv, Decided, OwnChain
  <1>3. PictureShown' /\ TexturesKept'
    BY DEF PictureShown, TexturesKept
  <1>4. made' = "device" => chain' \in Sizes /\ Arranges(mode, scaler)'
    BY DEF Arranges
  <1> QED BY <1>1, <1>2, <1>3, <1>4 DEF PictureInv

\* Direct3DCreate9 decides the mode,
LEMMA DetectDecides ==
    ASSUME PictureInv, Direct3DCreate9
    PROVE  mode' \in Modes /\ Decided'
  <1>1. /\ mode' = Detect(mode) /\ usingEx' = (usingEx \/ mode'.ex) /\ made' = "object"
        /\ conf' = conf /\ mode \in Modes /\ conf \in Confs /\ usingEx \in BOOLEAN
    BY DEF Direct3DCreate9, PictureInv, TypeOK, Modes
  <1>2. mode' \in Modes
    BY <1>1 DEF Detect, EnterExternal, DeviceChain, Modes
  <1>3. CASE OwnChain /\ ~conf.flip
    <2>1. mode.want /\ ~mode.external /\ ~mode.wrapped
      BY <1>1, <1>3 DEF PictureInv, Decided
    <2>2. mode' = mode \/ mode' = [mode EXCEPT !.want = TRUE]
      BY <1>1, <1>3 DEF Detect, OwnChain
    <2> QED BY <1>1, <1>2, <1>3, <2>1, <2>2 DEF Decided, OwnChain, Modes
  <1>4. CASE ~OwnChain /\ ~conf.flip
    <2>1. ~usingEx
      BY <1>4 DEF PictureInv, Decided
    <2>2. ~mode'.ex
      BY <1>1, <1>4 DEF Detect, EnterExternal, DeviceChain, OwnChain, Confs, Modes
    <2> QED BY <1>1, <1>2, <1>4, <2>1, <2>2 DEF Decided, OwnChain
  <1>5. CASE conf.flip
    BY <1>1, <1>2, <1>5 DEF Decided
  <1> QED BY <1>2, <1>3, <1>4, <1>5

\* and CreateDevice on a device of either kind.
LEMMA HandsOver ==
    ASSUME PictureInv, CreateDevice
    PROVE  mode' \in Modes /\ usingEx' \in BOOLEAN /\ Decided'
  <1>1. /\ mode' = HandOver(mode) /\ made # "nothing" /\ made' = "device" /\ conf' = conf
        /\ mode \in Modes /\ conf \in Confs /\ usingEx \in BOOLEAN
        /\ usingEx' = usingEx \/ usingEx' = FALSE
    BY DEF CreateDevice, PictureInv, TypeOK, Modes
  <1>2. mode' = mode \/ (mode.wrapped /\ mode' = EnterExternal(mode))
    BY <1>1 DEF HandOver
  <1>3. mode' \in Modes /\ (mode'.ex => mode.ex)
    BY <1>1, <1>2 DEF EnterExternal, Modes
  <1>4. ~conf.flip /\ OwnChain => mode' = mode
    BY <1>1, <1>2 DEF PictureInv, Decided
  <1>5. CASE ~conf.flip /\ OwnChain
    BY <1>1, <1>3, <1>4, <1>5 DEF PictureInv, Decided, OwnChain
  <1>6. CASE ~conf.flip /\ ~OwnChain
    <2>1. ~mode.ex /\ ~usingEx
      BY <1>1, <1>6 DEF PictureInv, Decided
    <2>2. ~mode'.ex /\ ~usingEx'
      BY <1>1, <1>3, <2>1
    <2> QED BY <1>1, <1>3, <1>6, <2>2 DEF Decided, OwnChain
  <1>7. CASE conf.flip
    BY <1>1, <1>3, <1>7 DEF Decided
  <1> QED BY <1>5, <1>6, <1>7

\* Every step keeps the picture's invariant,
LEMMA PictureNext == "chain" \notin Faults /\ PictureInv /\ [Next]_vars => PictureInv'
  <1> SUFFICES ASSUME "chain" \notin Faults, PictureInv, [Next]_vars PROVE PictureInv'
    OBVIOUS
  <1>0. /\ mode \in Modes /\ scaler \in Scalers /\ window \in Windows /\ conf \in Confs
        /\ usingEx \in BOOLEAN /\ chain \in Sizes \cup {0} /\ chainDue \in BOOLEAN
        /\ lost \in BOOLEAN /\ shown \in {"none", "picture", "stale"}
        /\ made = "device" => chain \in Sizes /\ Arranges(mode, scaler)
        /\ shown = "stale" => ~scaler.enabled
        /\ lost => conf.flip \/ ~scaler.enabled
    BY DEF PictureInv, TypeOK, Modes, Scalers, Windows, PictureShown, TexturesKept
  <1>1. CASE Direct3DCreate9
    <2>1. mode' \in Modes /\ Decided'
      BY <1>1, DetectDecides
    <2>2. /\ made' = "object" /\ UNCHANGED <<conf, chain, scaler, window, chainDue, lost, shown>>
          /\ usingEx' = (usingEx \/ mode'.ex)
      BY <1>1 DEF Direct3DCreate9
    <2>3. TypeOK'
      BY <1>0, <2>1, <2>2 DEF PictureInv, TypeOK, Modes
    <2> QED BY <1>0, <2>1, <2>2, <2>3 DEF PictureInv, PictureShown, TexturesKept
  <1>2. CASE CreateDevice
    <2>1. mode' \in Modes /\ usingEx' \in BOOLEAN /\ Decided'
      BY <1>2, HandsOver
    <2>2. /\ made' = "device" /\ chain' = AdjustPp(mode) /\ ~lost' /\ lost' \in BOOLEAN
          /\ shown' = "none" /\ UNCHANGED <<conf, window, chainDue>>
          /\ scaler' \in ScalerCreate(mode', [scaler EXCEPT !.draws = "device"], chain')
      BY <1>2 DEF CreateDevice
    <2>3. chain' \in Sizes
      BY <1>0, <2>2, Wide DEF AdjustPp, ClientOr, Windows
    <2>4. PICK k : k = [scaler EXCEPT !.draws = "device"]
      OBVIOUS
    <2>5. k \in Scalers /\ k.draws = "device"
      BY <1>0, <2>4 DEF Scalers
    <2>6. scaler' \in Scalers /\ Arranges(mode', scaler')
      BY <2>1, <2>2, <2>3, <2>4, <2>5, ScalerCreates DEF PictureInv
    <2>7. TypeOK'
      BY <1>0, <2>1, <2>2, <2>3, <2>6 DEF TypeOK, Modes, Scalers, Windows
    <2> QED BY <2>1, <2>2, <2>3, <2>6, <2>7 DEF PictureInv, PictureShown, TexturesKept
  <1>3. CASE GameReset
    <2>1. made = "device" /\ UNCHANGED <<conf, mode, usingEx, made, window, chainDue, shown>>
      BY <1>3 DEF GameReset
    <2>2. CASE AnswersReset
      <3>1. /\ UNCHANGED <<chain, lost>>
            /\ \/ scaler' = scaler
               \/ /\ window.client \in Sizes
                  /\ scaler' \in SetOutput(mode, scaler, window.client)
        BY <1>0, <1>3, <2>2 DEF GameReset, Windows
      <3>2. scaler.enabled /\ mode.want
        BY <1>0, <2>1, <2>2 DEF AnswersReset, Arranges, Modes
      <3>3. CASE scaler' = scaler
        BY <1>0, <2>1, <3>1, <3>3, PictureKept
      <3>4. CASE /\ window.client \in Sizes
                 /\ scaler' \in SetOutput(mode, scaler, window.client)
        <4>1. /\ scaler' \in Scalers /\ scaler'.ok = scaler.ok /\ scaler'.enabled = scaler.enabled
              /\ scaler'.draws = scaler.draws /\ scaler'.bb = "own" /\ scaler'.out \in Sizes
          BY ZenonT(40), <1>0, <3>2, <3>4, OwnOutput
        <4>2. Arranges(mode, scaler')
          BY <1>0, <2>1, <2>2, <3>2, <4>1 DEF Arranges, AnswersReset
        <4> QED BY <1>0, <2>1, <3>1, <4>1, <4>2, PictureKept
      <3> QED BY <3>1, <3>3, <3>4
    <2>3. CASE ~AnswersReset
      <3>1. DeviceReset(scaler) /\ scaler.bb # "own"
        BY <1>3, <2>3 DEF GameReset, AnswersReset
      <3>2. /\ scaler' \in Scalers /\ Arranges(mode, scaler') /\ (scaler'.enabled => scaler.enabled)
            /\ chain' \in Sizes /\ lost' \in BOOLEAN /\ (lost' => conf.flip \/ ~scaler'.enabled)
        BY <1>0, <2>1, <3>1, Resets
      <3> QED BY <1>0, <2>1, <3>2, PictureKept
    <2> QED BY <2>2, <2>3
  <1>4. ASSUME window' \in Windows, chainDue' \in BOOLEAN,
               UNCHANGED <<conf, mode, usingEx, made, chain, scaler, lost, shown>>
        PROVE  PictureInv'
    BY <1>0, <1>4, PictureKept
  <1>5. ASSUME NEW w \in Sizes, Resize(w) PROVE PictureInv'
    <2>1. window' \in Windows
      BY <1>0, <1>5 DEF Resize, Windows, SizePending, Arranged, Attached
    <2> QED BY <1>0, <1>4, <1>5, <2>1 DEF Resize, MessageOnly
  <1>6. CASE Minimize \/ EnterSizeMove \/ ExitSizeMove
    <2>1. window' \in Windows
      BY <1>0, <1>6 DEF Minimize, EnterSizeMove, ExitSizeMove, DragEnds, Windows, Attached
    <2> QED BY <1>0, <1>4, <1>6, <2>1 DEF Minimize, EnterSizeMove, ExitSizeMove, MessageOnly
  <1>7. CASE SetVSync
    BY <1>0, <1>4, <1>7 DEF SetVSync
  <1>8. CASE Frame
    <2>1. made = "device" /\ chainDue' = FALSE /\ UNCHANGED <<conf, mode, usingEx, made>>
      BY <1>8 DEF Frame
    <2>2. PICK s \in VSyncApplied : Skipped(s) \/ Unresized(s) \/ ResizedOwn(s) \/ ResizedDevice(s)
      BY <1>8 DEF Frame
    <2>3. s \in Scalers /\ Arranges(mode, s) /\ s.enabled = scaler.enabled
      <3>1. CASE chainDue /\ scaler.bb = "own"
        <4>1. /\ scaler.enabled /\ mode.want /\ scaler.out \in Sizes
              /\ s \in SetOutput(mode, scaler, scaler.out)
          BY <1>0, <2>1, <2>2, <3>1 DEF Arranges, VSyncApplied, Modes
        <4>2. /\ s \in Scalers /\ s.ok = scaler.ok /\ s.enabled = scaler.enabled
              /\ s.draws = scaler.draws /\ s.bb = "own" /\ s.out \in Sizes
          BY ZenonT(40), <1>0, <4>1, OwnOutput
        <4> QED BY <1>0, <2>1, <3>1, <4>1, <4>2 DEF Arranges
      <3>2. CASE ~(chainDue /\ scaler.bb = "own")
        BY <1>0, <2>1, <2>2, <3>2 DEF VSyncApplied
      <3> QED BY <3>1, <3>2
    <2>4. Shows(s) \in {"picture", "stale"} /\ (Shows(s) = "stale" => ~s.enabled)
      BY <1>0, <2>3, ArrangedIsShown DEF Shows
    <2>5. CASE Skipped(s)
      BY <1>0, <2>1, <2>3, <2>5, PictureKept DEF Skipped
    <2>6. CASE Unresized(s)
      <3>1. scaler' = s /\ shown' = Shows(s) /\ UNCHANGED <<chain, lost>>
        BY <2>6 DEF Unresized
      <3>2. window' \in Windows
        BY <1>0, <2>3, <2>6 DEF Unresized, Windows, ResizeWanted, Scalers
      <3> QED BY <1>0, <2>1, <2>3, <2>4, <3>1, <3>2, PictureKept
    <2>7. CASE ResizedOwn(s)
      <3>1. /\ window.client \in Sizes /\ s.bb = "own" /\ UNCHANGED <<chain, lost>>
            /\ scaler' \in SetOutput(mode, s, window.client)
            /\ shown' \in {shown, Shows(scaler')}
        BY <1>0, <2>7 DEF ResizedOwn, Follows, Windows
      <3>2. s.enabled /\ mode.want
        BY <1>0, <2>3, <3>1 DEF Arranges, Modes
      <3>3. /\ scaler' \in Scalers /\ scaler'.ok = s.ok /\ scaler'.enabled = s.enabled
            /\ scaler'.draws = s.draws /\ scaler'.bb = "own" /\ scaler'.out \in Sizes
        BY ZenonT(40), <1>0, <2>3, <3>1, <3>2, OwnOutput
      <3>4. Arranges(mode, scaler')
        BY <2>3, <3>1, <3>2, <3>3 DEF Arranges
      <3>5. shown' \in {"none", "picture", "stale"} /\ (shown' = "stale" => ~scaler'.enabled)
        BY <1>0, <2>3, <3>1, <3>3, <3>4, ArrangedIsShown DEF Shows
      <3>6. window' \in Windows
        BY <1>0, <2>7 DEF ResizedOwn, Windows
      <3> QED BY <1>0, <2>1, <2>3, <3>1, <3>3, <3>4, <3>5, <3>6, PictureKept
    <2>8. CASE ResizedDevice(s)
      <3>1. /\ s.bb # "own" /\ DeviceReset(s) /\ shown' \in {shown, Shows(scaler')}
        BY <2>8 DEF ResizedDevice
      <3>2. /\ scaler' \in Scalers /\ Arranges(mode, scaler') /\ (scaler'.enabled => s.enabled)
            /\ chain' \in Sizes /\ lost' \in BOOLEAN /\ (lost' => conf.flip \/ ~scaler'.enabled)
        BY <2>1, <2>3, <3>1, Resets
      <3>3. shown' \in {"none", "picture", "stale"} /\ (shown' = "stale" => ~scaler'.enabled)
        BY <1>0, <2>3, <3>1, <3>2, ArrangedIsShown DEF Shows
      <3>4. window' \in Windows
        BY <1>0, <2>8 DEF ResizedDevice, Windows
      <3> QED BY <1>0, <2>1, <3>2, <3>3, <3>4, PictureKept
    <2> QED BY <2>2, <2>5, <2>6, <2>7, <2>8
  <1>9. CASE UNCHANGED vars
    BY <1>0, <1>4, <1>9 DEF vars
  <1> QED BY <1>1, <1>2, <1>3, <1>5, <1>6, <1>7, <1>8, <1>9 DEF Next

\* which holds at the start.
LEMMA PictureInit == Init => PictureInv
  <1> SUFFICES ASSUME Init PROVE PictureInv
    OBVIOUS
  <1>1. TypeOK
    BY Wide DEF Init, TypeOK, Confs
  <1> QED BY <1>1 DEF Init, PictureInv, Decided, PictureShown, TexturesKept

\* PictureShown (scaler_blit, hook_Present_inner): for any sizes and any order of
\* creations, resets, resizes and switches of vsync, a frame is shown whenever
\* scaling is on; if a chain of the patch's own can always be made.
THEOREM ShowsThePicture ==
    ASSUME "chain" \notin Faults
    PROVE  Spec => []PictureShown
  <1>1. PictureInv => PictureShown
    BY DEF PictureInv
  <1> QED BY <1>1, PictureInit, PictureNext, PTL DEF Spec

\* TexturesKept (scaler.c:168-178, d3d9.c:308-312): on the same condition, no reset
\* of a 9Ex device destroys the game's textures, whichever wrapper is found and
\* however often the game makes its Direct3D anew.
THEOREM KeepsTextures ==
    ASSUME "chain" \notin Faults
    PROVE  Spec => []TexturesKept
  <1>1. PictureInv => TexturesKept
    BY DEF PictureInv
  <1> QED BY <1>1, PictureInit, PictureNext, PTL DEF Spec
-------------------------------------------------------------------------------
(* The classes of draw calls. *)

VMs == [sprite : Sprites, caller : {1, 2}, parent : BOOLEAN]

\* The callers kept are those of the VM draws in progress, all but the
\* innermost of which have drawn a child.
Nesting ==
    /\ vms \in Seq(VMs) /\ Depth <= Nested
    /\ callers \in Seq({1, 2}) /\ Len(callers) = Depth
    /\ \A i \in 1 .. Depth : callers[i] = vms[i].caller
    /\ \A i \in 1 .. Depth - 1 : vms[i].parent
    /\ vms # <<>> => sprited
    /\ ~strayed

\* What may be drawn now is of the batch's class, and so is what waits in it and
\* what went out with it.
OfItsClass ==
    /\ prio = Outside => class = NoClass
    /\ vms # <<>> /\ ~vms[Depth].parent => class = Classify(prio, vms[Depth].sprite)
    /\ vms = <<>> /\ prio # Outside =>
           class = IF sprited THEN NoClass ELSE Classify(prio, Own)
    /\ sprited \in BOOLEAN
    /\ \A q \in batch : q.class = class
    /\ \A q \in drawn.quads : q.class = drawn.class
    /\ drawn.additive \in BOOLEAN

\* The veil is due until the world begins, and nothing of it is drawn before; once
\* the veil is laid all that waits is of the world.
LayersApart ==
    /\ prio \in Nat /\ last \in Nat /\ (prio # Outside => prio = last)
    /\ veiled \in BOOLEAN /\ inGame \in BOOLEAN
    /\ "background" \in Faded /\ inGame /\ ~veiled => last < WorldPrio
    /\ last < WorldPrio =>
           painted \subseteq {"background"} /\ \A q \in batch : q.layer = "background"
    /\ "veil" \in painted => \A q \in batch : q.layer = "world"
    /\ VeilBetween

DrawInv == Nesting /\ OfItsClass /\ LayersApart

\* A draw call of a faded class is faded once, additive or not.
LEMMA FadesOnce ==
    ASSUME AdditiveSource = "one", NEW c, NEW a \in BOOLEAN
    PROVE  Fades(c, a) = IF c \in Faded THEN 1 ELSE 0
  BY DEF Fades, InColour, InAlpha

\* Outside the callbacks nothing has a class.
LEMMA OutsideNoClass == \A w : Classify(Outside, w) = NoClass
  BY DEF Classify

\* A frame's priorities are above that of no callback.
LEMMA Numbers == /\ WorldPrio \in Nat \ {0} /\ Nested \in Nat
                 /\ \A p \in Priorities : p \in Nat /\ p # Outside
  BY DrawConstants DEF Outside

\* dim_vm_enter: the nest grows by the sprite and its return address,
LEMMA EnterNests ==
    ASSUME Nesting, Nested <= Callers, NEW s \in Sprites, NEW caller \in {1, 2},
           Depth < Nested, Called(s, caller)
    PROVE  /\ vms' \in Seq(VMs) /\ Depth' = Depth + 1 /\ Depth' <= Nested
           /\ callers' \in Seq({1, 2}) /\ Len(callers') = Depth'
           /\ \A i \in 1 .. Depth' : callers'[i] = vms'[i].caller
           /\ \A i \in 1 .. Depth' - 1 : vms'[i].parent
           /\ vms'[Depth'].sprite = s /\ ~vms'[Depth'].parent
           /\ vms' # <<>> /\ sprited' = TRUE
  <1> DEFINE t == [i \in DOMAIN vms |-> [vms[i] EXCEPT !.parent = (i = Depth) \/ @]]
             new == [sprite |-> s, caller |-> caller, parent |-> FALSE]
  <1>1. /\ vms \in Seq(VMs) /\ Depth \in Nat /\ DOMAIN vms = 1 .. Depth /\ Nested \in Nat /\ Callers \in Nat
        /\ \A i \in 1 .. Depth : vms[i] \in VMs
    BY DrawConstants DEF Nesting, Depth
  <1>2. \A i \in 1 .. Depth : /\ t[i] \in VMs /\ t[i].caller = vms[i].caller
                              /\ t[i].parent = ((i = Depth) \/ vms[i].parent)
    BY <1>1 DEF VMs
  <1>3. t \in Seq(VMs) /\ Len(t) = Depth
    <2>1. t \in [1 .. Depth -> VMs]
      BY <1>1, <1>2
    <2> HIDE DEF t
    <2> QED BY <1>1, <2>1
  <1>4. new \in VMs /\ vms' = Append(t, new) /\ callers' = Append(callers, caller) /\ sprited' = TRUE
    BY <1>1 DEF Called, VMs
  <1> HIDE DEF t, new
  <1>5. /\ vms' \in Seq(VMs) /\ Len(vms') = Depth + 1 /\ vms'[Depth + 1] = new
        /\ \A i \in 1 .. Depth : vms'[i] = t[i]
    BY <1>1, <1>3, <1>4
  <1>6. /\ callers' \in Seq({1, 2}) /\ Len(callers') = Depth + 1 /\ callers'[Depth + 1] = caller
        /\ \A i \in 1 .. Depth : callers'[i] = callers[i]
    BY <1>1, <1>4 DEF Nesting
  <1>7. new.sprite = s /\ new.caller = caller /\ new.parent = FALSE
    BY DEF new
  <1>8. Depth' = Depth + 1
    BY <1>5 DEF Depth
  <1>9. \A i \in 1 .. Depth + 1 : callers'[i] = vms'[i].caller
    <2>1. ASSUME NEW i \in 1 .. Depth PROVE callers'[i] = vms'[i].caller
      BY <1>1, <1>2, <1>5, <1>6, <2>1 DEF Nesting
    <2>2. callers'[Depth + 1] = vms'[Depth + 1].caller
      BY <1>5, <1>6, <1>7
    <2> QED BY <1>1, <2>1, <2>2
  <1>10. \A i \in 1 .. Depth : vms'[i].parent
    <2>1. ASSUME NEW i \in 1 .. Depth PROVE t[i].parent
      <3>1. CASE i = Depth
        BY <1>2, <3>1
      <3>2. CASE i # Depth
        <4>1. i \in 1 .. Depth - 1
          BY <1>1, <3>2
        <4> QED BY <1>2, <4>1 DEF Nesting
      <3> QED BY <3>1, <3>2
    <2> QED BY <1>5, <2>1
  <1> QED BY <1>1, <1>4, <1>5, <1>6, <1>7, <1>8, <1>9, <1>10

\* and dim_vm_exit returns where the last one was called.
LEMMA ExitNests ==
    ASSUME Nesting, Nested <= Callers, Exit
    PROVE  /\ Nesting' /\ (vms' # <<>> => vms'[Depth'].parent) /\ sprited' = sprited /\ sprited
  <1>1. /\ vms \in Seq(VMs) /\ Depth \in Nat \ {0} /\ Depth <= Callers /\ Len(vms) = Depth
        /\ vms # <<>> /\ sprited /\ sprited' = sprited
        /\ callers \in Seq({1, 2}) /\ Len(callers) = Depth
    BY DrawConstants DEF Nesting, Depth, Exit
  <1>2. /\ vms' = SubSeq(vms, 1, Depth - 1) /\ callers' = SubSeq(callers, 1, Depth - 1)
    BY <1>1 DEF Exit
  <1>3. /\ vms' \in Seq(VMs) /\ Len(vms') = Depth - 1 /\ \A i \in 1 .. Depth - 1 : vms'[i] = vms[i]
    BY <1>1, <1>2
  <1>4. /\ callers' \in Seq({1, 2}) /\ Len(callers') = Depth - 1
        /\ \A i \in 1 .. Depth - 1 : callers'[i] = callers[i]
    BY <1>1, <1>2
  <1>5. Depth' = Depth - 1
    BY <1>3 DEF Depth
  <1>6. ~strayed'
    <2>1. ~(Depth > Callers) /\ callers[Depth] = vms[Depth].caller
      BY <1>1, DrawConstants DEF Nesting
    <2> QED BY <2>1 DEF Exit
  <1>7. \A i \in 1 .. Depth - 1 : vms[i].parent /\ callers[i] = vms[i].caller
    BY <1>1 DEF Nesting
  <1>8. vms' # <<>> => Depth - 1 \in 1 .. Depth - 1
    BY <1>1, <1>3
  <1>9. /\ \A i \in 1 .. Depth - 1 : callers'[i] = vms'[i].caller
        /\ \A i \in 1 .. Depth - 1 : vms'[i].parent
    BY <1>3, <1>4, <1>7
  <1>10. \A i \in 1 .. Depth' - 1 : i \in 1 .. Depth - 1
    BY <1>1, <1>5
  <1>11. Depth' <= Nested
    BY <1>1, <1>5, DrawConstants DEF Nesting
  <1>12. Nesting'
    BY <1>1, <1>3, <1>4, <1>5, <1>6, <1>9, <1>10, <1>11 DEF Nesting
  <1>13. vms' # <<>> => vms'[Depth'].parent
    BY <1>5, <1>8, <1>9
  <1> QED BY <1>1, <1>12, <1>13

\* What goes out in a draw call is of its class.
LEMMA FlushedAlike ==
    ASSUME OfItsClass, Flushed
    PROVE  /\ batch' = {} /\ drawn'.additive \in BOOLEAN
           /\ \A q \in drawn'.quads : q.class = drawn'.class
           /\ painted' = painted \cup Layers(batch) /\ veil' = Covered(batch)
  <1>1. PICK additive \in BOOLEAN :
            drawn' = IF batch = {} THEN drawn
                     ELSE [quads |-> batch, class |-> class, additive |-> additive]
    BY DEF Flushed, DrawCall
  <1>2. CASE batch = {}
    BY <1>1, <1>2 DEF OfItsClass, Flushed, DrawCall
  <1>3. CASE batch # {}
    <2>1. drawn'.quads = batch /\ drawn'.class = class /\ drawn'.additive = additive
      BY <1>1, <1>3
    <2> QED BY <2>1 DEF OfItsClass, Flushed, DrawCall
  <1> QED BY <1>2, <1>3

\* A quad has the class in force.
LEMMA ReadyAlike ==
    ASSUME OfItsClass, Ready, Habits = {}
    PROVE  Quad.class = class
  <1>1. CASE vms # <<>>
    BY <1>1 DEF OfItsClass, Ready, Quad, What
  <1>2. CASE vms = <<>> /\ prio = Outside
    BY <1>2, OutsideNoClass DEF OfItsClass, Quad
  <1>3. CASE vms = <<>> /\ prio # Outside
    BY <1>3 DEF OfItsClass, Ready, Quad, What
  <1> QED BY <1>1, <1>2, <1>3

\* A quad before the world's callbacks is the background's, and after the veil the
\* world's.
LEMMA QuadBehind ==
    ASSUME LayersApart
    PROVE  /\ last < WorldPrio => Quad.layer = "background"
           /\ "veil" \in painted => Quad.layer = "world"
  <1>1. Quad.layer = IF last >= WorldPrio THEN "world" ELSE "background"
    BY DEF LayersApart, Quad, Layer
  <1>2. "veil" \in painted => ~(last < WorldPrio)
    BY DEF LayersApart
  <1>3. last \in Nat /\ WorldPrio \in Nat
    BY Numbers DEF LayersApart
  <1> QED BY <1>1, <1>2, <1>3

\* Quads of the world drawn after the veil leave it where it is.
LEMMA StaysBetween ==
    ASSUME VeilBetween, NEW quads, "veil" \in painted => \A q \in quads : q.layer = "world",
           veil' = Covered(quads)
    PROVE  VeilBetween'
  <1>1. CASE "veil" \in painted
    <2>1. veil'.over = veil.over /\ veil'.after = veil.after \cup Layers(quads)
      BY <1>1 DEF Covered
    <2>2. "background" \notin Layers(quads)
      BY <1>1 DEF Layers
    <2> QED BY <2>1, <2>2 DEF VeilBetween
  <1>2. CASE "veil" \notin painted
    BY <1>2 DEF Covered, VeilBetween
  <1> QED BY <1>1, <1>2

\* The batch going out keeps the layers apart.
LEMMA Painted ==
    ASSUME LayersApart, last' = last, prio' = prio \/ prio' = Outside,
           painted' = painted \cup Layers(batch), veil' = Covered(batch),
           batch' = {}, UNCHANGED <<veiled, inGame>>
    PROVE  LayersApart'
  <1>1. VeilBetween'
    BY StaysBetween DEF LayersApart
  <1>2. last < WorldPrio => Layers(batch) \subseteq {"background"}
    BY DEF LayersApart, Layers
  <1> QED BY <1>1, <1>2, Numbers DEF LayersApart, Outside

\* A callback begins, after the veil where it is due.
LEMMA DispatchDraws ==
    ASSUME DrawInv, NEW p \in Priorities, Dispatch(p)
    PROVE  DrawInv'
  <1>1. /\ prio = Outside /\ vms = <<>> /\ p > last /\ prio' = p /\ last' = p
        /\ batch' = {} /\ class' = Classify(p, Own) /\ sprited' = FALSE
        /\ UNCHANGED <<vms, callers, inGame, strayed>>
        /\ p \in Nat /\ p # Outside
    BY Numbers DEF Dispatch
  <1>2. Nesting'
    BY <1>1 DEF DrawInv, Nesting, Depth
  <1>3. /\ \A q \in drawn'.quads : q.class = drawn'.class
        /\ drawn'.additive \in BOOLEAN
    <2>1. CASE batch = {}
      BY <2>1 DEF Dispatch, DrawInv, OfItsClass
    <2>2. CASE batch # {}
      <3>1. PICK a \in BOOLEAN : drawn' = [quads |-> batch, class |-> class, additive |-> a]
        BY <2>2 DEF Dispatch
      <3>2. drawn'.quads = batch /\ drawn'.class = class /\ drawn'.additive = a
        BY <3>1
      <3> QED BY <3>2 DEF DrawInv, OfItsClass
    <2> QED BY <2>1, <2>2
  <1>4. OfItsClass'
    BY <1>1, <1>3 DEF OfItsClass
  <1>5. LayersApart'
    <2> DEFINE out == painted \cup Layers(batch)
    <2>1. \/ Veils(p) /\ painted' = out \cup {"veil"} /\ veil' = [over |-> out, after |-> {}]
          \/ painted' = out /\ veil' = Covered(batch)
      BY DEF Dispatch
    <2>2. veiled' = (veiled \/ Veils(p)) /\ Veils(p) \in BOOLEAN
      BY DEF Dispatch, Veils
    <2>3. last < WorldPrio => out \subseteq {"background"}
      BY DEF DrawInv, LayersApart, Layers
    <2>4. Veils(p) => last < WorldPrio /\ ~(p < WorldPrio)
      BY <1>1, Numbers DEF Veils, DrawInv, LayersApart
    <2>5. p < WorldPrio => last < WorldPrio /\ ~Veils(p)
      BY <1>1, <2>4, Numbers DEF DrawInv, LayersApart
    <2>6. VeilBetween'
      <3>1. CASE veil' = [over |-> out, after |-> {}] /\ Veils(p)
        BY <2>3, <2>4, <3>1 DEF VeilBetween
      <3>2. CASE veil' = Covered(batch)
        BY <3>2, StaysBetween DEF DrawInv, LayersApart
      <3> QED BY <2>1, <3>1, <3>2
    <2>7. last' < WorldPrio => painted' \subseteq {"background"}
      BY <1>1, <2>1, <2>3, <2>5
    <2>8. "background" \in Faded /\ inGame' /\ ~veiled' => last' < WorldPrio
      <3> SUFFICES ASSUME "background" \in Faded, inGame, ~veiled', ~(p < WorldPrio)
                   PROVE  FALSE
        BY <1>1
      <3>1. p >= WorldPrio
        BY <1>1, Numbers
      <3>2. Veils(p)
        BY <2>2, <3>1 DEF Veils, DrawInv, LayersApart
      <3> QED BY <2>2, <3>2
    <2>9. veiled' \in BOOLEAN /\ inGame' \in BOOLEAN
      BY <1>1, <2>2 DEF DrawInv, LayersApart
    <2> HIDE DEF out
    <2> QED BY <1>1, <2>6, <2>7, <2>8, <2>9 DEF LayersApart
  <1> QED BY <1>2, <1>4, <1>5 DEF DrawInv

\* A sprite begins.
LEMMA EnterDraws ==
    ASSUME DrawInv, Nested <= Callers, NEW s \in Sprites, NEW caller \in {1, 2}, Enter(s, caller)
    PROVE  DrawInv'
  <1>1. /\ vms' \in Seq(VMs) /\ Depth' <= Nested
        /\ callers' \in Seq({1, 2}) /\ Len(callers') = Depth'
        /\ \A i \in 1 .. Depth' : callers'[i] = vms'[i].caller
        /\ \A i \in 1 .. Depth' - 1 : vms'[i].parent
        /\ vms'[Depth'].sprite = s /\ ~vms'[Depth'].parent
        /\ vms' # <<>> /\ sprited' = TRUE
    BY EnterNests DEF DrawInv, Enter
  <1>2. UNCHANGED <<prio, last, veiled, inGame, strayed>>
    BY DEF Enter
  <1>3. Nesting'
    BY <1>1, <1>2 DEF Nesting, DrawInv
  <1>4. CASE prio = Outside \/ Classify(prio, s) = class
    <2>1. UNCHANGED <<batch, drawn, painted, veil, class>>
      BY <1>4 DEF Enter, Kept
    <2>2. class' = Classify(prio', s) /\ (prio' = Outside => class' = NoClass)
      BY <1>2, <1>4, <2>1, OutsideNoClass DEF DrawInv, OfItsClass
    <2>3. OfItsClass'
      BY <1>1, <2>1, <2>2 DEF DrawInv, OfItsClass
    <2>4. LayersApart'
      BY <1>2, <2>1 DEF DrawInv, LayersApart, VeilBetween
    <2> QED BY <1>3, <2>3, <2>4 DEF DrawInv
  <1>5. CASE ~(prio = Outside \/ Classify(prio, s) = class)
    <2>1. Flushed /\ class' = Classify(prio', s)
      BY <1>2, <1>5 DEF Enter
    <2>2. /\ batch' = {} /\ drawn'.additive \in BOOLEAN
          /\ \A q \in drawn'.quads : q.class = drawn'.class
          /\ painted' = painted \cup Layers(batch) /\ veil' = Covered(batch)
      BY <2>1, FlushedAlike DEF DrawInv
    <2>3. OfItsClass'
      BY <1>1, <1>2, <1>5, <2>1, <2>2 DEF OfItsClass
    <2>4. LayersApart'
      BY <1>2, <2>2, Painted DEF DrawInv
    <2> QED BY <1>3, <2>3, <2>4 DEF DrawInv
  <1> QED BY <1>4, <1>5

\* A sprite ends.
LEMMA ExitDraws ==
    ASSUME DrawInv, Nested <= Callers, Exit
    PROVE  DrawInv'
  <1>1. /\ Nesting' /\ (vms' # <<>> => vms'[Depth'].parent) /\ sprited' = sprited /\ sprited
    BY ExitNests DEF DrawInv
  <1>2. UNCHANGED <<prio, last, veiled, inGame>>
    BY DEF Exit
  <1>3. vms' = <<>> <=> Depth = 1
    <2>1. vms \in Seq(VMs) /\ Depth \in Nat \ {0} /\ vms' = SubSeq(vms, 1, Depth - 1) /\ Len(vms) = Depth
      BY DEF DrawInv, Nesting, Depth, Exit
    <2>2. Len(vms') = Depth - 1 /\ vms' \in Seq(VMs)
      BY <2>1
    <2> QED BY <2>1, <2>2
  <1>4. CASE Depth = 1 /\ class # NoClass
    <2>1. Flushed /\ class' = NoClass
      BY <1>4 DEF Exit
    <2>2. /\ batch' = {} /\ drawn'.additive \in BOOLEAN
          /\ \A q \in drawn'.quads : q.class = drawn'.class
          /\ painted' = painted \cup Layers(batch) /\ veil' = Covered(batch)
      BY <2>1, FlushedAlike DEF DrawInv
    <2>3. OfItsClass'
      BY <1>1, <1>2, <1>3, <1>4, <2>1, <2>2 DEF DrawInv, OfItsClass
    <2>4. LayersApart'
      BY <1>2, <2>2, Painted DEF DrawInv
    <2> QED BY <1>1, <2>3, <2>4 DEF DrawInv
  <1>5. CASE ~(Depth = 1 /\ class # NoClass)
    <2>1. UNCHANGED <<batch, drawn, painted, veil, class>>
      BY <1>5 DEF Exit, Kept
    <2>2. OfItsClass'
      BY <1>1, <1>2, <1>3, <1>5, <2>1 DEF DrawInv, OfItsClass
    <2>3. LayersApart'
      BY <1>2, <2>1 DEF DrawInv, LayersApart, VeilBetween
    <2> QED BY <1>1, <2>2, <2>3 DEF DrawInv
  <1> QED BY <1>4, <1>5

\* Quads are added and drawn, and a callback ends.
LEMMA DrawsOn ==
    ASSUME DrawInv, Habits = {}, Batches \/ DrawsAtOnce \/ Flushes \/ Return
    PROVE  DrawInv'
  <1>1. UNCHANGED <<last, vms, callers, sprited, veiled, inGame, strayed>>
    BY DEF Batches, DrawsAtOnce, Flushes, Return
  <1>2. Nesting'
    BY <1>1 DEF DrawInv, Nesting, Depth
  <1>3. CASE Batches
    <2>1. /\ batch' = batch \cup {Quad} /\ UNCHANGED <<prio, class, painted, drawn, veil>>
          /\ Quad.class = class
      BY <1>3, ReadyAlike DEF Batches, DrawInv
    <2>2. /\ last < WorldPrio => Quad.layer = "background"
          /\ "veil" \in painted => Quad.layer = "world"
      BY QuadBehind DEF DrawInv
    <2>3. OfItsClass'
      BY <1>1, <2>1 DEF DrawInv, OfItsClass, Depth
    <2>4. LayersApart'
      BY <1>1, <2>1, <2>2 DEF DrawInv, LayersApart, VeilBetween
    <2> QED BY <1>2, <2>3, <2>4 DEF DrawInv
  <1>4. CASE DrawsAtOnce
    <2>1. /\ UNCHANGED <<prio, class, batch>> /\ Quad.class = class
          /\ painted' = painted \cup Layers({Quad}) /\ veil' = Covered({Quad})
      BY <1>4, ReadyAlike DEF DrawsAtOnce, DrawInv, DrawCall
    <2>2. /\ last < WorldPrio => Quad.layer = "background"
          /\ "veil" \in painted => Quad.layer = "world"
      BY QuadBehind DEF DrawInv
    <2>3. PICK a \in BOOLEAN : drawn' = [quads |-> {Quad}, class |-> class, additive |-> a]
      BY <1>4 DEF DrawsAtOnce, DrawCall
    <2>4. drawn'.quads = {Quad} /\ drawn'.class = class /\ drawn'.additive = a
      BY <2>3
    <2>5. OfItsClass'
      BY <1>1, <2>1, <2>4 DEF DrawInv, OfItsClass, Depth
    <2>6. VeilBetween'
      BY <2>1, <2>2, StaysBetween DEF DrawInv, LayersApart
    <2>7. "veil" \in painted' => "veil" \in painted
      BY <2>1 DEF Layers, Quad, Layer
    <2>8. LayersApart'
      BY <1>1, <2>1, <2>2, <2>6, <2>7 DEF DrawInv, LayersApart, Layers
    <2> QED BY <1>2, <2>5, <2>8 DEF DrawInv
  <1>5. CASE Flushes \/ Return
    <2>1. /\ Flushed
          /\ \/ UNCHANGED <<prio, class>>
             \/ prio' = Outside /\ class' = NoClass /\ vms = <<>>
      BY <1>5 DEF Flushes, Return
    <2>2. /\ batch' = {} /\ drawn'.additive \in BOOLEAN
          /\ \A q \in drawn'.quads : q.class = drawn'.class
          /\ painted' = painted \cup Layers(batch) /\ veil' = Covered(batch)
      BY <2>1, FlushedAlike DEF DrawInv
    <2>3. OfItsClass'
      BY <1>1, <2>1, <2>2 DEF DrawInv, OfItsClass, Depth
    <2>4. LayersApart'
      BY <1>1, <2>1, <2>2, Painted DEF DrawInv
    <2> QED BY <1>2, <2>3, <2>4 DEF DrawInv
  <1> QED BY <1>3, <1>4, <1>5

\* The frame is shown.
LEMMA FrameDraws ==
    ASSUME DrawInv, FrameShown
    PROVE  DrawInv'
  <1>1. /\ prio = Outside /\ vms = <<>> /\ batch = {}
        /\ last' = Outside /\ veiled' = FALSE /\ painted' = {} /\ inGame' \in BOOLEAN
        /\ veil' = NoVeil /\ drawn' = Undrawn
        /\ UNCHANGED <<prio, vms, callers, class, batch, sprited, strayed>>
    BY DEF FrameShown
  <1>2. Nesting'
    BY <1>1 DEF DrawInv, Nesting, Depth
  <1>3. drawn'.quads = {} /\ drawn'.additive \in BOOLEAN
    BY <1>1 DEF Undrawn
  <1>4. OfItsClass'
    BY <1>1, <1>3 DEF DrawInv, OfItsClass
  <1>5. VeilBetween'
    BY <1>1 DEF VeilBetween, NoVeil
  <1>6. prio' \in Nat /\ last' \in Nat /\ last' < WorldPrio /\ prio' = Outside
    BY <1>1, Numbers DEF Outside
  <1>7. LayersApart'
    BY <1>1, <1>5, <1>6 DEF LayersApart
  <1> QED BY <1>2, <1>4, <1>7 DEF DrawInv

\* The drawing invariant holds at the start.
LEMMA DrawStarts == DrawInit => DrawInv
  <1> SUFFICES ASSUME DrawInit PROVE DrawInv
    OBVIOUS
  <1>1. Nesting
    BY Numbers DEF DrawInit, Nesting, Depth
  <1>2. drawn.quads = {} /\ drawn.additive \in BOOLEAN
    BY DEF DrawInit, Undrawn
  <1>3. OfItsClass
    BY <1>2 DEF DrawInit, OfItsClass
  <1>4. VeilBetween
    BY DEF DrawInit, VeilBetween, NoVeil
  <1>5. prio \in Nat /\ last \in Nat /\ last < WorldPrio /\ prio = Outside
    BY Numbers DEF DrawInit, Outside
  <1>6. LayersApart
    BY <1>4, <1>5 DEF DrawInit, LayersApart
  <1> QED BY <1>1, <1>3, <1>6 DEF DrawInv

\* FadedApart (dimming.c:24-30, 109-113, 275-278, 305-309): for any number of
\* priorities, rules, sprites and nested draws, every quad is faded as what it is
\* and once, the veil lies between background and world, and every wrapped draw
\* returns to its caller; if no more draws are nested than callers are kept, a
\* VM draws before its children and additive draws are not scaled by alpha.
THEOREM QuadsFadeApart ==
    ASSUME Nested <= Callers, Habits = {}, AdditiveSource = "one"
    PROVE  DrawSpec => []FadedApart
  <1>1. DrawInit => DrawInv
    BY DrawStarts
  <1>2. DrawInv /\ [DrawNext]_drawVars => DrawInv'
    <2> SUFFICES ASSUME DrawInv, [DrawNext]_drawVars PROVE DrawInv'
      OBVIOUS
    <2>1. ASSUME NEW p \in Priorities, Dispatch(p) PROVE DrawInv'
      BY <2>1, DispatchDraws
    <2>2. ASSUME NEW s \in Sprites, NEW caller \in {1, 2}, Enter(s, caller) PROVE DrawInv'
      BY <2>2, EnterDraws
    <2>3. CASE Exit
      BY <2>3, ExitDraws
    <2>4. CASE Batches \/ DrawsAtOnce \/ Flushes \/ Return
      BY <2>4, DrawsOn
    <2>5. CASE FrameShown
      BY <2>5, FrameDraws
    <2>6. CASE UNCHANGED drawVars
      BY <2>6 DEF drawVars, DrawInv, Nesting, OfItsClass, LayersApart, VeilBetween, Depth
    <2> QED BY <2>1, <2>2, <2>3, <2>4, <2>5, <2>6 DEF DrawNext
  <1>3. DrawInv => FadedApart
    <2> SUFFICES ASSUME DrawInv PROVE FadedApart
      OBVIOUS
    <2>1. FadesAsItself
      BY FadesOnce DEF DrawInv, OfItsClass, FadesAsItself
    <2> QED BY <2>1 DEF DrawInv, LayersApart, Nesting, FadedApart
  <1> QED BY <1>1, <1>2, <1>3, PTL DEF DrawSpec
-------------------------------------------------------------------------------
(* Induction up to a number, and what it gives. *)

\* A set of natural numbers has a least element.
LEMMA LeastOf ==
    ASSUME NEW S, S \subseteq Nat, S # {}
    PROVE  \E x \in S : \A y \in S : x <= y
  <1> DEFINE R == OpToRel(<, Nat)
  <1>1. IsWellFoundedOn(R, Nat)
    BY NatLessThanWellFounded
  <1>2. PICK x \in S : \A y \in S : <<y, x>> \notin R
    <2> HIDE DEF R
    <2> QED BY <1>1, WFMin
  <1>3. \A y \in S : ~(y < x)
    BY <1>2 DEF OpToRel
  <1> QED BY <1>3

\* What holds of 0, and of i + 1 where it holds of i, holds up to m.
LEMMA UpTo ==
    ASSUME NEW m \in Nat, NEW T, 0 \in T, \A i \in 0..m - 1 : i \in T => i + 1 \in T
    PROVE  \A i \in 0..m : i \in T
  <1> SUFFICES ASSUME (0..m) \ T # {} PROVE FALSE
    OBVIOUS
  <1>1. PICK x \in (0..m) \ T : \A y \in (0..m) \ T : x <= y
    <2>1. (0..m) \ T \subseteq Nat
      OBVIOUS
    <2> QED BY <2>1, LeastOf
  <1>2. x # 0 /\ x - 1 \in 0..m - 1 /\ x - 1 + 1 = x
    BY <1>1
  <1>3. x - 1 \in T
    BY <1>1, <1>2
  <1> QED BY <1>1, <1>2, <1>3

\* A function that is defined by its value at 0 and a step exists.
Iterates(g, m, A, base, step) ==
    g \in [0..m -> A] /\ g[0] = base /\ \A i \in 1..m : g[i] = step[i][g[i - 1]]

LEMMA Recursion ==
    ASSUME NEW m \in Nat, NEW A, NEW base \in A, NEW step \in [1..m -> [A -> A]]
    PROVE  \E g : Iterates(g, m, A, base, step)
  <1> DEFINE Steps(k, g) == g[0] = base /\ \A i \in 1..k : g[i] = step[i][g[i - 1]]
             T == {k \in 0..m : \E g \in [0..k -> A] : Steps(k, g)}
  <1>1. 0 \in T
    <2>1. [i \in 0..0 |-> base] \in [0..0 -> A] /\ Steps(0, [i \in 0..0 |-> base])
      OBVIOUS
    <2>2. 0 \in 0..m
      OBVIOUS
    <2> QED BY <2>1, <2>2
  <1>2. \A i \in 0..m - 1 : i \in T => i + 1 \in T
    <2> SUFFICES ASSUME NEW k \in 0..m - 1, k \in T PROVE k + 1 \in T
      OBVIOUS
    <2>1. PICK g \in [0..k -> A] : Steps(k, g)
      OBVIOUS
    <2> DEFINE h == [i \in 0..k + 1 |-> IF i = k + 1 THEN step[k + 1][g[k]] ELSE g[i]]
    <2>2. h \in [0..k + 1 -> A]
      <3>1. g[k] \in A /\ k + 1 \in 1..m
        OBVIOUS
      <3>2. step[k + 1][g[k]] \in A
        BY <3>1
      <3> QED BY <3>2
    <2>3. Steps(k + 1, h)
      <3>1. h[0] = base
        BY <2>1
      <3>2. ASSUME NEW i \in 1..k + 1 PROVE h[i] = step[i][h[i - 1]]
        BY <2>1
      <3> QED BY <3>1, <3>2
    <2>4. k + 1 \in 0..m
      OBVIOUS
    <2> QED BY <2>2, <2>3, <2>4
  <1>3. m \in T
    <2>1. m \in 0..m
      OBVIOUS
    <2> HIDE DEF T
    <2> QED BY <1>1, <1>2, <2>1, UpTo
  <1> QED BY <1>3 DEF Iterates

-------------------------------------------------------------------------------
(* The table. *)

Works == {Working[k] : k \in DOMAIN Working}

Entries == [tex : Addresses \cup Works, up : Addresses \cup {None}, size : Nat, eligible : BOOLEAN,
            dirty : BOOLEAN, failed : BOOLEAN]

LEMMA FindIs ==
    ASSUME NEW r \in Seq(Entries), NEW t
    PROVE  /\ Find(r, t) = 0 => \A i \in DOMAIN r : r[i].tex # t
           /\ Find(r, t) # 0 => Find(r, t) \in DOMAIN r /\ r[Find(r, t)].tex = t
           /\ Find(r, t) \in Nat
  <1>1. CASE Places(r, t) = {}
    BY <1>1 DEF Find, Places
  <1>2. CASE Places(r, t) # {}
    <2>1. \E i \in Places(r, t) : \A j \in Places(r, t) : i <= j
      <3>1. Places(r, t) \subseteq Nat
        BY DEF Places
      <3> QED BY <3>1, <1>2, LeastOf
    <2>2. Find(r, t) \in Places(r, t)
      BY <1>2, <2>1 DEF Find
    <2> QED BY <2>2 DEF Places
  <1> QED BY <1>1, <1>2

\* q is r without the entries at the positions out, in some order.
Keeps(r, q, out) ==
    \E f \in [DOMAIN q -> DOMAIN r] :
        /\ \A j \in DOMAIN q : q[j] = r[f[j]] /\ f[j] \notin out
        /\ \A i, j \in DOMAIN q : f[i] = f[j] => i = j
        /\ \A i \in DOMAIN r \ out : \E j \in DOMAIN q : f[j] = i

LEMMA WithoutKeeps ==
    ASSUME NEW S, NEW r \in Seq(S), NEW i \in 1..Len(r)
    PROVE  Without(r, i) \in Seq(S) /\ Len(Without(r, i)) = Len(r) - 1 /\ Keeps(r, Without(r, i), {i})
  <1> DEFINE q == Without(r, i)
             f == [j \in 1..Len(r) - 1 |-> IF j = i THEN Len(r) ELSE j]
  <1>1. q \in Seq(S) /\ Len(q) = Len(r) - 1 /\ DOMAIN q = 1..Len(r) - 1
    <2>1. q = [j \in 1..Len(r) - 1 |-> IF j = i THEN r[Len(r)] ELSE r[j]] /\ Len(r) - 1 \in Nat
      BY DEF Without
    <2>2. \A j \in 1..Len(r) - 1 : q[j] \in S
      BY <2>1
    <2> HIDE DEF q
    <2> QED BY <2>1, <2>2
  <1>2. f \in [DOMAIN q -> DOMAIN r]
    BY <1>1
  <1>3. \A j \in DOMAIN q : q[j] = r[f[j]] /\ f[j] \notin {i}
    BY <1>1 DEF Without
  <1>4. \A a, b \in DOMAIN q : f[a] = f[b] => a = b
    BY <1>1
  <1>5. \A a \in DOMAIN r \ {i} : \E j \in DOMAIN q : f[j] = a
    <2> SUFFICES ASSUME NEW a \in DOMAIN r \ {i} PROVE \E j \in DOMAIN q : f[j] = a
      OBVIOUS
    <2>1. CASE a = Len(r)
      BY <2>1, <1>1
    <2>2. CASE a # Len(r)
      BY <2>2, <1>1
    <2> QED BY <2>1, <2>2
  <1> QED BY <1>1, <1>2, <1>3, <1>4, <1>5 DEF Keeps

LEMMA WithoutTwice ==
    ASSUME NEW S, NEW r \in Seq(S), NEW n \in Nat, n = Len(r), n >= 2, NEW k \in 1..n, NEW i \in 1..n
    PROVE  Without(Without(r, k), i) =
              [j \in 1..n - 2 |->
                  IF j = i THEN IF k = n - 1 THEN r[n] ELSE r[n - 1]
                  ELSE IF j = k THEN r[n] ELSE r[j]]
  <1>1. PICK q \in Seq(S) : q = Without(r, k) /\ Len(q) = n - 1
    BY WithoutKeeps
  <1>2. \A j \in 1..n - 1 : q[j] = IF j = k THEN r[n] ELSE r[j]
    BY <1>1 DEF Without
  <1>3. Without(q, i) = [j \in 1..n - 2 |-> IF j = i THEN q[n - 1] ELSE q[j]]
    BY <1>1 DEF Without
  <1> QED BY <1>1, <1>2, <1>3

\* Where the entry of an entry's copy is, 0 if there is none.
CopyPlace(r, i) == IF r[i].up = None THEN 0 ELSE Find(r, r[i].up)

LEMMA CopyPlaceIs ==
    ASSUME NEW r \in Seq(Entries), NEW i \in DOMAIN r, r[i].up # None => r[i].tex # r[i].up
    PROVE  /\ CopyPlace(r, i) \in 0..Len(r) /\ CopyPlace(r, i) # i
           /\ CopyPlace(r, i) # 0 => r[i].up # None /\ r[CopyPlace(r, i)].tex = r[i].up
           /\ r[i].up # None /\ CopyPlace(r, i) = 0 => \A j \in DOMAIN r : r[j].tex # r[i].up
  <1>1. CASE r[i].up = None
    BY <1>1 DEF CopyPlace
  <1>2. CASE r[i].up # None
    <2>1. CopyPlace(r, i) = Find(r, r[i].up)
      BY <1>2 DEF CopyPlace
    <2>2. PICK k : k = Find(r, r[i].up)
      OBVIOUS
    <2>3. /\ k = 0 => \A j \in DOMAIN r : r[j].tex # r[i].up
          /\ k # 0 => k \in DOMAIN r /\ r[k].tex = r[i].up
          /\ k \in Nat
      BY <2>2, FindIs
    <2>4. k \in 0..Len(r) /\ k # i
      BY <2>3, <1>2
    <2> QED BY <2>1, <2>2, <2>3, <2>4, <1>2
  <1> QED BY <1>1, <1>2

\* tex_forget drops the entry and its copy's, unless the entry was moved under it.
\* What tex_forget drops, and in which order.
Drops(r, i, k, q) ==
    /\ k = 0 => q = Without(r, i)
    /\ k # 0 /\ i < Len(r) => q = Without(Without(r, k), i)
    /\ k # 0 /\ i = Len(r) => q = Without(Without(r, i), k) /\ k = i - 1

LEMMA ForgetKeeps ==
    ASSUME NEW r \in Seq(Entries), NEW n \in Nat, n = Len(r), NEW i \in 1..n,
           NEW k \in 0..n, k = CopyPlace(r, i), k # i, ~(i = n /\ k \in 1..n - 2)
    PROVE  /\ Forget(r, i) \in Seq(Entries)
           /\ Keeps(r, Forget(r, i), {i, k})
           /\ Drops(r, i, k, Forget(r, i))
  <1>2. CASE k = 0
    <2>1. Forget(r, i) = Without(r, i)
      BY <1>2 DEF Forget, Freed, CopyPlace
    <2>2. Keeps(r, Without(r, i), {i, k})
      <3>1. PICK f \in [DOMAIN Without(r, i) -> DOMAIN r] :
               /\ \A j \in DOMAIN Without(r, i) : Without(r, i)[j] = r[f[j]] /\ f[j] \notin {i}
               /\ \A a, b \in DOMAIN Without(r, i) : f[a] = f[b] => a = b
               /\ \A a \in DOMAIN r \ {i} : \E j \in DOMAIN Without(r, i) : f[j] = a
        <4>1. Keeps(r, Without(r, i), {i})
          BY WithoutKeeps
        <4> QED BY <4>1 DEF Keeps
      <3>2. DOMAIN r \ {i} = DOMAIN r \ {i, k} /\ \A j \in DOMAIN Without(r, i) : f[j] \notin {i, k}
        BY <3>1, <1>2
      <3> QED BY <3>1, <3>2 DEF Keeps
    <2> QED BY <2>1, <2>2, <1>2, WithoutKeeps DEF Drops
  <1>3. CASE k # 0
    <2>1. Forget(r, i) = Without(Without(r, k), i)
      BY <1>3 DEF Forget, Freed, CopyPlace
    <2>0. k \in 1..n /\ n >= 2 /\ DOMAIN r = 1..n
      BY <1>3
    <2>2. /\ Without(r, k) \in Seq(Entries) /\ Len(Without(r, k)) = n - 1
          /\ Without(r, i) \in Seq(Entries) /\ Len(Without(r, i)) = n - 1
      BY WithoutKeeps, <2>0
    <2>3. CASE i < n
      <3>1. Without(Without(r, k), i) \in Seq(Entries) /\ DOMAIN Without(Without(r, k), i) = 1..n - 2
        <4>1. PICK w \in Seq(Entries) : w = Without(r, k) /\ Len(w) = n - 1
          BY <2>2
        <4>2. Without(w, i) \in Seq(Entries) /\ Len(Without(w, i)) = n - 2
          <5>1. i \in 1..Len(w)
            BY <4>1, <2>3, <2>0
          <5>2. Without(w, i) \in Seq(Entries) /\ Len(Without(w, i)) = Len(w) - 1
            BY <5>1, WithoutKeeps
          <5> QED BY <4>1, <5>2
        <4> QED BY <4>1, <4>2
      <3> DEFINE q == Without(Without(r, k), i)
                 f == [j \in 1..n - 2 |-> LET h == IF j = i THEN n - 1 ELSE j IN IF h = k THEN n ELSE h]
      <3>2. \A j \in 1..n - 2 : q[j] = r[f[j]]
        <4>1. q = [j \in 1..n - 2 |-> IF j = i THEN IF k = n - 1 THEN r[n] ELSE r[n - 1]
                                      ELSE IF j = k THEN r[n] ELSE r[j]]
          BY <2>0, WithoutTwice
        <4> HIDE DEF q
        <4> QED BY <4>1, <2>3, <2>0, <1>3
      <3>3. f \in [DOMAIN q -> DOMAIN r] /\ \A j \in DOMAIN q : f[j] \notin {i, k}
        BY <3>1, <2>3, <1>3
      <3>4. \A a, b \in DOMAIN q : f[a] = f[b] => a = b
        BY <3>1, <2>3
      <3>5. \A a \in DOMAIN r \ {i, k} : \E j \in DOMAIN q : f[j] = a
        <4> SUFFICES ASSUME NEW a \in DOMAIN r \ {i, k} PROVE \E j \in 1..n - 2 : f[j] = a
          BY <3>1
        <4>1. CASE a < n - 1
          BY <4>1
        <4>2. CASE a = n - 1
          BY <4>2, <2>3
        <4>3. CASE a = n /\ k = n - 1
          <5>1. i \in 1..n - 2 /\ f[i] = n
            BY <4>3, <2>3, <2>0
          <5> QED BY <5>1, <4>3
        <4>4. CASE a = n /\ k < n - 1
          BY <4>4, <2>3, <1>3
        <4> QED BY <4>1, <4>2, <4>3, <4>4
      <3> HIDE DEF f
      <3>6. Keeps(r, q, {i, k})
        BY <3>1, <3>2, <3>3, <3>4, <3>5 DEF Keeps
      <3> QED BY <3>1, <3>6, <2>1, <2>3, <1>3 DEF Drops
    <2>4. CASE i = n
      <3>1. k = i - 1
        BY <2>4, <2>0
      <3> DEFINE q == [j \in 1..n - 2 |-> r[j]]
      <3>2. Without(Without(r, k), i) = q
        <4>1. Without(Without(r, k), i) =
                 [j \in 1..n - 2 |-> IF j = i THEN IF k = n - 1 THEN r[n] ELSE r[n - 1]
                                    ELSE IF j = k THEN r[n] ELSE r[j]]
          BY <2>0, WithoutTwice
        <4> QED BY <4>1, <2>4, <2>0, <3>1
      <3>3. Without(Without(r, i), k) = q
        <4>1. Without(Without(r, i), k) =
                 [j \in 1..n - 2 |-> IF j = k THEN IF i = n - 1 THEN r[n] ELSE r[n - 1]
                                    ELSE IF j = i THEN r[n] ELSE r[j]]
          BY <2>0, WithoutTwice
        <4> QED BY <4>1, <2>4, <2>0, <3>1
      <3>4. q \in Seq(Entries) /\ DOMAIN q = 1..n - 2
        <4>1. \A j \in 1..n - 2 : q[j] \in Entries
          OBVIOUS
        <4>2. n - 2 \in Nat
          BY <2>0
        <4> HIDE DEF q
        <4>3. q \in [1..n - 2 -> Entries]
          BY <4>1 DEF q
        <4> QED BY <4>2, <4>3
      <3>5. Keeps(r, q, {i, k})
        <4> DEFINE f == [j \in 1..n - 2 |-> j]
        <4>1. f \in [DOMAIN q -> DOMAIN r] /\ \A j \in DOMAIN q : q[j] = r[f[j]] /\ f[j] \notin {i, k}
          BY <2>4, <3>1, <2>0
        <4>2. \A a, b \in DOMAIN q : f[a] = f[b] => a = b
          OBVIOUS
        <4>3. \A a \in DOMAIN r \ {i, k} : \E j \in DOMAIN q : f[j] = a
          BY <2>4, <3>1, <2>0
        <4> QED BY <4>1, <4>2, <4>3 DEF Keeps
      <3> QED BY <3>1, <3>2, <3>3, <3>4, <3>5, <2>1, <2>4, <1>3 DEF Drops
    <2> QED BY <2>3, <2>4
  <1> QED BY <1>2, <1>3
-------------------------------------------------------------------------------
(* Who is in the table. *)

\* No texture has two entries, and no copy two owners; every entry is of a texture or
\* of a copy that exists, or a working texture's, and one that holds a copy is of a texture.
Table(r, ts, cs) ==
    /\ r \in Seq(Entries)
    /\ \A i, j \in DOMAIN r : r[i].tex = r[j].tex => i = j
    /\ \A i \in DOMAIN r : r[i].tex \in ts \cup cs \cup Works
    /\ \A i \in DOMAIN r : r[i].up # None => r[i].up \in cs /\ r[i].tex \in ts
    /\ \A i, j \in DOMAIN r : r[i].up = r[j].up /\ r[i].up # None => i = j

Apart(ts, cs, lk) ==
    ts \subseteq Addresses /\ cs \subseteq Addresses /\ ts \cap cs = {} /\ lk \subseteq ts

TableInv == Table(reg, textures, copies) /\ Apart(textures, copies, locked)

\* The entry that a generation holds by its place is there still, with its copy.
Bindings == [tex : Addresses, at : Nat, up : Addresses, turn : Nat]
Holds(mk, r, ts, lk) ==
    mk # None =>
        /\ mk \in Bindings /\ mk.tex \in ts \ lk /\ mk.at \in DOMAIN r
        /\ r[mk.at].tex = mk.tex /\ r[mk.at].up = mk.up

HeldInv == Holds(making, reg, textures, locked)

\* A copy that is not marked is of its texture as it is, unless it is being drawn, and a
\* texture that is being written is marked.
UpToDate(r, lk, ct, mk) ==
    /\ \A i \in DOMAIN r :
          r[i].up # None /\ ~r[i].dirty => ct[r[i].up] = ct[r[i].tex] \/ (mk # None /\ i = mk.at)
    /\ \A i \in DOMAIN r : r[i].tex \in lk => r[i].dirty
    /\ DOMAIN ct = Addresses

FreshInv == TableInv /\ HeldInv /\ UpToDate(reg, locked, content, making) /\ FreshBind

\* Where the working textures are.
LEMMA WorksApart == Works \cap (Addresses \cup {None}) = {}
  BY CopyConstants DEF Works

\* An address that is in no use has no entry.
LEMMA UnusedUnknown ==
    ASSUME TableInv, NEW t \in Unused
    PROVE  /\ Find(reg, t) = 0 /\ Forgotten(t) = reg /\ Refunded(t) = charged /\ GoneWith(t) = {}
           /\ t \in Addresses /\ t \notin textures /\ t \notin copies /\ t # None
           /\ \A i \in DOMAIN reg : reg[i].tex # t /\ reg[i].up # t
  <1>1. reg \in Seq(Entries) /\ t \in Addresses /\ t \notin textures /\ t \notin copies /\ t # None
        /\ t \notin Works
    BY CopyConstants, WorksApart DEF TableInv, Table, Unused
  <1>2. \A i \in DOMAIN reg : reg[i].tex # t /\ reg[i].up # t
    BY <1>1 DEF TableInv, Table
  <1>3. Find(reg, t) = 0
    <2>1. Find(reg, t) # 0 => Find(reg, t) \in DOMAIN reg /\ reg[Find(reg, t)].tex = t
      BY <1>1, FindIs
    <2> QED BY <2>1, <1>2
  <1> QED BY <1>1, <1>2, <1>3 DEF Forgotten, Refunded, GoneWith

\* q is the table r with, perhaps, the entry e at its end.
Adds(r, q, e) ==
    \A j \in DOMAIN q : \/ j \in DOMAIN r /\ q[j] = r[j]
                        \/ j = Len(r) + 1 /\ q[j] = e

\* tex_register adds an entry of its own, or none.
LEMMA Registers ==
    ASSUME NEW r \in Seq(Entries), NEW t \in Addresses \cup Works, NEW size \in Nat,
           NEW eligible \in BOOLEAN
    PROVE  /\ Register(r, t, size, eligible) \in Seq(Entries)
           /\ Adds(r, Register(r, t, size, eligible), Entry(t, size, eligible))
           /\ \A j \in DOMAIN r : j \in DOMAIN Register(r, t, size, eligible)
                                  /\ Register(r, t, size, eligible)[j] = r[j]
  <1>1. Entry(t, size, eligible) \in Entries
    BY DEF Entry, Entries
  <1>2. PICK e \in Entries : e = Entry(t, size, eligible)
    BY <1>1
  <1>3. CASE Len(r) >= MaxEntries
    <2>1. Register(r, t, size, eligible) = r
      BY <1>3 DEF Register
    <2> QED BY <2>1 DEF Adds
  <1>4. CASE ~(Len(r) >= MaxEntries)
    <2>1. Register(r, t, size, eligible) = Append(r, e)
      BY <1>4, <1>2 DEF Register
    <2> QED BY <2>1, <1>2 DEF Adds
  <1> QED BY <1>3, <1>4

\* The same for a copy, whose entry holds nothing.
LEMMA RegistersCopy ==
    ASSUME NEW r \in Seq(Entries), NEW u \in Addresses
    PROVE  /\ Register(r, u, 0, FALSE) \in Seq(Entries)
           /\ \A j \in DOMAIN r : j \in DOMAIN Register(r, u, 0, FALSE) /\ Register(r, u, 0, FALSE)[j] = r[j]
           /\ \A j \in DOMAIN Register(r, u, 0, FALSE) \ DOMAIN r :
                 /\ Register(r, u, 0, FALSE)[j].tex = u /\ Register(r, u, 0, FALSE)[j].up = None
  <1>1. PICK e \in Entries : e = Entry(u, 0, FALSE) /\ e.tex = u /\ e.up = None
    <2>1. Entry(u, 0, FALSE) \in Entries
      BY DEF Entry, Entries
    <2>2. Entry(u, 0, FALSE).tex = u /\ Entry(u, 0, FALSE).up = None
      BY DEF Entry
    <2> QED BY <2>1, <2>2
  <1>2. CASE Len(r) >= MaxEntries
    <2>1. Register(r, u, 0, FALSE) = r
      BY <1>2 DEF Register
    <2> QED BY <2>1
  <1>3. CASE ~(Len(r) >= MaxEntries)
    <2>1. Register(r, u, 0, FALSE) = Append(r, e)
      BY <1>1, <1>3 DEF Register
    <2>2. \A j \in DOMAIN Append(r, e) \ DOMAIN r : Append(r, e)[j] = e
      OBVIOUS
    <2>3. Append(r, e) \in Seq(Entries) /\ \A j \in DOMAIN r : j \in DOMAIN Append(r, e) /\ Append(r, e)[j] = r[j]
      OBVIOUS
    <2>4. PICK q : q = Append(r, e)
      OBVIOUS
    <2>5. \A j \in DOMAIN q \ DOMAIN r : q[j].tex = u /\ q[j].up = None
      BY <1>1, <2>2, <2>4
    <2> QED BY <2>1, <2>3, <2>4, <2>5
  <1> QED BY <1>2, <1>3

\* A texture that is registered anew has an entry that holds nothing.
LEMMA RegistersIn ==
    ASSUME NEW ts, NEW cs, NEW us, NEW ds, NEW r, Table(r, us, ds), us \subseteq ts, ds \subseteq cs,
           NEW t \in Addresses \cup Works, t \in ts \cup cs \cup Works,
           \A i \in DOMAIN r : r[i].tex # t, NEW size \in Nat, NEW eligible \in BOOLEAN
    PROVE  Table(Register(r, t, size, eligible), ts, cs)
  <1>1. PICK q : q = Register(r, t, size, eligible)
    OBVIOUS
  <1>3. /\ q \in Seq(Entries)
        /\ \A j \in DOMAIN q : \/ j \in DOMAIN r /\ q[j] = r[j]
                               \/ j = Len(r) + 1 /\ q[j].tex = t /\ q[j].up = None
    <2>1. q \in Seq(Entries) /\ Adds(r, q, Entry(t, size, eligible))
      BY <1>1, Registers DEF Table
    <2> QED BY <2>1 DEF Entry, Adds
  <1>5. Table(q, ts, cs)
    BY <1>3 DEF Table
  <1> QED BY <1>1, <1>5

LEMMA RegistersNew ==
    ASSUME TableInv, NEW t \in Unused, NEW size \in Nat, NEW eligible \in BOOLEAN,
           NEW ts, NEW cs, textures \subseteq ts, copies \subseteq cs, t \in ts \cup cs
    PROVE  Table(Register(reg, t, size, eligible), ts, cs)
  <1>1. t \in Addresses \cup Works /\ \A i \in DOMAIN reg : reg[i].tex # t
    BY UnusedUnknown
  <1>2. Table(reg, textures, copies) /\ t \in ts \cup cs \cup Works
    BY DEF TableInv
  <1> QED BY <1>1, <1>2, RegistersIn

\* What is left of the table when a working texture has been released.
LEMMA ReleasesTarget ==
    ASSUME TableInv, NEW w \in Works, NEW r, r = Freed(reg, w)
    PROVE  /\ Table(r, textures, copies)
           /\ \A j \in DOMAIN r : r[j].tex # w /\ \E i \in DOMAIN reg : r[j] = reg[i]
           /\ \A i \in DOMAIN reg : reg[i].up # None => \E j \in DOMAIN r : r[j] = reg[i]
           /\ \A i \in DOMAIN reg : reg[i].tex # w /\ ~(i = Len(reg) /\ Find(reg, w) # 0) =>
                 i \in DOMAIN r /\ r[i] = reg[i]
  <1>1. /\ reg \in Seq(Entries) /\ Table(reg, textures, copies)
        /\ textures \subseteq Addresses /\ w \notin textures
    BY WorksApart DEF TableInv, Table, Apart
  <1>2. PICK k \in Nat : k = Find(reg, w)
    BY <1>1, FindIs
  <1>3. CASE k = 0
    <2>1. r = reg /\ \A i \in DOMAIN reg : reg[i].tex # w
      BY <1>1, <1>2, <1>3, FindIs DEF Freed
    <2> QED BY <1>1, <2>1
  <1>4. CASE k # 0
    <2>1. k \in 1..Len(reg) /\ reg[k].tex = w /\ r = Without(reg, k)
      BY <1>1, <1>2, <1>4, FindIs DEF Freed
    <2>2. r \in Seq(Entries) /\ Len(r) = Len(reg) - 1 /\ Keeps(reg, r, {k})
      BY <1>1, <2>1, WithoutKeeps
    <2>3. PICK f \in [DOMAIN r -> DOMAIN reg] :
             /\ \A j \in DOMAIN r : r[j] = reg[f[j]] /\ f[j] \notin {k}
             /\ \A a, b \in DOMAIN r : f[a] = f[b] => a = b
             /\ \A a \in DOMAIN reg \ {k} : \E j \in DOMAIN r : f[j] = a
      BY <2>2 DEF Keeps
    <2>4. reg[k].up = None /\ \A i \in DOMAIN reg : reg[i].tex = w => i = k
      BY <1>1, <2>1 DEF Table
    <2>5. Table(r, textures, copies)
      BY <1>1, <2>2, <2>3 DEF Table
    <2>6. \A i \in DOMAIN reg : reg[i].tex # w /\ i # Len(reg) => i \in DOMAIN r /\ r[i] = reg[i]
      <3>1. SUFFICES ASSUME NEW i \in 1..Len(reg), reg[i].tex # w, i # Len(reg)
                     PROVE  i \in DOMAIN r /\ r[i] = reg[i]
        BY <1>1
      <3>2. i # k /\ i \in 1..Len(reg) - 1
        BY <2>1, <3>1
      <3> QED BY <2>1, <2>2, <3>2 DEF Without
    <2> QED BY <1>2, <1>4, <2>3, <2>4, <2>5, <2>6
  <1> QED BY <1>3, <1>4

\* What the table q is when, perhaps, it has been made again.
Remade(q, w) ==
    /\ Table(q, textures, copies)
    /\ \A j \in DOMAIN q : \/ \E i \in DOMAIN reg : q[j] = reg[i]
                           \/ q[j].tex = w /\ q[j].up = None
    /\ \A i \in DOMAIN reg : reg[i].up # None => \E j \in DOMAIN q : q[j] = reg[i]
    /\ \A i \in DOMAIN reg : reg[i].tex # w /\ ~(i = Len(reg) /\ Find(reg, w) # 0) =>
          i \in DOMAIN q /\ q[i] = reg[i]

LEMMA RegistersTarget ==
    ASSUME TableInv, NEW w \in Works, NEW size \in Nat
    PROVE  /\ Remade(Freed(reg, w), w)
           /\ Remade(Register(Freed(reg, w), w, size, FALSE), w)
  <1>1. PICK r : r = Freed(reg, w)
    OBVIOUS
  <1>2. /\ Table(r, textures, copies)
        /\ \A j \in DOMAIN r : r[j].tex # w /\ \E i \in DOMAIN reg : r[j] = reg[i]
        /\ \A i \in DOMAIN reg : reg[i].up # None => \E j \in DOMAIN r : r[j] = reg[i]
        /\ \A i \in DOMAIN reg : reg[i].tex # w /\ ~(i = Len(reg) /\ Find(reg, w) # 0) =>
              i \in DOMAIN r /\ r[i] = reg[i]
    BY <1>1, ReleasesTarget
  <1>3. PICK q : q = Register(r, w, size, FALSE)
    OBVIOUS
  <1>4. Table(q, textures, copies)
    BY <1>2, <1>3, RegistersIn
  <1>5. /\ \A j \in DOMAIN q : \/ j \in DOMAIN r /\ q[j] = r[j]
                               \/ j = Len(r) + 1 /\ q[j].tex = w /\ q[j].up = None
        /\ \A j \in DOMAIN r : j \in DOMAIN q /\ q[j] = r[j]
    <2>1. r \in Seq(Entries)
      BY <1>2 DEF Table
    <2>2. /\ Adds(r, q, Entry(w, size, FALSE))
          /\ \A j \in DOMAIN r : j \in DOMAIN q /\ q[j] = r[j]
      BY <1>3, <2>1, Registers
    <2> QED BY <2>2 DEF Entry, Adds
  <1>6. Remade(r, w)
    BY <1>2 DEF Remade
  <1>7. Remade(q, w)
    BY <1>2, <1>4, <1>5 DEF Remade
  <1> QED BY <1>1, <1>3, <1>6, <1>7

\* What the hook on Release leaves of the table.
LEMMA FreesEntry ==
    ASSUME TableInv, NEW t \in textures, ~Overwrites(t)
    PROVE  /\ Table(Forgotten(t), textures \ {t}, copies \ GoneWith(t))
           /\ \A j \in DOMAIN Forgotten(t) : \E i \in DOMAIN reg : Forgotten(t)[j] = reg[i]
           /\ \A i \in DOMAIN reg :
                 reg[i].up # None /\ reg[i].up \notin GoneWith(t) =>
                     \E j \in DOMAIN Forgotten(t) : Forgotten(t)[j] = reg[i]
  <1>1. /\ reg \in Seq(Entries)
        /\ \A i, j \in DOMAIN reg : reg[i].tex = reg[j].tex => i = j
        /\ \A i \in DOMAIN reg : reg[i].tex \in textures \cup copies \cup Works
        /\ \A i \in DOMAIN reg : reg[i].up # None => reg[i].up \in copies /\ reg[i].tex \in textures
        /\ \A i, j \in DOMAIN reg : reg[i].up = reg[j].up /\ reg[i].up # None => i = j
        /\ textures \cap copies = {} /\ None \notin textures \cup copies
        /\ Works \cap (textures \cup copies) = {} /\ None \notin Works
    BY CopyConstants, WorksApart DEF TableInv, Table, Apart
  <1>2. PICK i \in Nat : i = Find(reg, t)
    BY <1>1, FindIs
  <1>3. CASE i = 0
    <2>1. Forgotten(t) = reg /\ GoneWith(t) = {} /\ \A j \in DOMAIN reg : reg[j].tex # t
      BY <1>1, <1>2, <1>3, FindIs DEF Forgotten, GoneWith
    <2>2. Table(reg, textures \ {t}, copies \ {})
      BY <1>1, <2>1 DEF Table
    <2> QED BY <2>1, <2>2
  <1>4. CASE i # 0
    <2>1. i \in DOMAIN reg /\ reg[i].tex = t /\ Forgotten(t) = Forget(reg, i) /\ GoneWith(t) = {reg[i].up}
      BY <1>1, <1>2, <1>4, FindIs DEF Forgotten, GoneWith
    <2>2. PICK n \in Nat : n = Len(reg) /\ DOMAIN reg = 1..n
      BY <1>1
    <2>3. reg[i].up # None => reg[i].tex # reg[i].up
      BY <1>1, <2>1
    <2>4. PICK k \in 0..n :
             /\ k = CopyPlace(reg, i) /\ k # i
             /\ k # 0 => reg[i].up # None /\ reg[k].tex = reg[i].up
             /\ reg[i].up # None /\ k = 0 => \A j \in DOMAIN reg : reg[j].tex # reg[i].up
      BY <1>1, <2>1, <2>2, <2>3, CopyPlaceIs
    <2>5. ~(i = n /\ k \in 1..n - 2)
      BY <1>2, <1>4, <2>2, <2>4 DEF Overwrites, CopyPlace
    <2>6. Forget(reg, i) \in Seq(Entries) /\ Keeps(reg, Forget(reg, i), {i, k})
      BY <1>1, <2>1, <2>2, <2>4, <2>5, ForgetKeeps
    <2>7. PICK q \in Seq(Entries) : q = Forget(reg, i)
      BY <2>6
    <2>8. PICK f \in [DOMAIN q -> DOMAIN reg] :
             /\ \A j \in DOMAIN q : q[j] = reg[f[j]] /\ f[j] \notin {i, k}
             /\ \A a, b \in DOMAIN q : f[a] = f[b] => a = b
             /\ \A a \in DOMAIN reg \ {i, k} : \E j \in DOMAIN q : f[j] = a
      BY <2>6, <2>7 DEF Keeps
    <2>9. \A a \in DOMAIN reg \ {i, k} :
             /\ reg[a].tex # t /\ reg[a].tex # reg[i].up
             /\ reg[a].up # None => reg[a].up # reg[i].up
      <3> SUFFICES ASSUME NEW a \in DOMAIN reg \ {i, k}
                   PROVE  /\ reg[a].tex # t /\ reg[a].tex # reg[i].up
                          /\ reg[a].up # None => reg[a].up # reg[i].up
        OBVIOUS
      <3>1. reg[a].tex # t /\ (reg[a].up # None => reg[a].up # reg[i].up)
        BY <1>1, <2>1
      <3>2. reg[a].tex # reg[i].up
        <4>1. CASE reg[i].up = None
          BY <1>1, <4>1
        <4>2. CASE k = 0 /\ reg[i].up # None
          BY <2>4, <4>2
        <4>3. CASE k # 0
          <5>1. k \in DOMAIN reg /\ reg[k].tex = reg[i].up
            BY <2>2, <2>4, <4>3
          <5> QED BY <1>1, <5>1
        <4> QED BY <4>1, <4>2, <4>3
      <3> QED BY <3>1, <3>2
    <2>10. Table(q, textures \ {t}, copies \ {reg[i].up})
      <3>1. \A a, b \in DOMAIN q : q[a].tex = q[b].tex => a = b
        BY <1>1, <2>8
      <3>2. \A a \in DOMAIN q : q[a].tex \in (textures \ {t}) \cup (copies \ {reg[i].up}) \cup Works
        BY <1>1, <2>8, <2>9
      <3>3. \A a \in DOMAIN q : q[a].up # None => q[a].up \in copies \ {reg[i].up} /\ q[a].tex \in textures \ {t}
        BY <1>1, <2>8, <2>9
      <3>4. \A a, b \in DOMAIN q : q[a].up = q[b].up /\ q[a].up # None => a = b
        BY <1>1, <2>8
      <3> QED BY <3>1, <3>2, <3>3, <3>4 DEF Table
    <2>11. \A a \in DOMAIN reg : reg[a].up # None /\ reg[a].up # reg[i].up =>
              \E j \in DOMAIN q : q[j] = reg[a]
      <3>1. SUFFICES ASSUME NEW a \in DOMAIN reg, reg[a].up # None, reg[a].up # reg[i].up
                     PROVE  \E j \in DOMAIN q : q[j] = reg[a]
        OBVIOUS
      <3>2. a # i /\ a # k
        BY <1>1, <2>1, <2>2, <2>4, <3>1
      <3> QED BY <3>2, <2>8
    <2>12. \A j \in DOMAIN q : \E a \in DOMAIN reg : q[j] = reg[a]
      BY <2>8
    <2> QED BY <2>1, <2>7, <2>10, <2>11, <2>12
  <1> QED BY <1>3, <1>4

\* tex_dirty_texture marks the entry of the texture, and changes nothing else.
LEMMA Marks ==
    ASSUME TableInv, NEW t \in textures
    PROVE  /\ Table(Marked(reg, t), textures, copies)
           /\ DOMAIN Marked(reg, t) = DOMAIN reg
           /\ \A i \in DOMAIN reg :
                 /\ Marked(reg, t)[i].tex = reg[i].tex /\ Marked(reg, t)[i].up = reg[i].up
                 /\ Marked(reg, t)[i].size = reg[i].size
                 /\ Marked(reg, t)[i].dirty = (reg[i].dirty \/ reg[i].tex = t)
  <1>1. reg \in Seq(Entries) /\ \A i, j \in DOMAIN reg : reg[i].tex = reg[j].tex => i = j
    BY DEF TableInv, Table
  <1>2. PICK k \in Nat : k = Find(reg, t)
    BY <1>1, FindIs
  <1>3. \A i \in DOMAIN reg : reg[i].tex = t <=> i = k
    <2>1. /\ k = 0 => \A i \in DOMAIN reg : reg[i].tex # t
          /\ k # 0 => k \in DOMAIN reg /\ reg[k].tex = t
      BY <1>1, <1>2, FindIs
    <2> QED BY <2>1, <1>1
  <1>4. PICK q : q = [j \in DOMAIN reg |-> IF j = k THEN [reg[j] EXCEPT !.dirty = TRUE] ELSE reg[j]]
    OBVIOUS
  <1>5. q = Marked(reg, t)
    BY <1>2, <1>4 DEF Marked
  <1>6. \A i \in DOMAIN reg : q[i] \in Entries /\ q[i].tex = reg[i].tex /\ q[i].up = reg[i].up /\ q[i].size = reg[i].size
                              /\ q[i].dirty = (reg[i].dirty \/ reg[i].tex = t)
    <2> SUFFICES ASSUME NEW i \in DOMAIN reg
                 PROVE q[i] \in Entries /\ q[i].tex = reg[i].tex /\ q[i].up = reg[i].up /\ q[i].size = reg[i].size
                       /\ q[i].dirty = (reg[i].dirty \/ reg[i].tex = t)
      OBVIOUS
    <2>1. reg[i] \in Entries
      BY <1>1
    <2>2. CASE i = k
      <3>1. q[i] = [reg[i] EXCEPT !.dirty = TRUE] /\ reg[i].tex = t
        BY <1>3, <1>4, <2>2
      <3> QED BY <2>1, <3>1 DEF Entries
    <2>3. CASE i # k
      <3>1. q[i] = reg[i] /\ reg[i].tex # t
        BY <1>3, <1>4, <2>3
      <3>2. reg[i].dirty \in BOOLEAN
        BY <2>1 DEF Entries
      <3> QED BY <2>1, <3>1, <3>2
    <2> QED BY <2>2, <2>3
  <1>7. q \in Seq(Entries) /\ DOMAIN q = DOMAIN reg
    <2>1. DOMAIN q = 1..Len(reg) /\ Len(reg) \in Nat /\ DOMAIN reg = 1..Len(reg)
      BY <1>1, <1>4
    <2>2. q \in [1..Len(reg) -> Entries]
      BY <1>4, <1>6, <2>1
    <2> QED BY <2>1, <2>2
  <1>8. Table(q, textures, copies)
    BY <1>6, <1>7 DEF TableInv, Table
  <1> QED BY <1>5, <1>6, <1>7, <1>8

\* An entry is replaced.
LEMMA Replaces ==
    ASSUME NEW r \in Seq(Entries), NEW i \in DOMAIN r, NEW e \in Entries
    PROVE  /\ [r EXCEPT ![i] = e] \in Seq(Entries) /\ DOMAIN [r EXCEPT ![i] = e] = DOMAIN r
           /\ Len([r EXCEPT ![i] = e]) = Len(r)
           /\ \A j \in DOMAIN r : [r EXCEPT ![i] = e][j] = IF j = i THEN e ELSE r[j]
  OBVIOUS

\* An entry that takes a copy is one that is found, and has none.
LEMMA Eligible ==
    ASSUME TableInv, NEW t \in textures, ~BoundAsItIs(Find(reg, t))
    PROVE  Find(reg, t) \in DOMAIN reg /\ reg[Find(reg, t)] \in Entries /\ reg[Find(reg, t)].tex = t
  <1>1. reg \in Seq(Entries) /\ Find(reg, t) # 0
    BY DEF TableInv, Table, BoundAsItIs
  <1>2. Find(reg, t) \in DOMAIN reg /\ reg[Find(reg, t)].tex = t
    BY <1>1, FindIs
  <1> QED BY <1>1, <1>2

\* A failed or redrawn copy changes its entry only in what it says of that.
LEMMA Reentered ==
    ASSUME TableInv, NEW i \in DOMAIN reg, NEW e \in Entries, e.tex = reg[i].tex, e.up = reg[i].up
    PROVE  Table([reg EXCEPT ![i] = e], textures, copies)
  <1>1. reg \in Seq(Entries)
    BY DEF TableInv, Table
  <1>2. PICK q : q = [reg EXCEPT ![i] = e]
    OBVIOUS
  <1>3. q \in Seq(Entries) /\ DOMAIN q = DOMAIN reg
        /\ \A j \in DOMAIN reg : q[j] = IF j = i THEN e ELSE reg[j]
    BY <1>1, <1>2, Replaces
  <1>4. \A j \in DOMAIN reg : q[j].tex = reg[j].tex /\ q[j].up = reg[j].up
    BY <1>3
  <1>5. Table(q, textures, copies)
    BY <1>3, <1>4 DEF TableInv, Table
  <1> QED BY <1>2, <1>5

\* tex_generate, the first time: the copy is new, and it is the entry's.
LEMMA MakesCopy ==
    ASSUME TableInv, NEW t \in textures, MakeCopy(t)
    PROVE  \E u \in Unused, i \in DOMAIN reg, e \in Entries :
              /\ reg[i].tex = t /\ reg[i].up = None
              /\ e.tex = t /\ e.up = u /\ e.size = reg[i].size /\ e.dirty = reg[i].dirty
              /\ reg' = [Register(reg, u, 0, FALSE) EXCEPT ![i] = e]
              /\ copies' = copies \cup {u} /\ charged' = charged + reg[i].size
              /\ UNCHANGED <<textures, locked>>
              /\ content' = [content EXCEPT ![u] = None] /\ given' = None
              /\ making' = [tex |-> t, at |-> i, up |-> u, turn |-> 1]
  <1> DEFINE i == Find(reg, t)
  <1>1. i \in DOMAIN reg /\ reg[i] \in Entries /\ reg[i].tex = t
    BY Eligible DEF MakeCopy
  <1>2. PICK u \in Unused :
           /\ reg' = [Register(Forgotten(u), u, 0, FALSE) EXCEPT ![i].up = u]
           /\ copies' = (copies \ GoneWith(u)) \cup {u} /\ charged' = Refunded(u) + reg[i].size
           /\ content' = [content EXCEPT ![u] = None] /\ Generates(t, i, u)
    BY DEF MakeCopy
  <1>3. Forgotten(u) = reg /\ Refunded(u) = charged /\ GoneWith(u) = {} /\ u \in Addresses
    BY UnusedUnknown
  <1>4. PICK q : q = Register(reg, u, 0, FALSE)
    OBVIOUS
  <1>5. q \in Seq(Entries) /\ i \in DOMAIN q /\ q[i] = reg[i]
    <2>1. reg \in Seq(Entries)
      BY DEF TableInv, Table
    <2> HIDE DEF i
    <2> QED BY <1>1, <1>3, <1>4, <2>1, RegistersCopy
  <1>8. reg[i].up = None /\ UNCHANGED <<textures, locked>>
    BY DEF MakeCopy, i
  <1> HIDE DEF i
  <1>6. PICK e \in Entries : e = [reg[i] EXCEPT !.up = u]
    BY <1>1, <1>3 DEF Entries
  <1>7. e.tex = t /\ e.up = u /\ e.size = reg[i].size /\ e.dirty = reg[i].dirty
    BY <1>1, <1>6 DEF Entries
  <1>9. reg' = [q EXCEPT ![i] = e]
    BY <1>2, <1>3, <1>4, <1>5, <1>6
  <1>10. copies' = copies \cup {u} /\ charged' = charged + reg[i].size
    BY <1>2, <1>3
  <1> QED BY <1>1, <1>2, <1>4, <1>7, <1>8, <1>9, <1>10 DEF Generates

\* q is the table r with e for its entry i and, perhaps, one more, that of the copy u.
Entered(r, q, i, e, u) ==
    /\ \A j \in DOMAIN r : j \in DOMAIN q /\ q[j] = IF j = i THEN e ELSE r[j]
    /\ \A j \in DOMAIN q \ DOMAIN r : q[j].tex = u /\ q[j].up = None

\* The table with the copy in it.
LEMMA CopyEntered ==
    ASSUME TableInv, NEW u \in Unused, NEW i \in DOMAIN reg, NEW e \in Entries,
           e.tex = reg[i].tex, e.up = u, reg[i].up = None, reg[i].tex \in textures,
           reg' = [Register(reg, u, 0, FALSE) EXCEPT ![i] = e]
    PROVE  Table(reg', textures, copies \cup {u}) /\ Entered(reg, reg', i, e, u)
  <1>1. PICK q : q = Register(reg, u, 0, FALSE)
    OBVIOUS
  <1>0. PICK p : p = reg'
    OBVIOUS
  <1>2. Table(q, textures, copies \cup {u})
    BY <1>1, RegistersNew, CopyConstants
  <1>3. /\ q \in Seq(Entries)
        /\ \A j \in DOMAIN reg : j \in DOMAIN q /\ q[j] = reg[j]
        /\ \A j \in DOMAIN q \ DOMAIN reg : q[j].tex = u /\ q[j].up = None
    <2>1. reg \in Seq(Entries) /\ u \in Addresses
      BY UnusedUnknown DEF TableInv, Table
    <2>2. /\ Register(reg, u, 0, FALSE) \in Seq(Entries)
          /\ \A j \in DOMAIN reg : j \in DOMAIN Register(reg, u, 0, FALSE) /\ Register(reg, u, 0, FALSE)[j] = reg[j]
          /\ \A j \in DOMAIN Register(reg, u, 0, FALSE) \ DOMAIN reg :
                 /\ Register(reg, u, 0, FALSE)[j].tex = u /\ Register(reg, u, 0, FALSE)[j].up = None
      BY <2>1, RegistersCopy
    <2> QED BY <1>1, <2>2
  <1>4. /\ p \in Seq(Entries) /\ DOMAIN p = DOMAIN q
        /\ \A j \in DOMAIN q : p[j] = IF j = i THEN e ELSE q[j]
    BY <1>0, <1>1, <1>3, Replaces
  <1>5. u # None /\ \A j \in DOMAIN reg : reg[j].up # u
    BY UnusedUnknown
  <1>6. \A j \in DOMAIN p : p[j].tex = q[j].tex /\ p[j].up = IF j = i THEN u ELSE q[j].up
    BY <1>3, <1>4
  <1>7. \A j \in DOMAIN q : q[j].up # u
    BY <1>3, <1>5
  <1>8. Table(p, textures, copies \cup {u})
    <2>1. \A a, b \in DOMAIN p : p[a].tex = p[b].tex => a = b
      <3>1. \A a, b \in DOMAIN q : q[a].tex = q[b].tex => a = b
        BY <1>2 DEF Table
      <3> QED BY <1>4, <1>6, <3>1
    <2>2. \A a \in DOMAIN p : p[a].tex \in textures \cup (copies \cup {u}) \cup Works
      BY <1>2, <1>4, <1>6 DEF Table
    <2>3. \A a \in DOMAIN p : p[a].up # None => p[a].up \in copies \cup {u} /\ p[a].tex \in textures
      BY <1>2, <1>3, <1>4, <1>6 DEF Table
    <2>4. \A a, b \in DOMAIN p : p[a].up = p[b].up /\ p[a].up # None => a = b
      <3>1. \A a, b \in DOMAIN q : q[a].up = q[b].up /\ q[a].up # None => a = b
        BY <1>2 DEF Table
      <3> QED BY <1>4, <1>6, <1>7, <3>1
    <2> QED BY <1>4, <2>1, <2>2, <2>3, <2>4 DEF Table
  <1>9. \A j \in DOMAIN reg : j \in DOMAIN p /\ p[j] = IF j = i THEN e ELSE reg[j]
    BY <1>3, <1>4
  <1>10. \A j \in DOMAIN p \ DOMAIN reg : p[j].tex = u /\ p[j].up = None
    BY <1>3, <1>4
  <1>11. Entered(reg, p, i, e, u)
    BY <1>9, <1>10 DEF Entered
  <1> QED BY <1>0, <1>8, <1>11

LEMMA GivesUp ==
    ASSUME TableInv, NEW t \in textures, GiveUp(t)
    PROVE  \E i \in DOMAIN reg, e \in Entries :
              /\ e.tex = reg[i].tex /\ e.up = reg[i].up /\ e.size = reg[i].size /\ e.dirty = reg[i].dirty
              /\ reg' = [reg EXCEPT ![i] = e]
  <1> DEFINE i == Find(reg, t)
  <1>1. i \in DOMAIN reg /\ reg[i] \in Entries /\ reg' = [reg EXCEPT ![i].failed = TRUE]
    BY Eligible DEF GiveUp
  <1> HIDE DEF i
  <1>2. PICK e \in Entries : e = [reg[i] EXCEPT !.failed = TRUE]
    BY <1>1 DEF Entries
  <1>3. e.tex = reg[i].tex /\ e.up = reg[i].up /\ e.size = reg[i].size /\ e.dirty = reg[i].dirty
    BY <1>1, <1>2 DEF Entries
  <1> QED BY <1>1, <1>2, <1>3

\* tex_generate, of a copy that is stale.
LEMMA RemakesCopy ==
    ASSUME TableInv, NEW t \in textures, RemakeCopy(t)
    PROVE  \E i \in DOMAIN reg :
              /\ reg[i].tex = t /\ reg[i].up # None /\ reg[i].dirty
              /\ UNCHANGED <<textures, copies, locked, content, reg, charged>> /\ given' = None
              /\ making' = [tex |-> t, at |-> i, up |-> reg[i].up, turn |-> 1]
  <1>1. Find(reg, t) \in DOMAIN reg /\ reg[Find(reg, t)].tex = t
    BY Eligible DEF RemakeCopy
  <1> QED BY <1>1 DEF RemakeCopy, Generates, deviceVars

\* tex_ensure_target, of a working texture that is released.
LEMMA MakesTarget ==
    ASSUME TableInv, HeldInv, Lapses = {}, MakeTarget
    PROVE  /\ UNCHANGED <<deviceVars, charged>> /\ making # None
           /\ \E w \in Works, size \in Nat, fails \in BOOLEAN :
                 /\ fails => "chain" \in Failing /\ given' = <<making.tex, making.tex>> /\ making' = None
                 /\ ~fails => /\ given' = None /\ making' = [making EXCEPT !.turn = @ + 1]
                              /\ reg'[making.at] = reg[making.at] /\ making.at \in DOMAIN reg'
                 /\ reg' = IF fails THEN Freed(reg, w) ELSE Register(Freed(reg, w), w, size, FALSE)
                 /\ Remade(reg', w)
  <1>1. UNCHANGED <<deviceVars, charged>> /\ making # None
    BY DEF MakeTarget, AtTarget
  <1>2. PICK fails \in BOOLEAN, w \in Works, size \in Nat :
           /\ w = Target /\ size = Held.size
           /\ fails => "chain" \in Failing /\ given' = <<making.tex, making.tex>> /\ making' = None
           /\ ~fails => ~MovesHeld /\ given' = None /\ making' = [making EXCEPT !.turn = @ + 1]
           /\ reg' = IF fails THEN Freed(reg, w) ELSE Register(Freed(reg, w), w, size, FALSE)
    <2>1. Target \in Works
      BY DEF MakeTarget, AtTarget, Target, Works
    <2>2. Held.size \in Nat
      <3>1. reg \in Seq(Entries) /\ making.at \in DOMAIN reg
        BY <1>1 DEF TableInv, Table, HeldInv, Holds
      <3>2. reg[making.at] \in Entries
        BY <3>1
      <3> QED BY <3>2 DEF Held, Entries
    <2>3. PICK fails \in IF "chain" \in Failing THEN BOOLEAN ELSE {FALSE} :
             /\ MovesHeld /\ ~fails => "bind" \in Lapses
             /\ reg' = IF fails THEN Freed(reg, Target)
                                ELSE Register(Freed(reg, Target), Target, Held.size, FALSE)
             /\ making' = IF fails THEN None ELSE [making EXCEPT !.turn = @ + 1]
             /\ given' = IF fails THEN <<making.tex, making.tex>> ELSE None
      BY DEF MakeTarget
    <2>4. fails \in BOOLEAN /\ (fails => "chain" \in Failing)
      BY <2>3
    <2>5. ~fails => ~MovesHeld
      BY <2>3
    <2> HIDE DEF Target, Held, MovesHeld
    <2> QED BY <2>1, <2>2, <2>3, <2>4, <2>5
  <1>3. Remade(reg', w)
    BY <1>2, RegistersTarget
  <1>4. ASSUME ~fails PROVE reg'[making.at] = reg[making.at] /\ making.at \in DOMAIN reg'
    <2>1. making.at \in DOMAIN reg /\ reg[making.at].tex \in Addresses
      BY <1>1 DEF HeldInv, Holds, Bindings
    <2>2. reg[making.at].tex # w
      BY <2>1, WorksApart
    <2>3. ~(making.at = Len(reg) /\ Find(reg, w) # 0)
      BY <1>2, <1>4 DEF MovesHeld
    <2> QED BY <1>3, <2>1, <2>2, <2>3 DEF Remade
  <1> QED BY <1>1, <1>2, <1>3, <1>4

\* The copy is drawn from its texture.
LEMMA Draws ==
    ASSUME TableInv, HeldInv, Draw
    PROVE  \E i \in DOMAIN reg, e \in Entries :
              /\ making # None /\ i = making.at
              /\ e.tex = reg[i].tex /\ e.up = reg[i].up /\ e.size = reg[i].size
              /\ UNCHANGED <<textures, copies, locked, charged>>
              /\ reg' = [reg EXCEPT ![i] = e]
              /\ reg[i].tex \in textures /\ reg[i].up # None
              /\ content' = [content EXCEPT ![reg[i].up] = content[reg[i].tex]]
              /\ given' = <<reg[i].tex, reg[i].up>> /\ making' = None
  <1> DEFINE i == making.at
  <1>1. /\ making # None /\ i \in DOMAIN reg /\ reg[i] \in Entries /\ reg[i].tex = making.tex
        /\ reg[i].up = making.up /\ making.up # None /\ making.tex \in textures
    <2>1. making # None /\ reg \in Seq(Entries)
      BY DEF Draw, TableInv, Table
    <2>2. /\ i \in DOMAIN reg /\ reg[i].tex = making.tex /\ reg[i].up = making.up
          /\ making.tex \in textures /\ making.up \in Addresses
      BY <2>1 DEF HeldInv, Holds, Bindings
    <2> QED BY <2>1, <2>2, CopyConstants
  <1>2. /\ reg' = [reg EXCEPT ![i] = [@ EXCEPT !.dirty = FALSE]]
        /\ content' = [content EXCEPT ![making.up] = content[making.tex]]
        /\ given' = <<making.tex, reg[i].up>> /\ making' = None
        /\ UNCHANGED <<textures, copies, locked, charged>>
    BY <1>1 DEF Draw, Held, Give
  <1> HIDE DEF i
  <1>3. PICK e \in Entries : e = [reg[i] EXCEPT !.dirty = FALSE]
    BY <1>1 DEF Entries
  <1>4. e.tex = reg[i].tex /\ e.up = reg[i].up /\ e.size = reg[i].size
    BY <1>1, <1>3 DEF Entries
  <1>5. reg' = [reg EXCEPT ![i] = e]
    BY <1>2, <1>3
  <1> QED BY <1>1, <1>2, <1>4, <1>5 DEF i

\* A generation holds its entry for as long as no working texture takes its place.
LEMMA HeldKept ==
    ASSUME TableInv, HeldInv, Lapses = {}, [CopiesNext]_copyVars
    PROVE  HeldInv'
  <1>1. ASSUME NEW t \in Addresses, NEW size \in Costs, NEW el \in BOOLEAN, NEW p \in Pictures,
               Create(t, size, el, p)
        PROVE  HeldInv'
    BY <1>1 DEF Create, HeldInv, Holds
  <1>2. ASSUME NEW t \in Addresses, Free(t) PROVE HeldInv'
    BY <1>2 DEF Free, HeldInv, Holds
  <1>9. ASSUME NEW t \in Addresses, Lock(t) PROVE HeldInv'
    BY <1>9 DEF Lock, HeldInv, Holds
  <1>10. ASSUME NEW t \in Addresses, NEW p \in Pictures, Unlock(t, p) PROVE HeldInv'
    BY <1>10 DEF Unlock, HeldInv, Holds
  <1>11. ASSUME NEW t \in Addresses, NEW p \in Pictures, LoadSurface(t, p) PROVE HeldInv'
    BY <1>11 DEF LoadSurface, HeldInv, Holds
  <1>3. ASSUME NEW t \in Addresses, Bind(t) PROVE HeldInv'
    <2>0. t \in textures /\ t \notin locked
      BY <1>3 DEF Bind
    <2>1. CASE BindAsItIs(t) \/ BindCopy(t) \/ GiveUp(t)
      BY <2>1 DEF BindAsItIs, BindCopy, GiveUp, Give, HeldInv, Holds
    <2>2. CASE MakeCopy(t)
      <3>1. PICK u \in Unused, i \in DOMAIN reg, e \in Entries :
              /\ reg[i].tex = t /\ reg[i].up = None
              /\ e.tex = t /\ e.up = u
              /\ reg' = [Register(reg, u, 0, FALSE) EXCEPT ![i] = e]
              /\ UNCHANGED <<textures, locked>>
              /\ making' = [tex |-> t, at |-> i, up |-> u, turn |-> 1]
        <4>1. PICK u \in Unused, i \in DOMAIN reg, e \in Entries :
                 /\ reg[i].tex = t /\ reg[i].up = None
                 /\ e.tex = t /\ e.up = u /\ e.size = reg[i].size /\ e.dirty = reg[i].dirty
                 /\ reg' = [Register(reg, u, 0, FALSE) EXCEPT ![i] = e]
                 /\ copies' = copies \cup {u} /\ charged' = charged + reg[i].size
                 /\ UNCHANGED <<textures, locked>>
                 /\ content' = [content EXCEPT ![u] = None] /\ given' = None
                 /\ making' = [tex |-> t, at |-> i, up |-> u, turn |-> 1]
          BY <2>0, <2>2, MakesCopy
        <4> QED BY <4>1
      <3>2. u \in Addresses
        BY UnusedUnknown
      <3>3. Entered(reg, reg', i, e, u)
        <4>1. reg[i].tex \in textures /\ e.tex = reg[i].tex
          BY <2>0, <3>1
        <4> QED BY <3>1, <4>1, CopyEntered
      <3>4. i \in DOMAIN reg' /\ reg'[i] = e
        BY <3>3 DEF Entered
      <3>5. i \in Nat
        BY DEF TableInv, Table
      <3> QED BY <1>3, <2>0, <3>1, <3>2, <3>4, <3>5 DEF HeldInv, Holds, Bindings
    <2>3. CASE RemakeCopy(t)
      <3>1. PICK i \in DOMAIN reg :
              /\ reg[i].tex = t /\ reg[i].up # None
              /\ UNCHANGED <<textures, locked, reg>>
              /\ making' = [tex |-> t, at |-> i, up |-> reg[i].up, turn |-> 1]
        BY <2>0, <2>3, RemakesCopy
      <3>2. i \in Nat /\ reg[i].up \in Addresses
        BY <3>1 DEF TableInv, Table, Apart
      <3> QED BY <1>3, <2>0, <3>1, <3>2 DEF HeldInv, Holds, Bindings
    <2> QED BY <1>3, <2>1, <2>2, <2>3 DEF Bind
  <1>4. ASSUME making # None, making' = [making EXCEPT !.turn = @ + 1], making.at \in DOMAIN reg',
               reg'[making.at] = reg[making.at], UNCHANGED <<textures, locked>>
        PROVE  HeldInv'
    <2>1. making \in Bindings /\ making.tex \in textures \ locked
          /\ reg[making.at].tex = making.tex /\ reg[making.at].up = making.up
      BY <1>4 DEF HeldInv, Holds
    <2>2. making' \in Bindings /\ making'.tex = making.tex /\ making'.at = making.at
          /\ making'.up = making.up
      BY <1>4, <2>1 DEF Bindings
    <2> QED BY <1>4, <2>1, <2>2 DEF HeldInv, Holds
  <1>5. CASE KeepTarget
    <2>1. making # None /\ making.at \in DOMAIN reg
      BY <1>5 DEF KeepTarget, AtTarget, HeldInv, Holds
    <2> QED BY <1>4, <1>5, <2>1 DEF KeepTarget, deviceVars
  <1>6. CASE MakeTarget
    <2>1. PICK fails \in BOOLEAN :
             /\ UNCHANGED <<deviceVars, charged>> /\ making # None
             /\ fails => making' = None
             /\ ~fails => /\ making' = [making EXCEPT !.turn = @ + 1]
                          /\ reg'[making.at] = reg[making.at] /\ making.at \in DOMAIN reg'
      BY <1>6, MakesTarget
    <2>2. CASE fails
      BY <2>1, <2>2 DEF HeldInv, Holds
    <2>3. CASE ~fails
      BY <1>4, <2>1, <2>3 DEF deviceVars
    <2> QED BY <2>2, <2>3
  <1>7. CASE Draw
    BY <1>7 DEF Draw, Give, HeldInv, Holds
  <1>12. CASE Reset
    BY <1>12 DEF Reset, HeldInv, Holds
  <1>8. CASE UNCHANGED copyVars
    BY <1>8 DEF copyVars, deviceVars, HeldInv, Holds
  <1> QED BY <1>1, <1>2, <1>3, <1>5, <1>6, <1>7, <1>8, <1>9, <1>10, <1>11, <1>12 DEF CopiesNext

\* The table keeps its order through every step, for as long as no call loses the entry
\* that it holds.
LEMMA TableKept ==
    ASSUME TableInv, HeldInv, Lapses = {}, [CopiesNext]_copyVars
    PROVE  TableInv'
  <1>0. /\ Table(reg, textures, copies) /\ reg \in Seq(Entries)
        /\ textures \subseteq Addresses /\ copies \subseteq Addresses /\ textures \cap copies = {}
        /\ locked \subseteq textures
    BY DEF TableInv, Table, Apart
  <1>1. ASSUME NEW t \in Addresses, NEW size \in Costs, NEW el \in BOOLEAN, NEW p \in Pictures,
               Create(t, size, el, p)
        PROVE  TableInv'
    <2>1. t \in Unused /\ textures' = textures \cup {t} /\ UNCHANGED locked
          /\ reg' = Register(Forgotten(t), t, size, el) /\ copies' = copies \ GoneWith(t)
      BY <1>1 DEF Create
    <2>2. reg' = Register(reg, t, size, el) /\ copies' = copies /\ t \notin copies /\ size \in Nat
      BY <2>1, UnusedUnknown, CopyConstants
    <2>3. Table(Register(reg, t, size, el), textures \cup {t}, copies)
      BY <2>1, <2>2, RegistersNew
    <2> QED BY <1>0, <2>1, <2>2, <2>3 DEF TableInv, Apart
  <1>2. ASSUME NEW t \in Addresses, Free(t) PROVE TableInv'
    <2>1. t \in textures /\ t \notin locked /\ UNCHANGED locked /\ ~Overwrites(t)
          /\ reg' = Forgotten(t) /\ textures' = textures \ {t} /\ copies' = copies \ GoneWith(t)
      BY <1>2 DEF Free
    <2>2. Table(Forgotten(t), textures \ {t}, copies \ GoneWith(t))
      BY <2>1, FreesEntry
    <2> QED BY <1>0, <2>1, <2>2 DEF TableInv, Apart
  <1>3. ASSUME NEW t \in Addresses, Lock(t) PROVE TableInv'
    <2>1. t \in textures /\ locked' = locked \cup {t} /\ UNCHANGED <<textures, copies>> /\ reg' = Marked(reg, t)
      BY <1>3 DEF Lock, LockMark
    <2>2. Table(Marked(reg, t), textures, copies)
      BY <2>1, Marks
    <2> QED BY <1>0, <2>1, <2>2 DEF TableInv, Apart
  <1>4. ASSUME NEW t \in Addresses, NEW p \in Pictures, Unlock(t, p) PROVE TableInv'
    BY <1>0, <1>4 DEF Unlock, TableInv, Apart
  <1>5. ASSUME NEW t \in Addresses, NEW p \in Pictures, LoadSurface(t, p) PROVE TableInv'
    <2>1. t \in textures /\ UNCHANGED <<textures, copies, locked>> /\ reg' = Marked(reg, t)
      BY <1>5 DEF LoadSurface
    <2>2. Table(Marked(reg, t), textures, copies)
      BY <2>1, Marks
    <2> QED BY <1>0, <2>1, <2>2 DEF TableInv, Apart
  <1>6. ASSUME NEW t \in Addresses, Bind(t) PROVE TableInv'
    <2>0. t \in textures
      BY <1>6 DEF Bind
    <2>1. CASE BindAsItIs(t) \/ BindCopy(t)
      BY <2>1, <1>0 DEF BindAsItIs, BindCopy, deviceVars, TableInv, Apart
    <2>2. CASE GiveUp(t)
      <3>1. PICK i \in DOMAIN reg, e \in Entries :
               e.tex = reg[i].tex /\ e.up = reg[i].up /\ reg' = [reg EXCEPT ![i] = e]
        BY <2>0, <2>2, GivesUp
      <3>2. Table(reg', textures, copies)
        BY <3>1, Reentered
      <3>3. UNCHANGED <<textures, copies, locked>>
        BY <2>2 DEF GiveUp, deviceVars
      <3> QED BY <1>0, <3>2, <3>3 DEF TableInv, Apart
    <2>3. CASE MakeCopy(t)
      <3>1. PICK u \in Unused, i \in DOMAIN reg, e \in Entries :
              /\ reg[i].tex = t /\ reg[i].up = None /\ e.tex = t /\ e.up = u
              /\ reg' = [Register(reg, u, 0, FALSE) EXCEPT ![i] = e]
              /\ copies' = copies \cup {u} /\ UNCHANGED <<textures, locked>>
        <4>1. PICK u \in Unused, i \in DOMAIN reg, e \in Entries :
                 /\ reg[i].tex = t /\ reg[i].up = None
                 /\ e.tex = t /\ e.up = u /\ e.size = reg[i].size /\ e.dirty = reg[i].dirty
                 /\ reg' = [Register(reg, u, 0, FALSE) EXCEPT ![i] = e]
                 /\ copies' = copies \cup {u} /\ charged' = charged + reg[i].size
                 /\ UNCHANGED <<textures, locked>>
                 /\ content' = [content EXCEPT ![u] = None] /\ given' = None
                 /\ making' = [tex |-> t, at |-> i, up |-> u, turn |-> 1]
          BY <2>0, <2>3, MakesCopy
        <4> QED BY <4>1
      <3>2. Table(reg', textures, copies \cup {u})
        <4>1. reg[i].tex \in textures /\ e.tex = reg[i].tex
          BY <2>0, <3>1
        <4> QED BY <3>1, <4>1, CopyEntered
      <3>3. u \in Addresses /\ u \notin textures
        BY DEF Unused
      <3> QED BY <1>0, <3>1, <3>2, <3>3 DEF TableInv, Apart
    <2>4. CASE RemakeCopy(t)
      <3>1. UNCHANGED <<textures, copies, locked, reg>>
        BY <2>0, <2>4, RemakesCopy
      <3> QED BY <1>0, <3>1 DEF TableInv, Apart
    <2> QED BY <1>6, <2>1, <2>2, <2>3, <2>4 DEF Bind
  <1>7. CASE Reset
    <2>1. reg' = <<>> /\ copies' \subseteq copies /\ UNCHANGED <<textures, locked>>
      BY <1>7 DEF Reset
    <2>2. Table(<<>>, textures, copies')
      BY DEF Table
    <2> QED BY <1>0, <2>1, <2>2 DEF TableInv, Apart
  <1>8. CASE UNCHANGED copyVars
    BY <1>0, <1>8 DEF copyVars, deviceVars, TableInv, Apart
  <1>9. CASE KeepTarget
    BY <1>0, <1>9 DEF KeepTarget, deviceVars, TableInv, Apart
  <1>10. CASE MakeTarget
    <2>1. PICK w \in Works : UNCHANGED deviceVars /\ Remade(reg', w)
      BY <1>10, MakesTarget
    <2> QED BY <1>0, <2>1 DEF Remade, deviceVars, TableInv, Apart
  <1>11. CASE Draw
    <2>1. PICK i \in DOMAIN reg, e \in Entries :
             /\ e.tex = reg[i].tex /\ e.up = reg[i].up /\ reg' = [reg EXCEPT ![i] = e]
             /\ UNCHANGED <<textures, copies, locked>>
      BY <1>11, Draws
    <2>2. Table(reg', textures, copies)
      BY <2>1, Reentered
    <2> QED BY <1>0, <2>1, <2>2 DEF TableInv, Apart
  <1> QED BY <1>1, <1>2, <1>3, <1>4, <1>5, <1>6, <1>7, <1>8, <1>9, <1>10, <1>11 DEF CopiesNext

\* Every copy that is not marked stays up to date through every step, a generation that
\* fails half way left out.
LEMMA FreshKept ==
    ASSUME FreshInv, Lapses = {}, [CopiesNext]_copyVars, "chain" \notin Failing
    PROVE  FreshInv'
  <1>0. TableInv /\ TableInv' /\ HeldInv /\ HeldInv'
    BY TableKept, HeldKept DEF FreshInv
  <1>1. /\ textures \subseteq Addresses /\ copies \subseteq Addresses /\ textures \cap copies = {}
        /\ locked \subseteq textures /\ DOMAIN content = Addresses
        /\ \A i \in DOMAIN reg : reg[i].up # None => reg[i].up \in copies /\ reg[i].tex \in textures
        /\ \A i, j \in DOMAIN reg : reg[i].up = reg[j].up /\ reg[i].up # None => i = j
        /\ \A i \in DOMAIN reg :
              /\ reg[i].up # None /\ ~reg[i].dirty
              /\ making = None \/ i # making.at
              => content[reg[i].up] = content[reg[i].tex]
        /\ \A i \in DOMAIN reg : reg[i].tex \in locked => reg[i].dirty
    BY <1>0 DEF FreshInv, TableInv, Table, Apart, UpToDate
  <1>2. ASSUME NEW t \in Addresses, NEW size \in Costs, NEW el \in BOOLEAN, NEW p \in Pictures,
               Create(t, size, el, p)
        PROVE  UpToDate(reg, locked, content, making)' /\ FreshBind'
    <2>1. /\ t \in Unused /\ UNCHANGED locked /\ given' = None /\ making = None
          /\ making' = None /\ content' = [content EXCEPT ![t] = p]
          /\ reg' = Register(Forgotten(t), t, size, el)
      BY <1>2 DEF Create
    <2>2. /\ Forgotten(t) = reg /\ t \notin textures /\ t \notin copies
          /\ \A i \in DOMAIN reg : reg[i].tex # t /\ reg[i].up # t
      BY <1>0, <2>1, UnusedUnknown
    <2>3. PICK q : q = reg'
      OBVIOUS
    <2>4. \A j \in DOMAIN q : \/ j \in DOMAIN reg /\ q[j] = reg[j]
                              \/ q[j].tex = t /\ q[j].up = None
      <3>1. reg \in Seq(Entries) /\ size \in Nat
        BY <1>0, CopyConstants DEF TableInv, Table
      <3>2. q = Register(reg, t, size, el)
        BY <2>1, <2>2, <2>3
      <3>3. \A j \in DOMAIN q : \/ j \in DOMAIN reg /\ q[j] = reg[j]
                                \/ j = Len(reg) + 1 /\ q[j] = Entry(t, size, el)
        <4>1. Adds(reg, Register(reg, t, size, el), Entry(t, size, el))
          BY <3>1, Registers
        <4> QED BY <3>2, <4>1 DEF Adds
      <3> QED BY <3>3 DEF Entry
    <2>5. UpToDate(q, locked, content', None)
      BY <1>1, <2>1, <2>2, <2>4 DEF UpToDate
    <2> QED BY <2>1, <2>3, <2>5 DEF UpToDate, FreshBind
  <1>3. ASSUME NEW t \in Addresses, Free(t) PROVE UpToDate(reg, locked, content, making)' /\ FreshBind'
    <2>1. /\ t \in textures /\ ~Overwrites(t) /\ UNCHANGED <<locked, content>> /\ given' = None
          /\ making = None /\ making' = None /\ reg' = Forgotten(t)
      BY <1>3 DEF Free
    <2>2. \A j \in DOMAIN Forgotten(t) : \E i \in DOMAIN reg : Forgotten(t)[j] = reg[i]
      BY <1>0, <2>1, FreesEntry
    <2>3. PICK q : q = Forgotten(t)
      OBVIOUS
    <2>4. UpToDate(q, locked, content, None)
      BY <1>1, <2>1, <2>2, <2>3 DEF UpToDate
    <2> QED BY <2>1, <2>3, <2>4 DEF UpToDate, FreshBind
  <1>4. ASSUME NEW t \in Addresses, Lock(t) PROVE UpToDate(reg, locked, content, making)' /\ FreshBind'
    <2>1. /\ t \in textures /\ locked' = locked \cup {t} /\ UNCHANGED content /\ given' = None
          /\ making = None /\ making' = None /\ reg' = Marked(reg, t)
      BY <1>4 DEF Lock, LockMark
    <2>2. PICK q : q = Marked(reg, t)
      OBVIOUS
    <2>3. /\ DOMAIN q = DOMAIN reg
          /\ \A i \in DOMAIN reg : q[i].tex = reg[i].tex /\ q[i].up = reg[i].up
                                   /\ q[i].dirty = (reg[i].dirty \/ reg[i].tex = t)
      BY <1>0, <2>1, <2>2, Marks
    <2>4. UpToDate(q, locked \cup {t}, content, None)
      BY <1>1, <2>1, <2>3 DEF UpToDate
    <2> QED BY <2>1, <2>2, <2>4 DEF UpToDate, FreshBind
  <1>5. ASSUME NEW t \in Addresses, NEW p \in Pictures, Unlock(t, p)
        PROVE  UpToDate(reg, locked, content, making)' /\ FreshBind'
    <2>1. /\ t \in locked /\ locked' = locked \ {t} /\ content' = [content EXCEPT ![t] = p]
          /\ given' = None /\ making = None /\ making' = None
          /\ UNCHANGED reg
      BY <1>5 DEF Unlock
    <2>2. UpToDate(reg, locked \ {t}, [content EXCEPT ![t] = p], None)
      BY <1>1, <2>1 DEF UpToDate
    <2> QED BY <2>1, <2>2 DEF UpToDate, FreshBind
  <1>6. ASSUME NEW t \in Addresses, NEW p \in Pictures, LoadSurface(t, p)
        PROVE  UpToDate(reg, locked, content, making)' /\ FreshBind'
    <2>1. /\ t \in textures /\ UNCHANGED locked /\ content' = [content EXCEPT ![t] = p]
          /\ given' = None /\ making = None /\ making' = None
          /\ reg' = Marked(reg, t)
      BY <1>6 DEF LoadSurface
    <2>2. PICK q : q = Marked(reg, t)
      OBVIOUS
    <2>3. /\ DOMAIN q = DOMAIN reg
          /\ \A i \in DOMAIN reg : q[i].tex = reg[i].tex /\ q[i].up = reg[i].up
                                   /\ q[i].dirty = (reg[i].dirty \/ reg[i].tex = t)
      BY <1>0, <2>1, <2>2, Marks
    <2>4. PICK c : c = [content EXCEPT ![t] = p]
      OBVIOUS
    <2>5. DOMAIN c = Addresses /\ \A x \in Addresses \ {t} : c[x] = content[x]
      BY <1>1, <2>4
    <2>6. ASSUME NEW j \in DOMAIN q
          PROVE  /\ q[j].up # None /\ ~q[j].dirty => c[q[j].up] = c[q[j].tex]
                 /\ q[j].tex \in locked => q[j].dirty
      <3>1. q[j].tex = reg[j].tex /\ q[j].up = reg[j].up /\ (~q[j].dirty => ~reg[j].dirty /\ reg[j].tex # t)
        BY <2>3
      <3> QED BY <1>1, <2>1, <2>3, <2>5, <3>1
    <2>7. UpToDate(q, locked, c, None)
      BY <2>5, <2>6 DEF UpToDate
    <2> QED BY <2>1, <2>2, <2>4, <2>7 DEF UpToDate, FreshBind
  <1>7. ASSUME NEW t \in Addresses, Bind(t) PROVE UpToDate(reg, locked, content, making)' /\ FreshBind'
    <2>0. t \in textures /\ t \notin locked /\ making = None
      BY <1>7 DEF Bind
    <2>1. CASE BindAsItIs(t)
      BY <2>0, <2>1, <1>1 DEF BindAsItIs, Give, deviceVars, UpToDate, FreshBind
    <2>2. CASE BindCopy(t)
      <3>1. /\ Find(reg, t) \in DOMAIN reg /\ reg[Find(reg, t)].tex = t
            /\ reg[Find(reg, t)].up # None /\ ~reg[Find(reg, t)].dirty
            /\ given' = <<t, reg[Find(reg, t)].up>> /\ UNCHANGED <<reg, content, locked, copies>>
            /\ making' = None
        BY <1>0, <2>0, <2>2, Eligible DEF BindCopy, NeedsCopy, Give, deviceVars
      <3> QED BY <1>1, <2>0, <3>1 DEF UpToDate, FreshBind
    <2>3. CASE GiveUp(t)
      <3>1. PICK i \in DOMAIN reg, e \in Entries :
               /\ e.tex = reg[i].tex /\ e.up = reg[i].up /\ e.dirty = reg[i].dirty
               /\ reg' = [reg EXCEPT ![i] = e]
        BY <1>0, <2>0, <2>3, GivesUp
      <3>2. PICK q : q = [reg EXCEPT ![i] = e]
        OBVIOUS
      <3>3. DOMAIN q = DOMAIN reg /\ \A j \in DOMAIN reg : q[j] = IF j = i THEN e ELSE reg[j]
        BY <3>2
      <3>4. UpToDate(q, locked, content, None)
        BY <1>1, <2>0, <3>1, <3>3 DEF UpToDate
      <3>5. UNCHANGED <<content, locked>> /\ given' = <<t, t>> /\ making' = None
        BY <2>3 DEF GiveUp, Give, deviceVars
      <3> QED BY <3>1, <3>2, <3>4, <3>5 DEF UpToDate, FreshBind
    <2>4. CASE MakeCopy(t)
      <3>1. PICK u \in Unused, i \in DOMAIN reg, e \in Entries :
              /\ reg[i].tex = t /\ reg[i].up = None
              /\ e.tex = t /\ e.up = u /\ e.size = reg[i].size /\ e.dirty = reg[i].dirty
              /\ reg' = [Register(reg, u, 0, FALSE) EXCEPT ![i] = e]
              /\ copies' = copies \cup {u} /\ charged' = charged + reg[i].size
              /\ UNCHANGED <<textures, locked>>
              /\ content' = [content EXCEPT ![u] = None] /\ given' = None
              /\ making' = [tex |-> t, at |-> i, up |-> u, turn |-> 1]
        BY <1>0, <2>0, <2>4, MakesCopy
      <3>2. /\ \A j \in DOMAIN reg : j \in DOMAIN reg' /\ reg'[j] = IF j = i THEN e ELSE reg[j]
            /\ \A j \in DOMAIN reg' \ DOMAIN reg : reg'[j].tex = u /\ reg'[j].up = None
        <4>1. reg[i].tex \in textures /\ e.tex = reg[i].tex
          BY <2>0, <3>1
        <4>2. reg' = [Register(reg, u, 0, FALSE) EXCEPT ![i] = e] /\ e.up = u /\ reg[i].up = None
          BY <3>1
        <4>3. Entered(reg, reg', i, e, u)
          BY <1>0, <4>1, <4>2, CopyEntered
        <4> QED BY <4>3 DEF Entered
      <3>3. PICK q : q = reg'
        OBVIOUS
      <3>4. /\ u \in Addresses /\ u \notin textures /\ u \notin copies
            /\ \A j \in DOMAIN reg : reg[j].tex # u /\ reg[j].up # u
        BY <1>0, UnusedUnknown
      <3>5. PICK m : m = making' /\ m # None /\ m.at = i
        <4>1. i \in Nat
          BY <1>0 DEF TableInv, Table
        <4>2. making' \in [tex : Addresses, at : Nat, up : Addresses, turn : Nat]
          BY <1>1, <2>0, <3>1, <3>4, <4>1
        <4> QED BY <3>1, <4>2, CopyConstants
      <3>6. PICK c : c = [content EXCEPT ![u] = None]
        OBVIOUS
      <3>7. DOMAIN c = Addresses /\ \A x \in Addresses \ {u} : c[x] = content[x]
        BY <1>1, <3>4, <3>6
      <3>8. ASSUME NEW j \in DOMAIN q
            PROVE  /\ q[j].up # None /\ ~q[j].dirty => c[q[j].up] = c[q[j].tex] \/ (m # None /\ j = m.at)
                   /\ q[j].tex \in locked => q[j].dirty
        <4>1. CASE j = i
          BY <4>1, <1>1, <2>0, <3>1, <3>2, <3>3, <3>5
        <4>2. CASE j \in DOMAIN reg /\ j # i
          BY <4>2, <1>1, <2>0, <3>2, <3>3, <3>4, <3>7
        <4>3. CASE j \notin DOMAIN reg
          BY <4>3, <1>1, <3>2, <3>3, <3>4
        <4> QED BY <4>1, <4>2, <4>3
      <3>9. UpToDate(q, locked, c, m)
        BY <3>7, <3>8 DEF UpToDate
      <3>10. reg' = q /\ locked' = locked /\ content' = c /\ making' = m
        BY <3>1, <3>3, <3>5, <3>6
      <3>11. UpToDate(reg', locked', content', making')
        BY <3>9, <3>10
      <3>12. FreshBind'
        BY <3>1 DEF FreshBind
      <3> QED BY <3>11, <3>12 DEF UpToDate
    <2>5. CASE RemakeCopy(t)
      <3>1. PICK i \in DOMAIN reg :
              /\ reg[i].tex = t /\ reg[i].up # None /\ reg[i].dirty
              /\ UNCHANGED <<textures, copies, locked, content, reg, charged>> /\ given' = None
              /\ making' = [tex |-> t, at |-> i, up |-> reg[i].up, turn |-> 1]
        BY <1>0, <2>0, <2>5, RemakesCopy
      <3> QED BY <1>1, <2>0, <3>1 DEF UpToDate, FreshBind
    <2> QED BY <1>7, <2>1, <2>2, <2>3, <2>4, <2>5 DEF Bind
  <1>8. ASSUME Reset PROVE UpToDate(reg, locked, content, making)' /\ FreshBind'
    <2>1. reg' = <<>> /\ UNCHANGED <<content, locked>> /\ given' = None /\ making = None /\ making' = None
      BY <1>8 DEF Reset
    <2>2. UpToDate(<<>>, locked, content, None)
      BY <1>1 DEF UpToDate
    <2> QED BY <2>1, <2>2 DEF UpToDate, FreshBind
  <1>9. ASSUME UNCHANGED copyVars PROVE UpToDate(reg, locked, content, making)' /\ FreshBind'
    BY <1>9 DEF copyVars, deviceVars, FreshInv, UpToDate, FreshBind
  <1>11. ASSUME KeepTarget PROVE UpToDate(reg, locked, content, making)' /\ FreshBind'
    <2>1. /\ making # None /\ making' = [making EXCEPT !.turn = @ + 1]
          /\ UNCHANGED <<reg, locked, content, given, copies>>
      BY <1>11 DEF KeepTarget, AtTarget, deviceVars
    <2>2. making' # None /\ making'.at = making.at
      <3>1. making \in Bindings
        BY <1>0, <2>1 DEF HeldInv, Holds
      <3>2. making' \in Bindings /\ making'.at = making.at
        BY <2>1, <3>1 DEF Bindings
      <3> QED BY <3>2, CopyConstants DEF Bindings
    <2>3. PICK m : m = making'
      OBVIOUS
    <2>4. UpToDate(reg, locked, content, m)
      BY <1>1, <2>1, <2>2, <2>3 DEF UpToDate
    <2> QED BY <2>1, <2>3, <2>4 DEF UpToDate, FreshInv, FreshBind
  <1>12. ASSUME MakeTarget PROVE UpToDate(reg, locked, content, making)' /\ FreshBind'
    <2>1. PICK w \in Works :
             /\ UNCHANGED deviceVars /\ making # None /\ given' = None
             /\ making' = [making EXCEPT !.turn = @ + 1]
             /\ reg'[making.at] = reg[making.at] /\ making.at \in DOMAIN reg'
             /\ Remade(reg', w)
      BY <1>0, <1>12, MakesTarget
    <2>2. making' # None /\ making'.at = making.at
      <3>1. making \in Bindings
        BY <1>0, <2>1 DEF HeldInv, Holds
      <3>2. making' \in Bindings /\ making'.at = making.at
        BY <2>1, <3>1 DEF Bindings
      <3> QED BY <3>2, CopyConstants DEF Bindings
    <2>3. PICK q, m : q = reg' /\ m = making'
      OBVIOUS
    <2>4. /\ \A j \in DOMAIN q : (\E i \in DOMAIN reg : q[j] = reg[i]) \/ (q[j].tex = w /\ q[j].up = None)
          /\ \A i, j \in DOMAIN q : q[i].tex = q[j].tex => i = j
          /\ q[making.at] = reg[making.at] /\ making.at \in DOMAIN q
      BY <2>1, <2>3 DEF Remade, Table
    <2>5. w \notin locked
      BY <1>1, WorksApart
    <2>6. ASSUME NEW j \in DOMAIN q
          PROVE  /\ q[j].up # None /\ ~q[j].dirty =>
                       content[q[j].up] = content[q[j].tex] \/ (m # None /\ j = m.at)
                 /\ q[j].tex \in locked => q[j].dirty
      <3>1. CASE q[j].tex = w /\ q[j].up = None
        BY <2>5, <3>1
      <3>2. CASE \E i \in DOMAIN reg : q[j] = reg[i]
        <4>1. PICK i \in DOMAIN reg : q[j] = reg[i]
          BY <3>2
        <4>2. CASE i = making.at
          <5>1. j = making.at
            BY <2>4, <4>1, <4>2
          <5> QED BY <1>1, <2>2, <2>3, <4>1, <5>1
        <4>3. CASE i # making.at
          BY <1>1, <4>1, <4>3
        <4> QED BY <4>2, <4>3
      <3> QED BY <2>4, <3>1, <3>2
    <2>7. UpToDate(q, locked, content, m)
      BY <1>1, <2>6 DEF UpToDate
    <2>8. UNCHANGED <<locked, content>>
      BY <2>1 DEF deviceVars
    <2> QED BY <2>1, <2>3, <2>7, <2>8 DEF UpToDate, FreshBind
  <1>13. ASSUME Draw PROVE UpToDate(reg, locked, content, making)' /\ FreshBind'
    <2>1. PICK i \in DOMAIN reg, e \in Entries :
              /\ making # None /\ i = making.at
              /\ e.tex = reg[i].tex /\ e.up = reg[i].up
              /\ UNCHANGED <<textures, copies, locked, charged>>
              /\ reg' = [reg EXCEPT ![i] = e]
              /\ reg[i].tex \in textures /\ reg[i].up # None
              /\ content' = [content EXCEPT ![reg[i].up] = content[reg[i].tex]]
              /\ given' = <<reg[i].tex, reg[i].up>> /\ making' = None
      BY <1>0, <1>13, Draws
    <2>2. PICK q : q = [reg EXCEPT ![i] = e]
      OBVIOUS
    <2>3. DOMAIN q = DOMAIN reg /\ \A j \in DOMAIN reg : q[j] = IF j = i THEN e ELSE reg[j]
      BY <2>2
    <2>4. PICK u, t : u = reg[i].up /\ t = reg[i].tex /\ t \in textures
                      /\ u \in copies /\ u \in Addresses /\ u \notin textures
      BY <1>1, <2>1
    <2>5. t \notin locked
      BY <1>0, <2>1, <2>4 DEF HeldInv, Holds
    <2>6. PICK c : c = [content EXCEPT ![u] = content[t]]
      OBVIOUS
    <2>7. DOMAIN c = Addresses /\ c[u] = content[t] /\ \A x \in Addresses \ {u} : c[x] = content[x]
      BY <1>1, <2>4, <2>6
    <2>8. ASSUME NEW j \in DOMAIN q
          PROVE  /\ q[j].up # None /\ ~q[j].dirty => c[q[j].up] = c[q[j].tex]
                 /\ q[j].tex \in locked => q[j].dirty
      <3>1. CASE j = i
        BY <3>1, <1>1, <2>1, <2>3, <2>4, <2>5, <2>7
      <3>2. CASE j # i
        BY <3>2, <1>1, <2>1, <2>3, <2>4, <2>7
      <3> QED BY <3>1, <3>2
    <2>9. UpToDate(q, locked, c, None)
      BY <2>7, <2>8 DEF UpToDate
    <2>10. c[u] = c[t] /\ t \in Addresses
      BY <1>1, <2>4, <2>7
    <2>11. reg' = q /\ locked' = locked /\ content' = c /\ given' = <<t, u>> /\ copies' = copies
           /\ making' = None
      BY <2>1, <2>2, <2>4, <2>6
    <2>12. UpToDate(reg', locked', content', making')
      BY <2>9, <2>11
    <2>13. FreshBind'
      BY <2>4, <2>10, <2>11 DEF FreshBind
    <2> QED BY <2>12, <2>13 DEF UpToDate
  <1>10. UpToDate(reg, locked, content, making)' /\ FreshBind'
    BY <1>2, <1>3, <1>4, <1>5, <1>6, <1>7, <1>8, <1>9, <1>11, <1>12, <1>13 DEF CopiesNext
  <1> QED BY <1>0, <1>10 DEF FreshInv

LEMMA CopiesStart == CopiesInit => FreshInv
  <1> SUFFICES ASSUME CopiesInit PROVE FreshInv
    OBVIOUS
  <1>1. TableInv /\ HeldInv
    BY DEF CopiesInit, TableInv, Table, Apart, HeldInv, Holds
  <1>2. UpToDate(reg, locked, content, making) /\ FreshBind
    BY DEF CopiesInit, UpToDate, FreshBind
  <1> QED BY <1>1, <1>2 DEF FreshInv

\* What a bind hands over is the texture itself or a copy of it as it is now, whatever
\* working textures are made anew meanwhile, as long as no call loses the entry that it
\* holds (texscale.c:202-206, 226-234; findings 9, 22) and every working texture is made.
THEOREM BindsFresh ==
    CopiesSpec /\ (Lapses = {}) /\ ("chain" \notin Failing) => []FreshBind
  <1>1. ASSUME Lapses = {}, "chain" \notin Failing PROVE CopiesSpec => []FreshBind
    <2>1. FreshInv /\ [CopiesNext]_copyVars => FreshInv'
      BY <1>1, FreshKept
    <2>2. FreshInv => FreshBind
      BY DEF FreshInv
    <2> QED BY CopiesStart, <2>1, <2>2, PTL DEF CopiesSpec
  <1> QED BY <1>1
-------------------------------------------------------------------------------
(* The budget. *)

\* The charges of the entries, added up one after the other.
AddsUp(r, c) ==
    /\ c \in [0..Len(r) -> Nat] /\ c[0] = 0
    /\ \A i \in 1..Len(r) : c[i] = c[i - 1] + ChargeOf(r[i])

LEMMA ChargeIs ==
    ASSUME NEW r \in Seq(Entries)
    PROVE  /\ \A i \in 1..Len(r) : ChargeOf(r[i]) \in Nat
           /\ \E c : AddsUp(r, c) /\ Charge(r) = c[Len(r)]
  <1> DEFINE m == Len(r)
             Eq(g) == g = [i \in 0..m |-> IF i = 0 THEN 0 ELSE g[i - 1] + ChargeOf(r[i])]
             step == [i \in 1..m |-> [a \in Nat |-> a + ChargeOf(r[i])]]
  <1>1. m \in Nat
    OBVIOUS
  <1>2. \A i \in 1..m : ChargeOf(r[i]) \in Nat
    <2> SUFFICES ASSUME NEW i \in 1..m PROVE ChargeOf(r[i]) \in Nat
      OBVIOUS
    <2>1. r[i] \in Entries
      OBVIOUS
    <2> QED BY <2>1 DEF ChargeOf, Entries
  <1>3. step \in [1..m -> [Nat -> Nat]]
    BY <1>2
  <1>4. \E g : Iterates(g, m, Nat, 0, step)
    <2>1. PICK s : s = step
      OBVIOUS
    <2>2. s \in [1..m -> [Nat -> Nat]] /\ 0 \in Nat
      BY <1>3, <2>1
    <2>3. \E g : Iterates(g, m, Nat, 0, s)
      <3> HIDE DEF step, m
      <3> QED BY <1>1, <2>2, Recursion
    <2> QED BY <2>1, <2>3
  <1>5. \E g : Eq(g)
    <2>1. PICK g \in [0..m -> Nat] : g[0] = 0 /\ \A i \in 1..m : g[i] = step[i][g[i - 1]]
      BY <1>4 DEF Iterates
    <2>2. ASSUME NEW i \in 1..m PROVE g[i] = g[i - 1] + ChargeOf(r[i])
      <3>1. i - 1 \in 0..m /\ g[i - 1] \in Nat
        BY <1>1, <2>1
      <3>2. step[i] = [a \in Nat |-> a + ChargeOf(r[i])]
        OBVIOUS
      <3>3. g[i] = step[i][g[i - 1]]
        BY <2>1
      <3> HIDE DEF step
      <3> QED BY <3>1, <3>2, <3>3
    <2>3. Eq(g)
      BY <1>1, <2>1, <2>2
    <2> QED BY <2>3
  <1>6. PICK c : c = CHOOSE g : Eq(g)
    OBVIOUS
  <1>7. Eq(c)
    BY <1>5, <1>6
  <1>8. Charge(r) = c[m]
    BY <1>6 DEF Charge
  <1>9. \A i \in 0..m : c[i] \in Nat
    <2> DEFINE T == {i \in 0..m : c[i] \in Nat}
    <2>1. 0 \in T
      BY <1>1, <1>7
    <2>2. \A i \in 0..m - 1 : i \in T => i + 1 \in T
      <3> SUFFICES ASSUME NEW i \in 0..m - 1, i \in T PROVE i + 1 \in T
        OBVIOUS
      <3>1. i + 1 \in 1..m /\ c[i + 1] = c[i] + ChargeOf(r[i + 1])
        BY <1>1, <1>7
      <3> QED BY <1>2, <3>1
    <2>3. \A i \in 0..m : i \in T
      <3> HIDE DEF T
      <3> QED BY <1>1, <2>1, <2>2, UpTo
    <2> QED BY <2>3
  <1>10. AddsUp(r, c)
    <2>1. c \in [0..m -> Nat]
      BY <1>7, <1>9
    <2>2. c[0] = 0 /\ \A i \in 1..m : c[i] = c[i - 1] + ChargeOf(r[i])
      BY <1>1, <1>7
    <2> QED BY <2>1, <2>2 DEF AddsUp
  <1> QED BY <1>2, <1>8, <1>10

\* Two tables that agree up to n, but for the charge of one entry.
LEMMA Differ ==
    ASSUME NEW r, NEW q, NEW c, NEW d, AddsUp(r, c), AddsUp(q, d),
           Len(r) \in Nat, Len(q) \in Nat, NEW n \in Nat, n <= Len(r), n <= Len(q), NEW a \in 1..n,
           \A i \in 1..n : ChargeOf(r[i]) \in Nat /\ ChargeOf(q[i]) \in Nat,
           \A i \in 1..n : i # a => ChargeOf(r[i]) = ChargeOf(q[i])
    PROVE  d[n] = c[n] - ChargeOf(r[a]) + ChargeOf(q[a])
  <1> DEFINE x == ChargeOf(r[a])
             y == ChargeOf(q[a])
             T == {k \in 0..n : (k < a => d[k] = c[k]) /\ (k >= a => d[k] = c[k] - x + y)}
  <1>1. /\ \A k \in 0..n : c[k] \in Nat /\ d[k] \in Nat
        /\ c[0] = 0 /\ d[0] = 0
        /\ \A i \in 1..n : c[i] = c[i - 1] + ChargeOf(r[i]) /\ d[i] = d[i - 1] + ChargeOf(q[i])
    <2>1. /\ \A k \in 0..n : c[k] \in Nat
          /\ c[0] = 0 /\ \A i \in 1..n : c[i] = c[i - 1] + ChargeOf(r[i])
      <3>1. c \in [0..Len(r) -> Nat] /\ c[0] = 0 /\ \A i \in 1..Len(r) : c[i] = c[i - 1] + ChargeOf(r[i])
        BY DEF AddsUp
      <3>2. 0..n \subseteq 0..Len(r) /\ 1..n \subseteq 1..Len(r)
        OBVIOUS
      <3> QED BY <3>1, <3>2
    <2>2. /\ \A k \in 0..n : d[k] \in Nat
          /\ d[0] = 0 /\ \A i \in 1..n : d[i] = d[i - 1] + ChargeOf(q[i])
      <3>1. d \in [0..Len(q) -> Nat] /\ d[0] = 0 /\ \A i \in 1..Len(q) : d[i] = d[i - 1] + ChargeOf(q[i])
        BY DEF AddsUp
      <3>2. 0..n \subseteq 0..Len(q) /\ 1..n \subseteq 1..Len(q)
        OBVIOUS
      <3> QED BY <3>1, <3>2
    <2> QED BY <2>1, <2>2
  <1>2. 0 \in T
    BY <1>1
  <1>3. \A i \in 0..n - 1 : i \in T => i + 1 \in T
    <2> SUFFICES ASSUME NEW i \in 0..n - 1, i \in T PROVE i + 1 \in T
      OBVIOUS
    <2>1. i + 1 \in 1..n /\ i + 1 - 1 = i /\ i \in 0..n /\ i + 1 \in 0..n
      OBVIOUS
    <2>2. /\ c[i + 1] = c[i] + ChargeOf(r[i + 1]) /\ d[i + 1] = d[i] + ChargeOf(q[i + 1])
          /\ c[i] \in Nat /\ d[i] \in Nat /\ c[i + 1] \in Nat /\ d[i + 1] \in Nat
      <3> HIDE DEF T
      <3> QED BY ONLY <1>1, <2>1
    <2>3. ChargeOf(r[i + 1]) \in Nat /\ ChargeOf(q[i + 1]) \in Nat /\ x \in Nat /\ y \in Nat
      BY <2>1
    <2>4. (i < a => d[i] = c[i]) /\ (i >= a => d[i] = c[i] - x + y)
      OBVIOUS
    <2>5. i + 1 # a => ChargeOf(r[i + 1]) = ChargeOf(q[i + 1])
      BY <2>1
    <2>6. i + 1 = a => ChargeOf(r[i + 1]) = x /\ ChargeOf(q[i + 1]) = y
      OBVIOUS
    <2>7. (i + 1 < a => d[i + 1] = c[i + 1]) /\ (i + 1 >= a => d[i + 1] = c[i + 1] - x + y)
      <3> HIDE DEF T, x, y
      <3>1. CASE i + 1 < a
        BY <3>1, <2>2, <2>3, <2>4, <2>5
      <3>2. CASE i + 1 = a
        <4>1. d[i] = c[i]
          BY <3>2, <2>4
        <4>2. PICK v \in Nat, w \in Nat, c0 \in Nat : v = x /\ w = y /\ c0 = c[i]
          BY <2>2, <2>3
        <4>3. c[i + 1] = c0 + v /\ d[i + 1] = c0 + w
          BY <3>2, <2>2, <2>6, <4>1, <4>2
        <4>4. c0 + w = (c0 + v) - v + w
          OBVIOUS
        <4>5. d[i + 1] = c[i + 1] - x + y
          BY <4>2, <4>3, <4>4
        <4> QED BY <3>2, <4>5
      <3>3. CASE i + 1 > a
        <4>1. d[i] = c[i] - x + y
          BY <3>3, <2>4
        <4>2. PICK v \in Nat, w \in Nat, c0 \in Nat, p \in Nat :
                 v = x /\ w = y /\ c0 = c[i] /\ p = ChargeOf(r[i + 1])
          BY <2>2, <2>3
        <4>3. c[i + 1] = c0 + p /\ d[i + 1] = (c0 - v + w) + p
          BY <3>3, <2>2, <2>5, <4>1, <4>2
        <4>4. (c0 - v + w) + p = (c0 + p) - v + w
          OBVIOUS
        <4>5. d[i + 1] = c[i + 1] - x + y
          BY <4>2, <4>3, <4>4
        <4> QED BY <3>3, <4>5
      <3> QED BY <3>1, <3>2, <3>3
    <2> QED BY <2>1, <2>7
  <1>4. \A i \in 0..n : i \in T
    <2> HIDE DEF T
    <2> QED BY <1>2, <1>3, UpTo
  <1>5. n \in 0..n /\ n >= a
    OBVIOUS
  <1> QED BY <1>4, <1>5

LEMMA Agree ==
    ASSUME NEW r, NEW q, NEW c, NEW d, AddsUp(r, c), AddsUp(q, d),
           Len(r) \in Nat, Len(q) \in Nat, NEW n \in Nat, n <= Len(r), n <= Len(q),
           \A i \in 1..n : ChargeOf(r[i]) \in Nat /\ ChargeOf(r[i]) = ChargeOf(q[i])
    PROVE  d[n] = c[n]
  <1>1. CASE n = 0
    BY <1>1 DEF AddsUp
  <1>2. CASE n # 0
    <2>1. n \in 1..n
      BY <1>2
    <2>2. d[n] = c[n] - ChargeOf(r[n]) + ChargeOf(q[n])
      BY <2>1, Differ
    <2>3. c[n] \in Nat /\ ChargeOf(r[n]) \in Nat /\ ChargeOf(r[n]) = ChargeOf(q[n])
      BY <2>1 DEF AddsUp
    <2> QED BY <2>2, <2>3
  <1> QED BY <1>1, <1>2

LEMMA ChargeSame ==
    ASSUME NEW r \in Seq(Entries), NEW q \in Seq(Entries), Len(q) = Len(r),
           \A i \in 1..Len(r) : ChargeOf(q[i]) = ChargeOf(r[i])
    PROVE  Charge(q) = Charge(r)
  <1>1. PICK c : AddsUp(r, c) /\ Charge(r) = c[Len(r)]
    BY ChargeIs
  <1>2. PICK d : AddsUp(q, d) /\ Charge(q) = d[Len(q)]
    BY ChargeIs
  <1>3. PICK n \in Nat : n = Len(r)
    OBVIOUS
  <1>4. \A i \in 1..n : ChargeOf(r[i]) \in Nat /\ ChargeOf(r[i]) = ChargeOf(q[i])
    BY <1>3, ChargeIs
  <1>5. d[n] = c[n]
    BY <1>1, <1>2, <1>3, <1>4, Agree
  <1> QED BY <1>1, <1>2, <1>3, <1>5

LEMMA ChargeAppend ==
    ASSUME NEW r \in Seq(Entries), NEW e \in Entries
    PROVE  Charge(Append(r, e)) = Charge(r) + ChargeOf(e)
  <1>0. PICK q \in Seq(Entries) : q = Append(r, e)
    <2>1. Append(r, e) \in Seq(Entries)
      OBVIOUS
    <2> QED BY <2>1
  <1>1. PICK c : AddsUp(r, c) /\ Charge(r) = c[Len(r)]
    BY ChargeIs
  <1>2. PICK d : AddsUp(q, d) /\ Charge(q) = d[Len(q)]
    BY ChargeIs
  <1>3. PICK n \in Nat : n = Len(r)
    OBVIOUS
  <1>4. Len(q) = n + 1 /\ q[n + 1] = e /\ \A i \in 1..n : q[i] = r[i]
    BY <1>0, <1>3
  <1>5. \A i \in 1..n : ChargeOf(r[i]) \in Nat /\ ChargeOf(r[i]) = ChargeOf(q[i])
    BY <1>3, <1>4, ChargeIs
  <1>6. d[n] = c[n]
    BY <1>1, <1>2, <1>3, <1>4, <1>5, Agree
  <1>7. d[n + 1] = d[n] + ChargeOf(e)
    <2>1. n + 1 \in 1..Len(q) /\ n + 1 - 1 = n
      BY <1>4
    <2> QED BY <1>2, <1>4, <2>1 DEF AddsUp
  <1> QED BY <1>0, <1>1, <1>2, <1>3, <1>4, <1>6, <1>7

LEMMA ChargeReplace ==
    ASSUME NEW r \in Seq(Entries), NEW i \in 1..Len(r), NEW e \in Entries
    PROVE  Charge([r EXCEPT ![i] = e]) = Charge(r) - ChargeOf(r[i]) + ChargeOf(e)
  <1>0. PICK q \in Seq(Entries) : q = [r EXCEPT ![i] = e] /\ Len(q) = Len(r)
    <2>1. [r EXCEPT ![i] = e] \in Seq(Entries) /\ Len([r EXCEPT ![i] = e]) = Len(r)
      OBVIOUS
    <2> QED BY <2>1
  <1>1. PICK c : AddsUp(r, c) /\ Charge(r) = c[Len(r)]
    BY ChargeIs
  <1>2. PICK d : AddsUp(q, d) /\ Charge(q) = d[Len(q)]
    BY ChargeIs
  <1>3. PICK n \in Nat : n = Len(r) /\ i \in 1..n
    OBVIOUS
  <1>4. Len(q) = n /\ q[i] = e /\ \A j \in 1..n : j # i => q[j] = r[j]
    BY <1>0, <1>3
  <1>5. /\ \A j \in 1..n : ChargeOf(r[j]) \in Nat /\ ChargeOf(q[j]) \in Nat
        /\ \A j \in 1..n : j # i => ChargeOf(r[j]) = ChargeOf(q[j])
    <2>1. \A j \in 1..Len(r) : ChargeOf(r[j]) \in Nat
      BY ChargeIs
    <2>2. \A j \in 1..Len(q) : ChargeOf(q[j]) \in Nat
      BY ChargeIs
    <2> QED BY <1>3, <1>4, <2>1, <2>2
  <1>7. Len(r) \in Nat /\ Len(q) \in Nat /\ n <= Len(r) /\ n <= Len(q)
    BY <1>3, <1>4
  <1>6. d[n] = c[n] - ChargeOf(r[i]) + ChargeOf(q[i])
    <2>1. i \in 1..n
      BY <1>3
    <2> QED BY <1>1, <1>2, <1>5, <1>7, <2>1, Differ
  <1> QED BY <1>0, <1>1, <1>2, <1>3, <1>4, <1>6

LEMMA ChargeWithout ==
    ASSUME NEW r \in Seq(Entries), NEW i \in 1..Len(r)
    PROVE  /\ Charge(Without(r, i)) = Charge(r) - ChargeOf(r[i])
           /\ Charge(Without(r, i)) \in Nat /\ ChargeOf(r[i]) \in Nat
  <1>0. PICK q \in Seq(Entries) : q = Without(r, i) /\ Len(q) = Len(r) - 1
    BY WithoutKeeps
  <1>1. PICK c : AddsUp(r, c) /\ Charge(r) = c[Len(r)]
    BY ChargeIs
  <1>2. PICK d : AddsUp(q, d) /\ Charge(q) = d[Len(q)]
    BY ChargeIs
  <1>3. PICK n \in Nat : n = Len(r) - 1 /\ n + 1 = Len(r) /\ i \in 1..n + 1 /\ n = Len(q)
    BY <1>0
  <1>4. \A j \in 1..n : q[j] = IF j = i THEN r[n + 1] ELSE r[j]
    BY <1>0, <1>3 DEF Without
  <1>5. /\ \A j \in 1..n + 1 : ChargeOf(r[j]) \in Nat
        /\ \A j \in 1..n : ChargeOf(q[j]) \in Nat
    <2>1. \A j \in 1..Len(r) : ChargeOf(r[j]) \in Nat
      BY ChargeIs
    <2>2. \A j \in 1..Len(q) : ChargeOf(q[j]) \in Nat
      BY ChargeIs
    <2> QED BY <1>3, <2>1, <2>2
  <1>6. c[n + 1] = c[n] + ChargeOf(r[n + 1]) /\ c[n] \in Nat /\ d[n] \in Nat
    <2>1. n + 1 \in 1..Len(r) /\ n + 1 - 1 = n /\ n \in 0..Len(r) /\ n \in 0..Len(q)
      BY <1>3
    <2> QED BY <1>1, <1>2, <2>1, <1>3 DEF AddsUp
  <1>7. n + 1 \in 1..n + 1
    OBVIOUS
  <1>8. CASE i = n + 1
    <2>1. \A j \in 1..n : ChargeOf(r[j]) \in Nat /\ ChargeOf(r[j]) = ChargeOf(q[j])
      BY <1>4, <1>5, <1>8
    <2>4. n <= Len(r) /\ n <= Len(q) /\ Len(r) \in Nat /\ Len(q) \in Nat
      BY <1>3
    <2>2. d[n] = c[n]
      BY <1>1, <1>2, <2>4, <2>1, Agree
    <2>3. d[n] = c[n + 1] - ChargeOf(r[i])
      BY <1>5, <1>6, <1>7, <1>8, <2>2
    <2> QED BY <1>0, <1>1, <1>2, <1>3, <1>5, <1>6, <2>3
  <1>9. CASE i # n + 1
    <2>1. i \in 1..n /\ q[i] = r[n + 1] /\ \A j \in 1..n : j # i => q[j] = r[j]
      BY <1>3, <1>4, <1>9
    <2>2. /\ \A j \in 1..n : ChargeOf(r[j]) \in Nat /\ ChargeOf(q[j]) \in Nat
          /\ \A j \in 1..n : j # i => ChargeOf(r[j]) = ChargeOf(q[j])
      BY <1>5, <2>1
    <2>3. n <= Len(r) /\ n <= Len(q) /\ Len(r) \in Nat /\ Len(q) \in Nat
      BY <1>3
    <2>4. d[n] = c[n] - ChargeOf(r[i]) + ChargeOf(q[i])
      BY <1>1, <1>2, <2>1, <2>2, <2>3, Differ
    <2>5. d[n] = c[n + 1] - ChargeOf(r[i])
      <3>1. PICK x \in Nat, y \in Nat, z \in Nat :
               x = c[n] /\ y = ChargeOf(r[i]) /\ z = ChargeOf(r[n + 1]) /\ ChargeOf(q[i]) = z
        BY <1>5, <1>6, <1>7, <2>1
      <3>2. d[n] = x - y + z /\ c[n + 1] = x + z
        BY <1>6, <2>4, <3>1
      <3>3. x - y + z = (x + z) - y
        OBVIOUS
      <3> QED BY <3>1, <3>2, <3>3
    <2> QED BY <1>0, <1>1, <1>2, <1>3, <1>5, <1>6, <2>5
  <1> QED BY <1>8, <1>9

\* tex_forget takes off the entry's own charge; a copy's entry has none.
LEMMA ChargeForget ==
    ASSUME NEW r \in Seq(Entries), NEW n \in Nat, n = Len(r), NEW i \in 1..n,
           NEW k \in 0..n, k = CopyPlace(r, i), k # i, ~(i = n /\ k \in 1..n - 2),
           k # 0 => r[k].up = None
    PROVE  /\ Charge(Forget(r, i)) = Charge(r) - ChargeOf(r[i])
           /\ Charge(Forget(r, i)) \in Nat /\ ChargeOf(r[i]) \in Nat
  <1>1. /\ Forget(r, i) \in Seq(Entries)
        /\ Keeps(r, Forget(r, i), {i, k})
        /\ k = 0 => Forget(r, i) = Without(r, i)
        /\ k # 0 /\ i < n => Forget(r, i) = Without(Without(r, k), i)
        /\ k # 0 /\ i = n => Forget(r, i) = Without(Without(r, i), k) /\ k = i - 1
    <2>1. Forget(r, i) \in Seq(Entries) /\ Keeps(r, Forget(r, i), {i, k}) /\ Drops(r, i, k, Forget(r, i))
      BY ForgetKeeps
    <2> QED BY <2>1 DEF Drops
  <1>2. k # 0 => ChargeOf(r[k]) = 0
    BY DEF ChargeOf
  <1>3. CASE k = 0
    BY <1>1, <1>3, ChargeWithout
  <1>4. CASE k # 0 /\ i < n
    <2>1. k \in 1..Len(r)
      BY <1>4
    <2>2. PICK q \in Seq(Entries) : q = Without(r, k) /\ Len(q) = n - 1
      BY <2>1, WithoutKeeps
    <2>3. i \in 1..Len(q) /\ q[i] = r[i]
      BY <1>4, <2>1, <2>2 DEF Without
    <2>4. Charge(q) = Charge(r) - ChargeOf(r[k]) /\ Charge(q) \in Nat
      BY <2>1, <2>2, ChargeWithout
    <2>5. /\ Charge(Without(q, i)) = Charge(q) - ChargeOf(q[i]) /\ Charge(Without(q, i)) \in Nat
          /\ ChargeOf(q[i]) \in Nat
      BY <2>3, ChargeWithout
    <2>6. Charge(r) \in Nat
      <3>1. PICK c : AddsUp(r, c) /\ Charge(r) = c[Len(r)]
        BY ChargeIs
      <3> QED BY <3>1 DEF AddsUp
    <2> QED BY <1>1, <1>2, <1>4, <2>2, <2>3, <2>4, <2>5, <2>6
  <1>5. CASE k # 0 /\ i = n
    <2>1. i \in 1..Len(r) /\ k = i - 1
      BY <1>1, <1>5
    <2>2. PICK q \in Seq(Entries) : q = Without(r, i) /\ Len(q) = n - 1
      BY <2>1, WithoutKeeps
    <2>3. k \in 1..Len(q) /\ q[k] = r[k]
      BY <1>5, <2>1, <2>2 DEF Without
    <2>4. Charge(q) = Charge(r) - ChargeOf(r[i]) /\ Charge(q) \in Nat /\ ChargeOf(r[i]) \in Nat
      BY <2>1, <2>2, ChargeWithout
    <2>5. Charge(Without(q, k)) = Charge(q) - ChargeOf(q[k]) /\ Charge(Without(q, k)) \in Nat
      BY <2>3, ChargeWithout
    <2> QED BY <1>1, <1>2, <1>5, <2>2, <2>3, <2>4, <2>5
  <1> QED BY <1>3, <1>4, <1>5
-------------------------------------------------------------------------------
(* The loop of texscale_release. *)

Loops == [reg : Seq(Entries), gone : SUBSET (Addresses \cup {None})]

\* What a turn leaves of the table r, at an entry whose copy has the entry k.
Turned(r, i, p) ==
    \E k \in 0..Len(r), q \in Seq(Entries) :
        /\ k = Find(r, r[i].up) /\ (k # 0 => r[k].tex = r[i].up)
        /\ Len(q) = IF k = 0 THEN Len(r) ELSE Len(r) - 1
        /\ \A j \in 1..Len(q) : q[j] = IF k # 0 /\ j = k THEN r[Len(r)] ELSE r[j]
        /\ p \in Seq(Entries) /\ Len(p) = Len(q)
        /\ \A j \in 1..Len(q) : j # i => p[j] = q[j]

\* What a turn makes of the table r and the copies g.
TurnTo(r, g, i, res) ==
    /\ res \in Loops
    /\ i > Len(r) \/ r[i].up = None => res = [reg |-> r, gone |-> g]
    /\ i <= Len(r) /\ r[i].up # None => res.gone = g \cup {r[i].up} /\ Turned(r, i, res.reg)

LEMMA TurnIs ==
    ASSUME NEW r \in Seq(Entries), NEW g \in SUBSET (Addresses \cup {None}), NEW acc,
           acc = [reg |-> r, gone |-> g], NEW i \in Nat \ {0}
    PROVE  TurnTo(r, g, i, ReleaseTurn(acc, i))
  <1>0. PICK n \in Nat : n = Len(r)
    OBVIOUS
  <1>1. acc.reg = r /\ acc.gone = g /\ acc \in Loops
    BY DEF Loops
  <1>2. CASE i > n \/ r[i].up = None
    BY <1>0, <1>1, <1>2 DEF ReleaseTurn, TurnTo
  <1>3. CASE i <= n /\ r[i].up # None
    <2>1. PICK k \in Nat : k = Find(r, r[i].up)
      BY FindIs
    <2>2. k \in 0..n /\ (k # 0 => r[k].tex = r[i].up)
      BY <1>0, <2>1, FindIs
    <2>3. PICK q \in Seq(Entries) :
             /\ q = Freed(r, r[i].up) /\ Len(q) = IF k = 0 THEN n ELSE n - 1
             /\ \A j \in 1..Len(q) : q[j] = IF k # 0 /\ j = k THEN r[n] ELSE r[j]
      <3>1. CASE k = 0
        BY <1>0, <2>1, <3>1 DEF Freed
      <3>2. CASE k # 0
        <4>1. k \in 1..Len(r)
          BY <1>0, <2>2, <3>2
        <4>2. PICK q \in Seq(Entries) : q = Without(r, k) /\ Len(q) = Len(r) - 1
          BY <4>1, WithoutKeeps
        <4>3. \A j \in 1..Len(q) : q[j] = IF j = k THEN r[n] ELSE r[j]
          BY <1>0, <4>2 DEF Without
        <4>4. q = Freed(r, r[i].up)
          BY <2>1, <3>2, <4>2 DEF Freed
        <4> QED BY <1>0, <3>2, <4>2, <4>3, <4>4
      <3> QED BY <3>1, <3>2
    <2>4. PICK p : p = IF i <= Len(q) THEN [q EXCEPT ![i].up = None] ELSE q
      OBVIOUS
    <2>5. p \in Seq(Entries) /\ Len(p) = Len(q) /\ \A j \in 1..Len(q) : j # i => p[j] = q[j]
      <3>1. CASE i <= Len(q)
        <4>1. i \in DOMAIN q /\ q[i] \in Entries
          BY <3>1
        <4>2. PICK e \in Entries : e = [q[i] EXCEPT !.up = None]
          BY <4>1 DEF Entries
        <4>3. p = [q EXCEPT ![i] = e]
          BY <2>4, <3>1, <4>1, <4>2
        <4> QED BY <4>1, <4>3, Replaces
      <3>2. CASE ~(i <= Len(q))
        BY <2>4, <3>2
      <3> QED BY <3>1, <3>2
    <2>6. ReleaseTurn(acc, i) = [reg |-> p, gone |-> g \cup {r[i].up}]
      <3>1. PICK u : u = r[i].up
        OBVIOUS
      <3>2. ~(i > Len(acc.reg) \/ acc.reg[i].up = None)
        BY <1>0, <1>1, <1>3
      <3>3. ReleaseTurn(acc, i) =
               LET v == acc.reg[i].up
                   w == Freed(acc.reg, v) IN
               [reg |-> IF i <= Len(w) THEN [w EXCEPT ![i].up = None] ELSE w, gone |-> acc.gone \cup {v}]
        BY <3>2 DEF ReleaseTurn
      <3>4. ReleaseTurn(acc, i) =
               [reg |-> IF i <= Len(q) THEN [q EXCEPT ![i].up = None] ELSE q, gone |-> g \cup {u}]
        BY <1>1, <2>3, <3>1, <3>3
      <3> QED BY <2>4, <3>1, <3>4
    <2>7. ReleaseTurn(acc, i).reg = p /\ ReleaseTurn(acc, i).gone = g \cup {r[i].up}
      BY <2>6
    <2>8. r[i] \in Entries
      BY <1>0, <1>3
    <2>9. ReleaseTurn(acc, i) \in Loops
      BY <2>5, <2>6, <2>8 DEF Loops, Entries
    <2>10. Turned(r, i, p)
      BY <1>0, <2>1, <2>2, <2>3, <2>5 DEF Turned
    <2> QED BY <1>0, <1>3, <2>7, <2>9, <2>10 DEF TurnTo
  <1> QED BY <1>2, <1>3

\* The loop as the recursion it is.
LEMMA LoopIs ==
    ASSUME reg \in Seq(Entries), NEW m \in Nat, m = Len(reg)
    PROVE  /\ ReleaseLoop \in [0..m -> Loops] /\ ReleaseLoop[0] = [reg |-> reg, gone |-> {}]
           /\ \A i \in 1..m : ReleaseLoop[i] = ReleaseTurn(ReleaseLoop[i - 1], i)
  <1> DEFINE first == [reg |-> reg, gone |-> {}]
             Eq(g) == g = [i \in 0..m |-> IF i = 0 THEN first ELSE ReleaseTurn(g[i - 1], i)]
             step == [i \in 1..m |-> [acc \in Loops |-> ReleaseTurn(acc, i)]]
  <1>1. first \in Loops
    BY DEF Loops
  <1>2. \A acc \in Loops, i \in 1..m : ReleaseTurn(acc, i) \in Loops
    <2> SUFFICES ASSUME NEW acc \in Loops, NEW i \in 1..m PROVE ReleaseTurn(acc, i) \in Loops
      OBVIOUS
    <2>1. PICK r \in Seq(Entries), g \in SUBSET (Addresses \cup {None}) : acc = [reg |-> r, gone |-> g]
      BY DEF Loops
    <2>2. i \in Nat \ {0} /\ Len(r) \in Nat
      OBVIOUS
    <2> QED BY <2>1, <2>2, TurnIs DEF TurnTo
  <1>3. step \in [1..m -> [Loops -> Loops]]
    BY <1>2
  <1>4. \E g : Iterates(g, m, Loops, first, step)
    <2>1. PICK s : s = step
      OBVIOUS
    <2>2. s \in [1..m -> [Loops -> Loops]]
      BY <1>3, <2>1
    <2>3. \E g : Iterates(g, m, Loops, first, s)
      <3> HIDE DEF step, first
      <3> QED BY <1>1, <2>2, Recursion
    <2> QED BY <2>1, <2>3
  <1>5. \E g : Eq(g)
    <2>1. PICK g \in [0..m -> Loops] : g[0] = first /\ \A i \in 1..m : g[i] = step[i][g[i - 1]]
      BY <1>4 DEF Iterates
    <2>2. ASSUME NEW i \in 1..m PROVE g[i] = ReleaseTurn(g[i - 1], i)
      <3>1. i - 1 \in 0..m /\ g[i - 1] \in Loops
        BY <2>1
      <3>2. step[i] = [acc \in Loops |-> ReleaseTurn(acc, i)]
        OBVIOUS
      <3>3. g[i] = step[i][g[i - 1]]
        BY <2>1
      <3> HIDE DEF step
      <3> QED BY <3>1, <3>2, <3>3
    <2>3. Eq(g)
      <3> HIDE DEF first
      <3> QED BY <2>1, <2>2
    <2> QED BY <2>3
  <1>6. PICK c : c = CHOOSE g : Eq(g)
    OBVIOUS
  <1>7. Eq(c)
    BY <1>5, <1>6
  <1>8. ReleaseLoop = c
    BY <1>6 DEF ReleaseLoop
  <1>9. \A i \in 0..m : c[i] \in Loops
    <2> HIDE DEF first
    <2> DEFINE T == {i \in 0..m : c[i] \in Loops}
    <2>1. 0 \in T
      BY <1>1, <1>7
    <2>2. \A i \in 0..m - 1 : i \in T => i + 1 \in T
      <3> SUFFICES ASSUME NEW i \in 0..m - 1, i \in T PROVE i + 1 \in T
        OBVIOUS
      <3>1. i + 1 \in 1..m /\ i + 1 - 1 = i /\ i + 1 \in 0..m
        OBVIOUS
      <3>2. c[i + 1] = ReleaseTurn(c[i], i + 1)
        BY <1>7, <3>1
      <3>3. c[i + 1] \in Loops
        BY <1>2, <3>1, <3>2
      <3> QED BY <3>1, <3>3
    <2>3. \A i \in 0..m : i \in T
      <3> HIDE DEF T
      <3> QED BY <2>1, <2>2, UpTo
    <2> QED BY <2>3
  <1>10. c \in [0..m -> Loops] /\ c[0] = first /\ \A i \in 1..m : c[i] = ReleaseTurn(c[i - 1], i)
    <2> HIDE DEF first
    <2>1. DOMAIN c = 0..m /\ c[0] = first /\ \A i \in 1..m : c[i] = ReleaseTurn(c[i - 1], i)
      BY <1>7
    <2> QED BY <1>7, <1>9, <2>1
  <1> QED BY <1>8, <1>10

\* After the turns up to t, what is left of the copies belongs to entries beyond t.
Passed(acc, t, m, ts, cs) ==
    /\ acc \in Loops /\ Len(acc.reg) <= m
    /\ \A j \in DOMAIN acc.reg : j > t /\ acc.reg[j].up # None => acc.reg[j].tex \in ts
    /\ \A u \in cs \ acc.gone : \E j \in DOMAIN acc.reg : j > t /\ acc.reg[j].up = u

LEMMA PassesOn ==
    ASSUME NEW ts, NEW cs, ts \cap cs = {}, None \notin cs, NEW m \in Nat, NEW i \in Nat,
           NEW acc, Passed(acc, i, m, ts, cs),
           \A j \in DOMAIN acc.reg : j > i /\ acc.reg[j].up # None => acc.reg[j].up \in cs,
           ~(/\ i + 1 < Len(acc.reg) /\ acc.reg[i + 1].up # None /\ acc.reg[Len(acc.reg)].up # None
             /\ Find(acc.reg, acc.reg[i + 1].up) \in 1..i)
    PROVE  /\ Passed(ReleaseTurn(acc, i + 1), i + 1, m, ts, cs)
           /\ \A j \in DOMAIN ReleaseTurn(acc, i + 1).reg :
                 j > i + 1 /\ ReleaseTurn(acc, i + 1).reg[j].up # None =>
                     ReleaseTurn(acc, i + 1).reg[j].up \in cs
  <1>1. PICK r \in Seq(Entries), g \in SUBSET (Addresses \cup {None}) : acc = [reg |-> r, gone |-> g]
    BY DEF Passed, Loops
  <1>2. PICK n \in Nat : n = Len(r) /\ DOMAIN r = 1..n
    OBVIOUS
  <1>3. PICK t \in Nat \ {0} : t = i + 1 /\ \A j \in Nat : j > i <=> j >= t
    OBVIOUS
  <1>4. acc.reg = r /\ acc.gone = g
    BY <1>1
  <1>5. /\ n <= m
        /\ \A j \in 1..n : j >= t /\ r[j].up # None => r[j].tex \in ts /\ r[j].up \in cs
        /\ \A u \in cs \ g : \E j \in 1..n : j >= t /\ r[j].up = u
    <2>1. /\ Len(r) <= m
          /\ \A j \in DOMAIN r : j > i /\ r[j].up # None => r[j].tex \in ts /\ r[j].up \in cs
          /\ \A u \in cs \ g : \E j \in DOMAIN r : j > i /\ r[j].up = u
      BY <1>4 DEF Passed
    <2>2. \A j \in 1..n : j > i <=> j >= t
      BY <1>3
    <2> QED BY <1>2, <2>1, <2>2
  <1>6. ~(t < n /\ r[t].up # None /\ r[n].up # None /\ Find(r, r[t].up) \in 1..t - 1)
    BY <1>2, <1>3, <1>4
  <1>7. PICK z : z = ReleaseTurn(acc, t)
    OBVIOUS
  <1>8. /\ z \in Loops
        /\ t > n \/ r[t].up = None => z = acc
        /\ t <= n /\ r[t].up # None => z.gone = g \cup {r[t].up} /\ Turned(r, t, z.reg)
    <2>1. TurnTo(r, g, t, ReleaseTurn(acc, t))
      BY <1>1, TurnIs
    <2> QED BY <1>1, <1>2, <1>7, <2>1 DEF TurnTo
  <1>9. CASE t > n \/ r[t].up = None
    <2>1. z = acc /\ z.reg = r /\ z.gone = g
      BY <1>4, <1>8, <1>9
    <2>2. \A u \in cs \ g : \E j \in 1..n : j > t /\ r[j].up = u
      <3>1. SUFFICES ASSUME NEW u \in cs \ g PROVE \E j \in 1..n : j > t /\ r[j].up = u
        OBVIOUS
      <3>2. PICK j \in 1..n : j >= t /\ r[j].up = u
        BY <1>5
      <3>3. j # t
        BY <1>9, <3>2
      <3> QED BY <3>2, <3>3
    <2>3. \A j \in 1..n : j > t /\ r[j].up # None => r[j].tex \in ts /\ r[j].up \in cs
      BY <1>5
    <2>4. Passed(z, t, m, ts, cs)
      BY <1>2, <1>5, <1>8, <2>1, <2>2, <2>3 DEF Passed
    <2> QED BY <1>2, <1>3, <1>7, <2>1, <2>3, <2>4
  <1>10. CASE t <= n /\ r[t].up # None
    <2>1. PICK k \in 0..n, q \in Seq(Entries) :
             /\ k = Find(r, r[t].up) /\ (k # 0 => r[k].tex = r[t].up)
             /\ Len(q) = IF k = 0 THEN n ELSE n - 1
             /\ \A j \in 1..Len(q) : q[j] = IF k # 0 /\ j = k THEN r[n] ELSE r[j]
             /\ z.reg \in Seq(Entries) /\ Len(z.reg) = Len(q)
             /\ \A j \in 1..Len(q) : j # t => z.reg[j] = q[j]
      BY <1>2, <1>8, <1>10 DEF Turned
    <2>2. PICK p \in Seq(Entries), l \in Nat :
             p = z.reg /\ l = Len(q) /\ Len(p) = l /\ DOMAIN p = 1..l /\ l <= n
      BY <2>1
    <2>3. /\ l = IF k = 0 THEN n ELSE n - 1
          /\ \A j \in 1..l : j > t => p[j] = IF k # 0 /\ j = k THEN r[n] ELSE r[j]
      BY <2>1, <2>2
    <2>4. z.gone = g \cup {r[t].up}
      BY <1>8, <1>10
    <2>5. k # 0 /\ k >= t => r[k].up = None
      BY <1>5, <1>10, <2>1
    <2>6. k \in 1..t - 1 => r[n].up = None \/ t = n
      BY <1>6, <1>10, <2>1
    <2>7. \A j \in 1..l : j > t /\ p[j].up # None => p[j].tex \in ts /\ p[j].up \in cs
      <3> SUFFICES ASSUME NEW j \in 1..l, j > t, p[j].up # None PROVE p[j].tex \in ts /\ p[j].up \in cs
        OBVIOUS
      <3>1. CASE k # 0 /\ j = k
        <4>1. p[j] = r[n] /\ n \in 1..n /\ n >= t
          BY <1>10, <2>3, <3>1
        <4> QED BY <1>5, <4>1
      <3>2. CASE ~(k # 0 /\ j = k)
        <4>1. p[j] = r[j] /\ j \in 1..n /\ j >= t
          BY <2>2, <2>3, <3>2
        <4> QED BY <1>5, <4>1
      <3> QED BY <3>1, <3>2
    <2>8. \A u \in cs \ (g \cup {r[t].up}) : \E j \in 1..l : j > t /\ p[j].up = u
      <3> SUFFICES ASSUME NEW u \in cs \ (g \cup {r[t].up}) PROVE \E j \in 1..l : j > t /\ p[j].up = u
        OBVIOUS
      <3>1. PICK j \in 1..n : j >= t /\ r[j].up = u
        BY <1>5
      <3>2. j # t /\ j > t /\ u # None /\ t < n
        BY <3>1
      <3>3. k # 0 => j # k
        BY <2>5, <3>1, <3>2
      <3>4. CASE j \in 1..l
        BY <2>3, <3>1, <3>2, <3>3, <3>4
      <3>5. CASE j \notin 1..l
        <4>1. k # 0 /\ j = n /\ l = n - 1
          BY <2>3, <3>1, <3>5
        <4>2. k >= t /\ k # t /\ k # n
          BY <2>6, <3>1, <3>2, <3>3, <4>1, <1>10, <2>5
        <4>3. k \in 1..l /\ k > t
          BY <4>1, <4>2
        <4>4. p[k] = r[n]
          BY <2>3, <4>1, <4>3
        <4> QED BY <3>1, <4>1, <4>3, <4>4
      <3> QED BY <3>4, <3>5
    <2>9. Passed(z, t, m, ts, cs)
      <3>1. z \in Loops /\ Len(z.reg) <= m
        BY <1>5, <1>8, <2>2
      <3>2. \A j \in DOMAIN z.reg : j > t /\ z.reg[j].up # None => z.reg[j].tex \in ts
        BY <2>2, <2>7
      <3>3. \A u \in cs \ z.gone : \E j \in DOMAIN z.reg : j > t /\ z.reg[j].up = u
        BY <2>2, <2>4, <2>8
      <3> QED BY <3>1, <3>2, <3>3 DEF Passed
    <2> QED BY <1>3, <1>7, <2>2, <2>7, <2>9
  <1> QED BY <1>9, <1>10

\* texscale_release leaves no copy.
LEMMA LeavesNone ==
    ASSUME TableInv, ~StepsOver, \A u \in copies : \E i \in DOMAIN reg : reg[i].up = u
    PROVE  copies \ GoneAll = {}
  <1>1. PICK m \in Nat : m = Len(reg) /\ DOMAIN reg = 1..m
    BY DEF TableInv, Table
  <1>2. /\ reg \in Seq(Entries) /\ textures \cap copies = {} /\ None \notin copies
        /\ \A j \in DOMAIN reg : reg[j].up # None => reg[j].tex \in textures /\ reg[j].up \in copies
    BY CopyConstants DEF TableInv, Table, Apart
  <1>3. PICK c : c = ReleaseLoop
    OBVIOUS
  <1>4. /\ c \in [0..m -> Loops] /\ c[0] = [reg |-> reg, gone |-> {}]
        /\ \A i \in 1..m : c[i] = ReleaseTurn(c[i - 1], i)
    BY <1>1, <1>2, <1>3, LoopIs
  <1> DEFINE InCopies(i) == \A j \in DOMAIN c[i].reg : j > i /\ c[i].reg[j].up # None => c[i].reg[j].up \in copies
             T == {i \in 0..m : Passed(c[i], i, m, textures, copies) /\ InCopies(i)}
  <1>5. 0 \in T
    <2>0. 0 \in 0..m
      OBVIOUS
    <2>4. c[0] \in Loops
      BY <1>4, <2>0
    <2>5. c[0].reg = reg /\ c[0].gone = {}
      <3>1. PICK a : a = c[0] /\ a = [reg |-> reg, gone |-> {}]
        BY <1>4
      <3>2. a.reg = reg /\ a.gone = {}
        BY ONLY <3>1
      <3> QED BY ONLY <3>1, <3>2
    <2>1. c[0] \in Loops /\ c[0].reg = reg /\ c[0].gone = {} /\ 0 \in 0..m
      BY <2>0, <2>4, <2>5
    <2>2. \A j \in DOMAIN reg : j > 0
      BY <1>1
    <2>3. Passed(c[0], 0, m, textures, copies)
      BY <1>1, <1>2, <2>1, <2>2 DEF Passed
    <2> QED BY <1>2, <2>1, <2>3
  <1>6. \A i \in 0..m - 1 : i \in T => i + 1 \in T
    <2> SUFFICES ASSUME NEW i \in 0..m - 1, i \in T PROVE i + 1 \in T
      OBVIOUS
    <2>1. i + 1 \in 1..m /\ i + 1 \in 0..m /\ i + 1 - 1 = i /\ i \in Nat
      OBVIOUS
    <2>2. c[i + 1] = ReleaseTurn(c[i], i + 1)
      BY <1>4, <2>1
    <2>3. PICK acc : acc = c[i]
      OBVIOUS
    <2>4. ~(/\ i + 1 < Len(acc.reg) /\ acc.reg[i + 1].up # None /\ acc.reg[Len(acc.reg)].up # None
            /\ Find(acc.reg, acc.reg[i + 1].up) \in 1..i)
      <3>1. \A k \in 1..m : LET r == c[k - 1].reg IN
               ~(k < Len(r) /\ r[k].up # None /\ r[Len(r)].up # None /\ Find(r, r[k].up) \in 1..k - 1)
        BY <1>1, <1>3 DEF StepsOver
      <3> QED BY <2>1, <2>3, <3>1
    <2>5. /\ Passed(acc, i, m, textures, copies)
          /\ \A j \in DOMAIN acc.reg : j > i /\ acc.reg[j].up # None => acc.reg[j].up \in copies
      BY <2>3
    <2>6. /\ Passed(ReleaseTurn(acc, i + 1), i + 1, m, textures, copies)
          /\ \A j \in DOMAIN ReleaseTurn(acc, i + 1).reg :
                j > i + 1 /\ ReleaseTurn(acc, i + 1).reg[j].up # None =>
                    ReleaseTurn(acc, i + 1).reg[j].up \in copies
      BY <1>2, <2>1, <2>4, <2>5, PassesOn
    <2> QED BY <2>1, <2>2, <2>3, <2>6
  <1>7. m \in T
    <2>1. m \in 0..m
      OBVIOUS
    <2> HIDE DEF T
    <2> QED BY <1>5, <1>6, <2>1, UpTo
  <1>8. c[m] \in Loops /\ Len(c[m].reg) <= m /\ \A u \in copies \ c[m].gone : \E j \in DOMAIN c[m].reg : j > m
    BY <1>7 DEF Passed
  <1>9. \A j \in DOMAIN c[m].reg : ~(j > m)
    <2>1. c[m].reg \in Seq(Entries)
      BY <1>8 DEF Loops
    <2> QED BY <1>8, <2>1
  <1> QED BY <1>1, <1>3, <1>8, <1>9 DEF GoneAll
-------------------------------------------------------------------------------
(* Every copy is owned, and paid for. *)

Owned(r, cs) == \A u \in cs : \E i \in DOMAIN r : r[i].up = u

OwnedInv == TableInv /\ HeldInv /\ Owned(reg, copies) /\ charged = Charge(reg)

LEMMA ChargeNat == ASSUME NEW r \in Seq(Entries) PROVE Charge(r) \in Nat
  <1>1. PICK c : AddsUp(r, c) /\ Charge(r) = c[Len(r)]
    BY ChargeIs
  <1> QED BY <1>1 DEF AddsUp

LEMMA ChargeEmpty == Charge(<<>>) = 0
  <1>1. PICK r \in Seq(Entries) : r = <<>>
    <2>1. <<>> \in Seq(Entries)
      OBVIOUS
    <2> QED BY <2>1
  <1>2. PICK c : AddsUp(r, c) /\ Charge(r) = c[Len(r)]
    BY ChargeIs
  <1> QED BY <1>1, <1>2 DEF AddsUp

\* An entry without a copy costs nothing.
LEMMA ChargeRegister ==
    ASSUME NEW r \in Seq(Entries), NEW t \in Addresses \cup Works, NEW size \in Nat,
           NEW eligible \in BOOLEAN
    PROVE  Charge(Register(r, t, size, eligible)) = Charge(r)
  <1>1. PICK e \in Entries : e = Entry(t, size, eligible)
    BY DEF Entry, Entries
  <1>2. ChargeOf(e) = 0
    BY <1>1 DEF Entry, ChargeOf
  <1>3. Charge(Append(r, e)) = Charge(r)
    <2>1. Charge(Append(r, e)) = Charge(r) + ChargeOf(e)
      BY ChargeAppend
    <2> QED BY <1>2, <2>1, ChargeNat
  <1> QED BY <1>1, <1>3 DEF Register

LEMMA ChargeRegisterCopy ==
    ASSUME NEW r \in Seq(Entries), NEW u \in Addresses
    PROVE  Charge(Register(r, u, 0, FALSE)) = Charge(r)
  <1>1. PICK e \in Entries : e = Entry(u, 0, FALSE)
    BY DEF Entry, Entries
  <1>2. ChargeOf(e) = 0
    BY <1>1 DEF Entry, ChargeOf
  <1>3. Charge(Append(r, e)) = Charge(r)
    <2>1. Charge(Append(r, e)) = Charge(r) + ChargeOf(e)
      BY ChargeAppend
    <2> QED BY <1>2, <2>1, ChargeNat
  <1> QED BY <1>1, <1>3 DEF Register

\* The release of a texture refunds its copy.
LEMMA RefundsCopy ==
    ASSUME TableInv, NEW t \in textures, ~Overwrites(t), charged = Charge(reg)
    PROVE  Refunded(t) = Charge(Forgotten(t))
  <1>1. /\ reg \in Seq(Entries)
        /\ \A i \in DOMAIN reg : reg[i].up # None => reg[i].up \in copies /\ reg[i].tex \in textures
        /\ textures \cap copies = {}
    BY DEF TableInv, Table, Apart
  <1>2. PICK i \in Nat : i = Find(reg, t)
    BY <1>1, FindIs
  <1>3. CASE i = 0
    BY <1>2, <1>3 DEF Refunded, Forgotten
  <1>4. CASE i # 0
    <2>1. PICK n \in Nat : n = Len(reg) /\ DOMAIN reg = 1..n
      BY <1>1
    <2>2. i \in 1..n /\ i \in DOMAIN reg /\ Forgotten(t) = Forget(reg, i) /\ Refunded(t) = Refund(reg[i])
      BY <1>1, <1>2, <1>4, <2>1, FindIs DEF Forgotten, Refunded
    <2>3. reg[i].up # None => reg[i].tex # reg[i].up
      BY <1>1, <2>2
    <2>4. PICK k \in 0..n :
             /\ k = CopyPlace(reg, i) /\ k # i
             /\ k # 0 => reg[i].up # None /\ reg[k].tex = reg[i].up
      BY <1>1, <2>1, <2>2, <2>3, CopyPlaceIs
    <2>5. ~(i = n /\ k \in 1..n - 2)
      BY <1>2, <1>4, <2>1, <2>2, <2>4 DEF Overwrites, CopyPlace
    <2>6. k # 0 => reg[k].up = None
      BY <1>1, <2>1, <2>2, <2>4
    <2>7. /\ Charge(Forget(reg, i)) = Charge(reg) - ChargeOf(reg[i])
          /\ Charge(Forget(reg, i)) \in Nat /\ ChargeOf(reg[i]) \in Nat
      BY <1>1, <2>1, <2>2, <2>4, <2>5, <2>6, ChargeForget
    <2>8. PICK e \in Entries : e = reg[i]
      BY <1>1, <2>2
    <2>9. Charge(reg) \in Nat /\ e.size \in Nat
      BY <1>1, <2>8, ChargeNat DEF Entries
    <2>10. CASE e.up = None
      <3>1. Refund(e) = charged /\ ChargeOf(e) = 0
        BY <2>10 DEF Refund, ChargeOf
      <3> QED BY <2>2, <2>7, <2>8, <2>9, <3>1
    <2>11. CASE e.up # None
      <3>1. Refund(e) = charged - (IF e.size < charged THEN e.size ELSE charged) /\ ChargeOf(e) = e.size
        BY <2>11 DEF Refund, ChargeOf
      <3>2. PICK x \in Nat, y \in Nat, z \in Nat : x = Charge(reg) /\ y = e.size /\ z = Charge(Forget(reg, i))
        BY <2>7, <2>9
      <3>3. z = x - y /\ charged = x
        BY <2>7, <2>8, <3>1, <3>2
      <3>4. Refund(e) = z
        BY <3>1, <3>2, <3>3
      <3> QED BY <2>2, <2>8, <3>2, <3>4
    <2> QED BY <2>10, <2>11
  <1> QED BY <1>3, <1>4

\* An entry that keeps its copy and its size changes nothing of what is owned.
LEMMA SameOwned ==
    ASSUME NEW r \in Seq(Entries), NEW q \in Seq(Entries), DOMAIN q = DOMAIN r, NEW cs, Owned(r, cs),
           \A j \in DOMAIN r : q[j].up = r[j].up /\ q[j].size = r[j].size
    PROVE  Owned(q, cs) /\ Charge(q) = Charge(r)
  <1>1. Owned(q, cs)
    BY DEF Owned
  <1>2. Len(q) = Len(r) /\ \A j \in 1..Len(r) : ChargeOf(q[j]) = ChargeOf(r[j])
    BY DEF ChargeOf
  <1> QED BY <1>1, <1>2, ChargeSame

LEMMA SameReplaced ==
    ASSUME TableInv, NEW cs, Owned(reg, cs), NEW i \in DOMAIN reg, NEW e \in Entries, e.up = reg[i].up,
           e.size = reg[i].size
    PROVE  Owned([reg EXCEPT ![i] = e], cs) /\ Charge([reg EXCEPT ![i] = e]) = Charge(reg)
  <1>1. reg \in Seq(Entries)
    BY DEF TableInv, Table
  <1>2. PICK q : q = [reg EXCEPT ![i] = e]
    OBVIOUS
  <1>3. q \in Seq(Entries) /\ DOMAIN q = DOMAIN reg /\ \A j \in DOMAIN reg : q[j] = IF j = i THEN e ELSE reg[j]
    BY <1>1, <1>2, Replaces
  <1>4. \A j \in DOMAIN reg : q[j].up = reg[j].up /\ q[j].size = reg[j].size
    BY <1>3
  <1>5. Owned(q, cs) /\ Charge(q) = Charge(reg)
    BY <1>1, <1>3, <1>4, SameOwned
  <1> QED BY <1>2, <1>5

\* The entry of a working texture takes nothing of the budget.
LEMMA ChargeTarget ==
    ASSUME TableInv, NEW w \in Works
    PROVE  Charge(Freed(reg, w)) = Charge(reg) /\ Freed(reg, w) \in Seq(Entries)
  <1>1. /\ reg \in Seq(Entries) /\ textures \subseteq Addresses
        /\ \A i \in DOMAIN reg : reg[i].up # None => reg[i].tex \in textures
    BY DEF TableInv, Table, Apart
  <1>2. PICK k \in Nat : k = Find(reg, w)
    BY <1>1, FindIs
  <1>3. CASE k = 0
    BY <1>1, <1>2, <1>3 DEF Freed
  <1>4. CASE k # 0
    <2>1. k \in 1..Len(reg) /\ reg[k].tex = w /\ Freed(reg, w) = Without(reg, k)
      BY <1>1, <1>2, <1>4, FindIs DEF Freed
    <2>2. reg[k].up = None
      BY <1>1, <2>1, WorksApart
    <2>3. ChargeOf(reg[k]) = 0
      BY <2>2 DEF ChargeOf
    <2>4. Charge(Without(reg, k)) = Charge(reg) - ChargeOf(reg[k]) /\ Without(reg, k) \in Seq(Entries)
      BY <1>1, <2>1, ChargeWithout, WithoutKeeps
    <2>5. Charge(reg) \in Nat
      BY <1>1, ChargeNat
    <2> QED BY <2>1, <2>3, <2>4, <2>5
  <1> QED BY <1>3, <1>4

LEMMA OwnedKept ==
    ASSUME OwnedInv, Lapses = {}, [CopiesNext]_copyVars
    PROVE  OwnedInv'
  <1>0. /\ TableInv /\ TableInv' /\ HeldInv /\ HeldInv' /\ reg \in Seq(Entries)
        /\ Owned(reg, copies) /\ charged = Charge(reg)
    BY TableKept, HeldKept DEF OwnedInv, TableInv, Table
  <1> DEFINE Goal == Owned(reg', copies') /\ charged' = Charge(reg')
  <1>1. ASSUME NEW t \in Addresses, NEW size \in Costs, NEW el \in BOOLEAN, NEW p \in Pictures,
               Create(t, size, el, p)
        PROVE  Goal
    <2>1. t \in Unused /\ reg' = Register(Forgotten(t), t, size, el) /\ copies' = copies \ GoneWith(t)
          /\ charged' = Refunded(t)
      BY <1>1 DEF Create
    <2>2. reg' = Register(reg, t, size, el) /\ copies' = copies /\ charged' = charged /\ size \in Nat
      BY <1>0, <2>1, UnusedUnknown, CopyConstants
    <2>3. Charge(Register(reg, t, size, el)) = Charge(reg)
      BY <1>0, <2>2, ChargeRegister
    <2>4. \A j \in DOMAIN reg : j \in DOMAIN Register(reg, t, size, el)
                                /\ Register(reg, t, size, el)[j] = reg[j]
      BY <1>0, <2>2, Registers
    <2>5. Owned(Register(reg, t, size, el), copies)
      BY <1>0, <2>4 DEF Owned
    <2> QED BY <1>0, <2>2, <2>3, <2>5
  <1>2. ASSUME NEW t \in Addresses, Free(t) PROVE Goal
    <2>1. /\ t \in textures /\ ~Overwrites(t) /\ reg' = Forgotten(t)
          /\ copies' = copies \ GoneWith(t) /\ charged' = Refunded(t)
      BY <1>2 DEF Free
    <2>2. \A i \in DOMAIN reg :
             reg[i].up # None /\ reg[i].up \notin GoneWith(t) =>
                 \E j \in DOMAIN Forgotten(t) : Forgotten(t)[j] = reg[i]
      BY <1>0, <2>1, FreesEntry
    <2>3. None \notin copies
      BY <1>0, CopyConstants DEF TableInv, Apart
    <2>4. Owned(Forgotten(t), copies \ GoneWith(t))
      <3> SUFFICES ASSUME NEW u \in copies \ GoneWith(t) PROVE \E j \in DOMAIN Forgotten(t) : Forgotten(t)[j].up = u
        BY DEF Owned
      <3>1. PICK i \in DOMAIN reg : reg[i].up = u
        BY <1>0 DEF Owned
      <3> QED BY <2>2, <2>3, <3>1
    <2>5. Refunded(t) = Charge(Forgotten(t))
      BY <1>0, <2>1, RefundsCopy
    <2> QED BY <2>1, <2>4, <2>5
  <1>3. ASSUME NEW t \in textures PROVE Owned(Marked(reg, t), copies) /\ Charge(Marked(reg, t)) = Charge(reg)
    <2>1. PICK q : q = Marked(reg, t)
      OBVIOUS
    <2>2. q \in Seq(Entries) /\ DOMAIN q = DOMAIN reg
          /\ \A j \in DOMAIN reg : q[j].up = reg[j].up /\ q[j].size = reg[j].size
      BY <1>0, <2>1, Marks DEF Table
    <2>3. Owned(q, copies) /\ Charge(q) = Charge(reg)
      BY <1>0, <2>2, SameOwned
    <2> QED BY <2>1, <2>3
  <1>4. ASSUME NEW t \in Addresses, Lock(t) PROVE Goal
    <2>1. t \in textures /\ UNCHANGED <<copies, charged>> /\ reg' = Marked(reg, t)
      BY <1>4 DEF Lock, LockMark
    <2> QED BY <1>0, <1>3, <2>1
  <1>5. ASSUME NEW t \in Addresses, NEW p \in Pictures, Unlock(t, p)
        PROVE  Goal
    BY <1>0, <1>5 DEF Unlock
  <1>6. ASSUME NEW t \in Addresses, NEW p \in Pictures, LoadSurface(t, p)
        PROVE  Goal
    <2>1. t \in textures /\ UNCHANGED <<copies, charged>> /\ reg' = Marked(reg, t)
      BY <1>6 DEF LoadSurface
    <2> QED BY <1>0, <1>3, <2>1
  <1>7. ASSUME NEW t \in Addresses, Bind(t) PROVE Goal
    <2>0. t \in textures
      BY <1>7 DEF Bind
    <2>1. CASE BindAsItIs(t) \/ BindCopy(t)
      BY <2>1, <1>0 DEF BindAsItIs, BindCopy, deviceVars
    <2>2. CASE GiveUp(t)
      <3>1. PICK i \in DOMAIN reg, e \in Entries :
               /\ e.tex = reg[i].tex /\ e.up = reg[i].up /\ e.size = reg[i].size /\ e.dirty = reg[i].dirty
               /\ reg' = [reg EXCEPT ![i] = e]
        BY <1>0, <2>0, <2>2, GivesUp
      <3>2. Owned([reg EXCEPT ![i] = e], copies) /\ Charge([reg EXCEPT ![i] = e]) = Charge(reg)
        BY <1>0, <3>1, SameReplaced
      <3>3. UNCHANGED <<copies, charged>>
        BY <2>2 DEF GiveUp, deviceVars
      <3> QED BY <1>0, <3>1, <3>2, <3>3
    <2>3. CASE MakeCopy(t)
      <3>1. PICK u \in Unused, i \in DOMAIN reg, e \in Entries :
              /\ reg[i].tex = t /\ reg[i].up = None
              /\ e.tex = t /\ e.up = u /\ e.size = reg[i].size /\ e.dirty = reg[i].dirty
              /\ reg' = [Register(reg, u, 0, FALSE) EXCEPT ![i] = e]
              /\ copies' = copies \cup {u} /\ charged' = charged + reg[i].size
              /\ UNCHANGED <<textures, locked>>
              /\ content' = [content EXCEPT ![u] = None] /\ given' = None
              /\ making' = [tex |-> t, at |-> i, up |-> u, turn |-> 1]
        BY <1>0, <2>0, <2>3, MakesCopy
      <3>2. u \in Addresses /\ u # None
        BY <1>0, UnusedUnknown
      <3>3. Entered(reg, reg', i, e, u)
        BY <1>0, <2>0, <3>1, CopyEntered
      <3>4. Owned(reg', copies')
        <4> SUFFICES ASSUME NEW w \in copies \cup {u} PROVE \E j \in DOMAIN reg' : reg'[j].up = w
          BY <3>1 DEF Owned
        <4>1. i \in DOMAIN reg' /\ reg'[i] = e
          BY <3>3 DEF Entered
        <4>2. CASE w = u
          BY <3>1, <4>1, <4>2
        <4>3. CASE w # u
          <5>1. PICK j \in DOMAIN reg : reg[j].up = w
            BY <1>0, <4>3 DEF Owned
          <5>2. w # None
            BY <1>0, <4>3, CopyConstants DEF TableInv, Apart
          <5>3. j # i /\ j \in DOMAIN reg' /\ reg'[j] = reg[j]
            BY <3>1, <3>3, <5>1, <5>2 DEF Entered
          <5> QED BY <5>1, <5>3
        <4> QED BY <4>2, <4>3
      <3>5. PICK q : q = Register(reg, u, 0, FALSE)
        OBVIOUS
      <3>6. q \in Seq(Entries) /\ i \in DOMAIN q /\ q[i] = reg[i]
        BY <1>0, <3>2, <3>5, RegistersCopy
      <3>7. Charge(q) = Charge(reg) /\ Charge(reg) \in Nat
        BY <1>0, <3>2, <3>5, ChargeRegisterCopy, ChargeNat
      <3>8. Charge([q EXCEPT ![i] = e]) = Charge(q) - ChargeOf(q[i]) + ChargeOf(e)
        <4>1. i \in 1..Len(q)
          BY <3>6
        <4> QED BY <3>6, <4>1, ChargeReplace
      <3>9. ChargeOf(q[i]) = 0 /\ ChargeOf(e) = reg[i].size /\ reg[i].size \in Nat
        <4>1. reg[i] \in Entries
          BY <1>0
        <4> QED BY <3>1, <3>2, <3>6, <4>1 DEF ChargeOf, Entries
      <3>10. charged' = Charge(reg')
        <4>1. Charge(reg') = Charge(reg) - 0 + reg[i].size
          BY <3>1, <3>5, <3>7, <3>8, <3>9
        <4>2. PICK x \in Nat, y \in Nat : x = Charge(reg) /\ y = reg[i].size
          BY <3>7, <3>9
        <4>3. x - 0 + y = x + y
          OBVIOUS
        <4> QED BY <1>0, <3>1, <4>1, <4>2, <4>3
      <3> QED BY <3>4, <3>10
    <2>4. CASE RemakeCopy(t)
      <3>1. UNCHANGED <<copies, reg, charged>>
        BY <1>0, <2>0, <2>4, RemakesCopy
      <3> QED BY <1>0, <3>1
    <2> QED BY <1>7, <2>1, <2>2, <2>3, <2>4 DEF Bind
  <1>8. ASSUME Reset PROVE Goal
    <2>1. reg' = <<>> /\ charged' = 0 /\ copies' = copies \ GoneAll /\ ~StepsOver
      BY <1>8 DEF Reset
    <2>2. copies \ GoneAll = {}
      BY <1>0, <2>1, LeavesNone DEF Owned
    <2>3. Owned(<<>>, {})
      BY DEF Owned
    <2> QED BY <2>1, <2>2, <2>3, ChargeEmpty
  <1>9. ASSUME UNCHANGED copyVars PROVE Goal
    <2>1. UNCHANGED <<copies, reg, charged>>
      BY <1>9 DEF copyVars, deviceVars
    <2> QED BY <1>0, <2>1
  <1>11. ASSUME KeepTarget PROVE Goal
    BY <1>0, <1>11 DEF KeepTarget, deviceVars
  <1>12. ASSUME MakeTarget PROVE Goal
    <2>1. PICK w \in Works, size \in Nat, fails \in BOOLEAN :
             /\ UNCHANGED <<deviceVars, charged>> /\ Remade(reg', w)
             /\ reg' = IF fails THEN Freed(reg, w) ELSE Register(Freed(reg, w), w, size, FALSE)
      BY <1>0, <1>12, MakesTarget
    <2>2. Owned(reg', copies)
      <3> SUFFICES ASSUME NEW u \in copies PROVE \E j \in DOMAIN reg' : reg'[j].up = u
        BY DEF Owned
      <3>1. PICK i \in DOMAIN reg : reg[i].up = u
        BY <1>0 DEF Owned
      <3>2. u # None
        BY <1>0, CopyConstants DEF TableInv, Apart
      <3> QED BY <2>1, <3>1, <3>2 DEF Remade
    <2>3. Charge(reg') = Charge(reg)
      <3>1. Charge(Freed(reg, w)) = Charge(reg) /\ Freed(reg, w) \in Seq(Entries)
        BY <1>0, ChargeTarget
      <3>2. Charge(Register(Freed(reg, w), w, size, FALSE)) = Charge(Freed(reg, w))
        BY <3>1, ChargeRegister
      <3> QED BY <2>1, <3>1, <3>2
    <2> QED BY <1>0, <2>1, <2>2, <2>3 DEF deviceVars
  <1>13. ASSUME Draw PROVE Goal
    <2>1. PICK i \in DOMAIN reg, e \in Entries :
              /\ e.tex = reg[i].tex /\ e.up = reg[i].up /\ e.size = reg[i].size
              /\ UNCHANGED <<copies, charged>>
              /\ reg' = [reg EXCEPT ![i] = e]
      BY <1>0, <1>13, Draws
    <2>2. Owned([reg EXCEPT ![i] = e], copies) /\ Charge([reg EXCEPT ![i] = e]) = Charge(reg)
      BY <1>0, <2>1, SameReplaced
    <2> QED BY <1>0, <2>1, <2>2
  <1>10. Goal
    <2> HIDE DEF Goal
    <2> QED BY <1>1, <1>2, <1>4, <1>5, <1>6, <1>7, <1>8, <1>9, <1>11, <1>12, <1>13 DEF CopiesNext
  <1> QED BY <1>0, <1>10 DEF OwnedInv, Owned, Charge, ChargeOf

\* A copy that exists has one owner, and the budget is charged for exactly the copies
\* that exist, as long as no call loses the entry that it holds (texscale.c:202-206, 237;
\* findings 9, 22).  A generation may fail at any of its calls.
THEOREM OwnsCopies ==
    CopiesSpec /\ (Lapses = {}) => []CopiesOwned
  <1>1. CopiesInit => OwnedInv
    <2> SUFFICES ASSUME CopiesInit PROVE OwnedInv
      OBVIOUS
    <2>1. TableInv /\ HeldInv
      BY DEF CopiesInit, TableInv, Table, Apart, HeldInv, Holds
    <2> QED BY <2>1, ChargeEmpty DEF CopiesInit, OwnedInv, Owned
  <1>2. OwnedInv => CopiesOwned
    BY DEF OwnedInv, TableInv, Table, Owned, CopiesOwned, ChargedForCopies
  <1>3. ASSUME Lapses = {} PROVE CopiesSpec => []CopiesOwned
    <2>1. OwnedInv /\ [CopiesNext]_copyVars => OwnedInv'
      BY <1>3, OwnedKept
    <2> QED BY <1>1, <1>2, <2>1, PTL DEF CopiesSpec
  <1> QED BY <1>3
===============================================================================
