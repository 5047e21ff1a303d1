------------------------------ MODULE Presentation ----------------------------
(***************************************************************************)
(* Who shows the game's picture (src/backends/d3d9.c, src/core/scaler.c,   *)
(* src/core/window.c, src/ui/overlay.c).                                   *)
(*                                                                         *)
(* The game draws on a target of the patch's own, and at Present that is   *)
(* scaled onto a swap chain of the patch's own, which follows the window   *)
(* without a reset of the device.  With a d3d9.dll of someone else's in    *)
(* the folder the device's own chain is used and reset instead; with a     *)
(* renderer of someone else's the picture is handed over.  Which of these  *)
(* it is depends on the INI, on the dll and on what Direct3D grants.       *)
(*                                                                         *)
(* One thread: window messages, the game's calls into Direct3D and its     *)
(* frames follow one another.  A size is an element of a small set; a      *)
(* filter's passes and what they draw are left out.                        *)
(***************************************************************************)
EXTENDS Integers, FiniteSets

CONSTANTS
    Native,     \* the size the game believes it renders at
    Sizes,      \* sizes of the window's client area; 0 is none
    Faults      \* what may fail: "chain" (CreateAdditionalSwapChain), "target"
                \* (the game's render target), "reset", "ex" (the device is not 9Ex)

ASSUME PresentationConstants ==
    /\ Native \in Sizes /\ Sizes \subseteq Nat \ {0}
    /\ Faults \subseteq {"chain", "target", "reset", "ex"}

VARIABLES
    conf,       \* the INI and the d3d9.dll in the folder
    mode,       \* what was decided from them: g_want_own_present, cfg.d3d9ex,
                \* g_external, and whether g_wrapper_path is set
    usingEx,    \* g_using_ex
    made,       \* "nothing", the Direct3D "object", the "device"
    chain,      \* size of the device's own chain
    scaler,     \* whose back buffer g_real_bb is, g_out_w/h, g_scaler_ok,
                \* g_scaler_enabled, and what the game draws on
    window,     \* client size, g_minimized, g_in_sizemove, g_resize_pending
    chainDue,   \* g_pending_chain
    lost,       \* history: a reset has destroyed the game's textures
    shown       \* history: what the last Present showed

vars == <<conf, mode, usingEx, made, chain, scaler, window, chainDue, lost, shown>>

Wrappers == {"none", "THRotator", "places", "composes"}
Confs == [ex : BOOLEAN, flip : BOOLEAN, own : {-1, 0, 1}, ext : {-1, 0, 1},
          wrapper : Wrappers, pp : BOOLEAN]

TypeOK ==
    /\ conf \in Confs
    /\ mode \in [want : BOOLEAN, ex : BOOLEAN, external : BOOLEAN, wrapped : BOOLEAN]
    /\ usingEx \in BOOLEAN /\ made \in {"nothing", "object", "device"}
    /\ chain \in Sizes \cup {0}
    /\ scaler \in [bb : {"none", "own", "device"}, out : Sizes \cup {0}, ok : BOOLEAN,
                   enabled : BOOLEAN, draws : {"target", "device"}]
    /\ window \in [client : Sizes \cup {0}, minimized : BOOLEAN, moving : BOOLEAN,
                   pending : BOOLEAN]
    /\ chainDue \in BOOLEAN /\ lost \in BOOLEAN /\ shown \in {"none", "picture", "stale"}

Init ==
    /\ conf \in Confs
    /\ mode = [want |-> TRUE, ex |-> conf.ex, external |-> FALSE, wrapped |-> FALSE]
    /\ usingEx = FALSE /\ made = "nothing" /\ chain = 0
    /\ scaler = [bb |-> "none", out |-> 0, ok |-> FALSE, enabled |-> TRUE, draws |-> "device"]
    /\ window = [client |-> Native, minimized |-> FALSE, moving |-> FALSE, pending |-> FALSE]
    /\ chainDue = FALSE /\ lost = FALSE /\ shown = "none"
-------------------------------------------------------------------------------
(* Who presents. *)

EnterExternal(m) == [m EXCEPT !.external = TRUE, !.want = FALSE, !.ex = FALSE]

\* Faulty: 9Ex stays with the device's own chain.
DeviceChainKeepingEx(m) == [m EXCEPT !.want = FALSE]

\* A chain that follows the window by resets must not lose textures to them.
DeviceChain(m) == [m EXCEPT !.want = FALSE, !.ex = FALSE]

\* detect_d3d9_wrapper
Detect(m) ==
    IF conf.ext = 1 THEN EnterExternal(m)
    ELSE IF conf.flip THEN [m EXCEPT !.want = FALSE]
    ELSE IF conf.own = 1 THEN [m EXCEPT !.want = TRUE]
    ELSE IF conf.own = 0 THEN DeviceChain(m)
    ELSE IF conf.wrapper = "none" THEN m
    ELSE IF conf.wrapper = "THRotator" /\ conf.ext # 0 THEN EnterExternal([m EXCEPT !.wrapped = TRUE])
    ELSE DeviceChain([m EXCEPT !.wrapped = TRUE])


\* external_detect_substitution: the device and its chain name different surfaces.
Substitutes == conf.wrapper \in {"THRotator", "composes"}

\* hook_CreateDevice
HandOver(m) ==
    IF m.wrapped /\ ~m.external /\ conf.ext # 0 /\ Substitutes
    THEN EnterExternal(m) ELSE m
-------------------------------------------------------------------------------
(* The chain and the game's target: the values a call may leave in scaler. *)

Released(s) == [s EXCEPT !.bb = "none", !.out = 0]

\* scaler_set_output: the old chain goes first, whatever comes of the new one.
SetOutput(m, s, w) ==
    IF ~m.want THEN {Released(s)}
    ELSE {[s EXCEPT !.bb = "own", !.out = w]} \cup {Released(s) : f \in {"chain"} \cap Faults}

ClientOr(w) == IF window.client > 0 THEN window.client ELSE w

\* scaler_adjust_pp: the size the device's own chain is given.
AdjustPp(m) ==
    IF m.external \/ ~scaler.enabled \/ m.want THEN Native ELSE ClientOr(Native)

\* The device's own chain, when there is none of ours: as large as was asked.
OrDevice(s, used) == IF s.bb = "own" THEN s ELSE [s EXCEPT !.bb = "device", !.out = used]

\* scaler_release
ReleasedAll(s) == [Released(s) EXCEPT !.ok = FALSE]

\* external_create: the size of what the other renderer presents.
ExternalCreate(s, used) == [s EXCEPT !.out = used]

\* scaler_create
ScalerCreate(m, s, used) ==
    LET r == ReleasedAll(s) IN
    IF m.external THEN {ExternalCreate(r, used)}
    ELSE IF ~s.enabled THEN {r}
    ELSE {[OrDevice(o, used) EXCEPT !.ok = TRUE, !.draws = "target"] :
              o \in SetOutput(m, r, ClientOr(Native))}
         \cup {[r EXCEPT !.enabled = FALSE] : f \in {"target"} \cap Faults}
-------------------------------------------------------------------------------
(* The game's calls. *)

\* hook_Direct3DCreate9: TH08 makes its objects a second time.
Direct3DCreate9 ==
    /\ mode' = Detect(mode)
    /\ usingEx' = (usingEx \/ mode'.ex)
    /\ made' = "object"
    /\ UNCHANGED <<conf, chain, scaler, window, chainDue, lost, shown>>

\* hook_CreateDevice: a new device, into which the game loads its textures.
CreateDevice ==
    /\ made # "nothing"
    /\ made' = "device" /\ chain' = AdjustPp(mode)
    /\ usingEx' \in {usingEx} \cup {FALSE : f \in {"ex"} \cap Faults}
    /\ mode' = HandOver(mode)
    /\ scaler' \in ScalerCreate(mode', [scaler EXCEPT !.draws = "device"], chain')
    /\ lost' = FALSE /\ shown' = "none"
    /\ UNCHANGED <<conf, window, chainDue>>

\* hook_Reset, through a chain of ours: nothing is reset.
AnswersReset == scaler.bb = "own"

\* Faulty: the target is not made again.
ResetFailedReleased(s) == {ReleasedAll(s)}

\* hook_Reset, refused: the chain has its size still, the target is gone.
ResetFailed(s) == ScalerCreate(mode, s, chain)

\* hook_Reset of the device: with 9Ex the game's textures do not survive.
DeviceReset(s) ==
    \/ /\ chain' = AdjustPp(mode) /\ lost' = (lost \/ usingEx)
       /\ scaler' \in ScalerCreate(mode, [s EXCEPT !.draws = "device"], chain')
    \/ /\ "reset" \in Faults /\ scaler' \in ResetFailed(s) /\ UNCHANGED <<chain, lost>>

GameReset ==
    /\ made = "device"
    /\ IF AnswersReset
       THEN /\ scaler' \in IF window.client \in {0, scaler.out} THEN {scaler}
                           ELSE SetOutput(mode, scaler, window.client)
            /\ UNCHANGED <<chain, lost>>
       ELSE DeviceReset(scaler)
    /\ UNCHANGED <<conf, mode, usingEx, made, window, chainDue, shown>>
-------------------------------------------------------------------------------
(* Window messages (hfr_wndproc) and the menu's vsync switch. *)

Attached == made = "device"
Arranged == Attached /\ ~mode.external

MessageOnly == UNCHANGED <<conf, mode, usingEx, made, chain, scaler, chainDue, lost, shown>>

\* WM_SIZE: a size inside a drag waits for the drag's end.
SizePending(w) == window.pending \/ (Arranged /\ ~window.moving)

Resize(w) ==
    /\ w # window.client
    /\ window' = [window EXCEPT !.client = w, !.minimized = FALSE, !.pending = SizePending(w)]
    /\ MessageOnly

Minimize ==
    /\ ~window.moving
    /\ window' = [window EXCEPT !.client = 0, !.minimized = Attached]
    /\ MessageOnly

EnterSizeMove ==
    /\ Arranged /\ ~window.minimized
    /\ window' = [window EXCEPT !.moving = TRUE]
    /\ MessageOnly

\* Faulty: the sizes seen while dragging are forgotten.
DragEnd(win) == [win EXCEPT !.moving = FALSE]

\* WM_EXITSIZEMOVE
DragEnds(win) == [win EXCEPT !.moving = FALSE, !.pending = TRUE]

ExitSizeMove ==
    /\ window.moving
    /\ window' = DragEnds(window)
    /\ MessageOnly

SetVSync ==
    /\ Attached /\ chainDue' = TRUE
    /\ UNCHANGED <<conf, mode, usingEx, made, chain, scaler, window, lost, shown>>
-------------------------------------------------------------------------------
(* A frame: housekeeping, the game's drawing, Present. *)

\* hfr_ui_apply_pending: a chain of ours is made again with the new vsync.
VSyncApplied ==
    IF chainDue /\ scaler.bb = "own" THEN SetOutput(mode, scaler, scaler.out) ELSE {scaler}

\* scaler_blit: the target is scaled onto the back buffer.
Blits(s) == s.ok /\ s.bb # "none" /\ s.out > 0

\* hook_Present_inner: what reaches the chain that is shown.
Shows(s) == IF Blits(s) \/ (s.bb # "own" /\ s.draws = "device") THEN "picture" ELSE "stale"

ResizeWanted(s) == window.pending /\ ~window.moving /\ s.ok

Skipped(s) ==
    /\ window.minimized \/ (ResizeWanted(s) /\ window.client = 0)
    /\ scaler' = s /\ UNCHANGED <<chain, window, lost, shown>>

\* window_pump leaves the chain as it is: no size to follow, or no way to.
Unresized(s) ==
    /\ ~window.minimized
    /\ ResizeWanted(s) => /\ window.client > 0
                          /\ window.client = s.out \/ (s.bb # "own" /\ ~conf.pp)
    /\ window' = [window EXCEPT !.pending = @ /\ ~ResizeWanted(s)]
    /\ scaler' = s /\ shown' = Shows(s) /\ UNCHANGED <<chain, lost>>

Follows(s) == ~window.minimized /\ ResizeWanted(s) /\ window.client \notin {0, s.out}

\* The frame is skipped if the chain cannot be made.
ResizedOwn(s) ==
    /\ Follows(s) /\ s.bb = "own"
    /\ scaler' \in SetOutput(mode, s, window.client)
    /\ shown' = IF scaler'.bb = "own" THEN Shows(scaler') ELSE shown
    /\ window' = [window EXCEPT !.pending = FALSE] /\ UNCHANGED <<chain, lost>>

\* ... or the device not reset.
ResizedDevice(s) ==
    /\ Follows(s) /\ s.bb # "own" /\ conf.pp
    /\ DeviceReset(s)
    /\ shown' \in {shown, Shows(scaler')}
    /\ window' = [window EXCEPT !.pending = FALSE]

Frame ==
    /\ made = "device"
    /\ \E s \in VSyncApplied : Skipped(s) \/ Unresized(s) \/ ResizedOwn(s) \/ ResizedDevice(s)
    /\ chainDue' = FALSE
    /\ UNCHANGED <<conf, mode, usingEx, made>>

Next ==
    \/ Direct3DCreate9 \/ CreateDevice \/ GameReset
    \/ \E w \in Sizes : Resize(w)
    \/ Minimize \/ EnterSizeMove \/ ExitSizeMove \/ SetVSync
    \/ Frame

\* The game's loop goes on calling hfr_frame.
Spec == Init /\ [][Next]_vars /\ WF_vars(Frame)
-------------------------------------------------------------------------------
(* Properties. *)

\* Nothing the game owns is lost to a reset (scaler.c:168-178 and d3d9.c:308-312):
\* with 9Ex, whose resets destroy textures, the device is not reset, by the game
\* or by a resize.  The flip model, an experiment of the INI, is exempt, and so is
\* a device on which the patch could not have a target and left scaling alone.
TexturesKept == lost => conf.flip \/ ~scaler.enabled

\* What the game draws is what the presented chain shows, through every order of
\* creation, resize, reset and switch of vsync (scaler_blit, hook_Present_inner).
PictureShown == shown = "stale" => ~scaler.enabled

\* A chain of ours reaches the size of the window, however it was resized: in a
\* drag, from the taskbar, or by the game's own reset (window.c:151-160, 395-401).
SizeFollows ==
    (scaler.bb = "own" /\ scaler.out # window.client)
    ~> (scaler.out = window.client \/ scaler.bb # "own" \/ made # "device"
        \/ window.client = 0 \/ window.moving)
===============================================================================
