------------------------------- MODULE MenuInput -------------------------------
(***************************************************************************)
(* The keys of the in-game menu: the key that opens it, watched by message *)
(* and by polling (src/ui/menu_key.h, window.c's poll_menu_key, menu.cpp's *)
(* window procedure), and the keys typed into it, held back from the game  *)
(* (src/ui/typing_block.h, core/typing_block.c).                           *)
(*                                                                         *)
(* The game's loop, over and over: it gives the window the messages that   *)
(* are waiting, the frame hook polls the menu key, the game reads its      *)
(* keyboard, and the menu is drawn.  Keys and focus change at any moment   *)
(* between.  DirectInput may keep every key message from the window, and a *)
(* key-up may be lost.                                                     *)
(***************************************************************************)
EXTENDS Integers, Sequences

CONSTANTS
    Routes,     \* how the game may read its keyboard: "dik", "vk"
    LateRepeats,\* whether a held key's message may be repeated between the messages
                \* and the poll of one round
    StalePolls, \* MENU_KEY_STALE_POLLS
    MaxQueue    \* bounds the messages waiting and the presses not answered

ASSUME KeyConstants ==
    Routes # {} /\ LateRepeats \in BOOLEAN /\ StalePolls \in Nat \ {0} /\ MaxQueue \in Nat \ {0}

VARIABLES
    phase,      \* "pump", "poll", "read", "draw"
    posted,     \* the window is sent the key's messages
    hw,         \* the menu key is down
    focus,      \* the game's window has the keyboard
    queue,      \* messages waiting: "down", "up", "kill"
    level, msgDown, msgTapped, stale,   \* g_menu_key
    visible,    \* g_visible
    typing,     \* g_typing: a text field had the keyboard when last drawn
    typed,      \* another key, one that is typed, is down
    heldBack,   \* held_back of that key, in the table of each route
    seen,       \* the game's last read had it down
    owed,       \* history: presses that have not toggled the menu
    sent,       \* history: a press was posted that no poll has answered
    doubled,    \* history: the menu was toggled without a press
    missed,     \* history: a press came to a poll and went unanswered
    blocked,    \* history: the game's last read was refused
    intoField   \* history: the typed key went down in a field so read

keyVars == <<phase, posted, hw, focus, queue, level, msgDown, msgTapped, stale, visible, typing,
          typed, heldBack, seen, owed, sent, doubled, missed, blocked, intoField>>

menuKey == <<level, msgDown, msgTapped, stale>>
typedKey == <<typing, typed, heldBack, seen, blocked, intoField>>
past == <<owed, sent, doubled, missed>>

KeysInit ==
    /\ phase = "pump" /\ posted \in BOOLEAN /\ hw = FALSE /\ focus = TRUE /\ queue = <<>>
    /\ level = FALSE /\ msgDown = FALSE /\ msgTapped = FALSE /\ stale = 0
    /\ visible = FALSE /\ typing = FALSE /\ typed = FALSE
    /\ heldBack = [r \in Routes |-> FALSE] /\ seen = FALSE
    /\ owed = 0 /\ sent = FALSE /\ doubled = FALSE /\ missed = FALSE
    /\ blocked = FALSE /\ intoField = FALSE
-------------------------------------------------------------------------------
(* The keyboard. *)

\* hfr_menu_typing
Typing == visible /\ typing

Waiting == Len(queue) < MaxQueue

Posts(m) ==
    IF posted /\ focus THEN Waiting /\ queue' = Append(queue, m) ELSE UNCHANGED queue

Press ==
    /\ ~hw /\ hw' = TRUE /\ Posts("down")
    /\ owed < MaxQueue /\ owed' = owed + (IF focus THEN 1 ELSE 0)
    /\ sent' = (sent \/ (posted /\ focus))
    /\ UNCHANGED <<phase, posted, focus, menuKey, visible, typedKey, doubled, missed>>

\* Windows repeats the message of a key that is held.
Repeat ==
    /\ hw /\ posted /\ focus /\ (phase = "poll" => LateRepeats) /\ Posts("down")
    /\ UNCHANGED <<phase, posted, hw, focus, menuKey, visible, typedKey, past>>

Release ==
    /\ hw /\ hw' = FALSE /\ (Posts("up") \/ UNCHANGED queue)
    /\ UNCHANGED <<phase, posted, focus, menuKey, visible, typedKey, past>>

LoseFocus ==
    /\ focus /\ Waiting /\ focus' = FALSE /\ queue' = Append(queue, "kill")
    /\ UNCHANGED <<phase, posted, hw, menuKey, visible, typedKey, past>>

\* A key held as the focus comes back is pressed anew, if a poll saw it gone.
GainFocus ==
    /\ ~focus /\ queue = <<>> /\ focus' = TRUE
    /\ owed' = IF hw /\ ~level /\ owed = 0 THEN 1 ELSE owed
    /\ UNCHANGED <<phase, posted, hw, queue, menuKey, visible, typedKey, sent, doubled, missed>>

TypeKey ==
    /\ focus /\ typed' = ~typed
    /\ intoField' = (IF typed THEN FALSE ELSE Typing /\ blocked)
    /\ UNCHANGED <<phase, posted, hw, focus, queue, menuKey, visible, typing, heldBack, seen, blocked, past>>
-------------------------------------------------------------------------------
(* The menu key. *)

\* hfr_menu_key_down
KeyDown(down) ==
    msgDown' = down /\ msgTapped' = (msgTapped \/ down)

\* hfr_menu_wndproc
Deliver ==
    /\ phase = "pump" /\ queue # <<>> /\ queue' = Tail(queue)
    /\ KeyDown(Head(queue) = "down")
    /\ UNCHANGED <<phase, posted, hw, focus, level, stale, visible, typedKey, past>>

Pumped ==
    /\ phase = "pump" /\ queue = <<>> /\ phase' = "poll"
    /\ UNCHANGED <<posted, hw, focus, queue, menuKey, visible, typedKey, past>>

\* msg_down has outlived the hardware.
Outlived == stale + 1 >= StalePolls

MsgDownNow == focus /\ msgDown /\ ~(~hw /\ Outlived)

\* Faulty: the message of a press already counted counts again.
TappedAlways(down) == msgTapped /\ focus

\* A whole press between two polls.
Tapped(down) == ~down /\ ~level /\ msgTapped /\ focus

\* menu_key_press
Presses(down) == (down /\ ~level) \/ Tapped(down)

\* The poll has a press to answer: the key is down, or was, and was up before.
Due == focus /\ ~level /\ queue = <<>> /\ (hw \/ sent)

\* A press that the poll does not answer may still be reported.
Reported == \E i \in DOMAIN queue : queue[i] = "down"

\* window_pump: poll_menu_key, hfr_menu_toggle.
Poll ==
    LET down == focus /\ (MsgDownNow \/ hw)
        left == IF Presses(down) /\ owed > 0 THEN owed - 1 ELSE owed
    IN
    /\ phase = "poll" /\ phase' = "read"
    /\ msgDown' = MsgDownNow /\ msgTapped' = FALSE /\ level' = down
    /\ stale' = IF focus /\ msgDown /\ ~hw /\ ~Outlived THEN stale + 1 ELSE 0
    /\ visible' = IF Presses(down) THEN ~visible ELSE visible
    /\ owed' = IF Reported THEN left ELSE 0
    /\ sent' = (sent /\ Reported)
    /\ doubled' = (Presses(down) /\ owed = 0)
    /\ missed' = (Due /\ ~Presses(down))
    /\ UNCHANGED <<posted, hw, focus, queue, typedKey>>
-------------------------------------------------------------------------------
(* The typed keys. *)

\* Faulty: only the keys that are down are held back.
HeldIfDown(r) == IF Typing THEN typed ELSE heldBack[r] /\ typed

\* typing_block_key
HeldNow(r) == IF Typing THEN TRUE ELSE heldBack[r] /\ typed

Sees(r) == typed /\ ~Typing /\ ~heldBack[r]

\* hook_GetKeyboardState, hook_di_get_device_state.
Read(r) ==
    /\ phase = "read" /\ phase' = "draw"
    /\ heldBack' = [heldBack EXCEPT ![r] = HeldNow(r)] /\ seen' = Sees(r)
    /\ blocked' = Typing
    /\ UNCHANGED <<posted, hw, focus, queue, menuKey, visible, typing, typed, intoField, past>>

\* hfr_menu_render: a field takes the keyboard or gives it back; a closed menu
\* is not drawn, unless there is a note to show.
DrawMenu ==
    /\ phase = "draw" /\ phase' = "pump"
    /\ typing' \in IF visible THEN BOOLEAN ELSE {typing, FALSE}
    /\ UNCHANGED <<posted, hw, focus, queue, menuKey, visible, typed, heldBack, seen, blocked, intoField, past>>

Loop == Deliver \/ Pumped \/ Poll \/ (\E r \in Routes : Read(r)) \/ DrawMenu

KeysNext ==
    \/ Press \/ Repeat \/ Release \/ LoseFocus \/ GainFocus \/ TypeKey
    \/ Loop

KeysSpec == KeysInit /\ [][KeysNext]_keyVars
-------------------------------------------------------------------------------
(* Properties. *)

\* A press of the menu key toggles the menu once: never again, when both ways of
\* watching it report it, however late the messages come, and not never, when
\* it began and ended between two polls (menu_key.h:2-13, 27-43).
OnePressOneToggle == ~doubled /\ ~missed

\* What is typed into a field of the menu never reaches the game: a key pressed
\* while the field had the keyboard is not read as down, whether it, the menu
\* key or the loss of the focus ended the typing (typing_block.h:2-13).
TypedStaysInMenu == seen => ~intoField
===============================================================================
