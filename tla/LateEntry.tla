------------------------------ MODULE LateEntry -------------------------------
(***************************************************************************)
(* Installation and the late entry point (src/core/entry.c,                *)
(* src/core/imports.c, install() in src/core/install.c).                   *)
(*                                                                         *)
(* DllMain installs, if the executable can be identified, and redirects    *)
(* the game's import of QueryPerformanceCounter to late_entry.  Between    *)
(* DllMain and the game's own code a wrapper may decrypt the executable    *)
(* and other patches may take the game's imports without chaining to what  *)
(* they replace.  late_entry, called by any thread that reads the clock,   *)
(* installs if that is still to be done and takes the imports back, until  *)
(* the game draws or it has been called MaxCalls times.                    *)
(*                                                                         *)
(* install() is two steps here: it queues (the hooks are registered and    *)
(* chained to what the slots hold) and it commits, all or nothing          *)
(* (PatchTransaction.tla).  VirtualProtect is assumed not to refuse the    *)
(* single writes of iat_write, and the game to import the clock.           *)
(***************************************************************************)
EXTENDS Integers, FiniteSets

CONSTANTS
    Imports,    \* the imports hook_import takes (at most 16)
    Main,       \* the game's main thread
    Workers,    \* threads the game's own code starts
    Executables,\* the kinds of executable: "plain", "wrapped", "unknown"
    MaxCalls    \* fruitless calls before late_entry gives up (20000)

Threads == {Main} \cup Workers

ASSUME EntryConstants ==
    /\ IsFiniteSet(Imports) /\ IsFiniteSet(Workers) /\ Main \notin Workers
    /\ Executables \subseteq {"plain", "wrapped", "unknown"}
    /\ MaxCalls \in Nat

VARIABLES
    phase,      \* where the process is: "loading", "entry", "running", "asked"
                \* (for Direct3D) or "drawing"
    code,       \* "plain": the executable reads as shipped; "wrapped", "unknown"
    slot,       \* who each import slot calls: "real", "hfr" or "other"
    chain,      \* what each hook calls (*orig): "none", "real" or "other"
    hooked,     \* g_hooked
    game,       \* g_game # NULL
    installed,  \* install() has returned: "no", "yes" or "failed"
    armed,      \* the game's clock import is late_entry
    busy, done, calls,  \* late_entry's statics
    pc,         \* each thread: "game", or where in late_entry it is
    called,     \* history: the game's code has read the clock
    taken       \* history: imports another patch has taken

procVars == <<phase, code, called>>
importVars == <<slot, chain, hooked, taken>>
entryVars == <<armed, busy, done, calls>>
vars == <<procVars, importVars, game, installed, entryVars, pc>>

Init ==
    /\ phase = "loading" /\ code \in Executables /\ called = FALSE
    /\ slot = [i \in Imports |-> "real"] /\ chain = [i \in Imports |-> "none"]
    /\ hooked = {} /\ taken = {}
    /\ game = FALSE /\ installed = "no"
    /\ armed = FALSE /\ busy = FALSE /\ done = FALSE /\ calls = 0
    /\ pc = [t \in Threads |-> "game"]

\* Faulty: the imports are taken to be safe once the patch is installed.
FrameSeenOnInstall == installed = "yes"

\* g_frame_seen: the frame hook has run.
FrameSeen == phase = "drawing" /\ installed = "yes"
-------------------------------------------------------------------------------
(* install() and reassert_imports(). *)

\* hook_import, for every import the patch takes.
RegisterHooks == hooked' = Imports /\ chain' = slot

\* The commit: none is written if one has changed since it was queued.
HooksWritten == slot' = [i \in Imports |-> "hfr"]
\* Faulty: the commit does not look.
AsItWere == TRUE

AsQueued == slot = chain

\* Take back what another patch has taken, and chain to it.
ReassertImports ==
    /\ slot' = [i \in Imports |-> IF i \in hooked THEN "hfr" ELSE slot[i]]
    /\ chain' = [i \in Imports |-> IF i \in hooked /\ slot[i] # "hfr" THEN slot[i]
                                                                     ELSE chain[i]]

\* DllMain, under the loader lock.
DllMain ==
    /\ phase = "loading" /\ phase' = "entry"
    /\ armed' = TRUE
    /\ game' = (code = "plain")
    /\ \/ /\ game' /\ RegisterHooks
          /\ \/ HooksWritten /\ installed' = "yes"
             \/ installed' = "failed" /\ UNCHANGED slot
       \/ game' /\ installed' = "failed" /\ UNCHANGED <<slot, chain, hooked>>
       \/ ~game' /\ UNCHANGED <<slot, chain, hooked, installed>>
    /\ UNCHANGED <<code, called, taken, busy, done, calls, pc>>
-------------------------------------------------------------------------------
(* late_entry, one thread at a time past Claim. *)

To(t, label) == pc' = [pc EXCEPT ![t] = label]

\* Back to the game, which has then read the clock.
Leave(t) == To(t, "game") /\ called' = (called \/ (t = Main /\ phase = "running"))

Runs(t) == phase \in {"running", "asked", "drawing"} \/ (t = Main /\ phase = "entry")

Call(t) ==
    /\ pc[t] = "game" /\ Runs(t) /\ armed
    /\ To(t, "entered")
    /\ UNCHANGED <<procVars, importVars, game, installed, entryVars>>

CheckDone(t) ==
    /\ pc[t] = "entered"
    /\ IF done THEN Leave(t) ELSE To(t, "claiming") /\ UNCHANGED called
    /\ UNCHANGED <<phase, code, importVars, game, installed, entryVars>>

\* Faulty: the work is not exclusive.
ClaimAlways(t) ==
    /\ pc[t] = "claiming"
    /\ busy' = TRUE
    /\ To(t, "working")
    /\ UNCHANGED <<procVars, importVars, game, installed, armed, done, calls>>

\* InterlockedCompareExchange(&busy, 1, 0)
Claim(t) ==
    /\ pc[t] = "claiming"
    /\ busy' = TRUE
    /\ IF busy THEN Leave(t) ELSE To(t, "working") /\ UNCHANGED called
    /\ UNCHANGED <<phase, code, importVars, game, installed, armed, done, calls>>

\* select_game: still ciphertext, or not a game this patch knows.
Identify(t) ==
    /\ pc[t] = "working" /\ ~game
    /\ game' = (code = "plain")
    /\ To(t, IF game' THEN "installing" ELSE "fruitless")
    /\ UNCHANGED <<procVars, importVars, installed, entryVars>>

\* install() gives up before it queues an import, or queues them all.
InstallQueue(t) ==
    /\ pc[t] = "installing"
    /\ \/ /\ RegisterHooks
          /\ To(t, "committing") /\ UNCHANGED installed
       \/ /\ installed' = "failed"
          /\ To(t, "over") /\ UNCHANGED <<chain, hooked>>
    /\ UNCHANGED <<procVars, slot, taken, game, entryVars>>

\* Faulty: once it has installed there is nothing left to do.
InstallCommitIsLast(t) ==
    /\ pc[t] = "committing"
    /\ \/ AsQueued /\ HooksWritten /\ installed' = "yes"
       \/ installed' = "failed" /\ UNCHANGED slot
    /\ To(t, "over")
    /\ UNCHANGED <<procVars, chain, hooked, taken, game, entryVars>>

\* After success the stub stays armed: imports can still be taken.
InstallCommit(t) ==
    /\ pc[t] = "committing"
    /\ \/ /\ AsQueued /\ HooksWritten
          /\ installed' = "yes" /\ To(t, "fruitless")
       \/ /\ installed' = "failed" /\ UNCHANGED slot
          /\ To(t, "over")
    /\ UNCHANGED <<procVars, chain, hooked, taken, game, entryVars>>

Reassert(t) ==
    /\ pc[t] = "working" /\ game
    /\ ReassertImports
    /\ To(t, "reasserted")
    /\ UNCHANGED <<procVars, hooked, taken, game, installed, entryVars>>

\* Faulty: fruitless calls are not counted.
FinishUncounted(t) ==
    LET nothingLeft == pc[t] = "over" \/ (pc[t] = "reasserted" /\ FrameSeen)
    IN  /\ pc[t] \in {"over", "fruitless", "reasserted"}
        /\ IF nothingLeft
           THEN done' = TRUE /\ armed' = FALSE
           ELSE UNCHANGED <<done, armed>>
        /\ To(t, "releasing")
        /\ UNCHANGED <<procVars, importVars, game, installed, busy, calls>>

\* late_entry_work has returned; "over" and a drawing game are non-zero.
Finish(t) ==
    LET nothingLeft == pc[t] = "over" \/ (pc[t] = "reasserted" /\ FrameSeen)
    IN  /\ pc[t] \in {"over", "fruitless", "reasserted"}
        /\ calls' = IF nothingLeft THEN calls ELSE calls + 1
        /\ IF nothingLeft \/ calls' > MaxCalls
           THEN done' = TRUE /\ armed' = FALSE
           ELSE UNCHANGED <<done, armed>>
        /\ To(t, "releasing")
        /\ UNCHANGED <<procVars, importVars, game, installed, busy>>

Release(t) ==
    /\ pc[t] = "releasing"
    /\ busy' = FALSE
    /\ Leave(t)
    /\ UNCHANGED <<phase, code, importVars, game, installed, armed, done, calls>>

Inside(t) ==
    \/ CheckDone(t) \/ Claim(t) \/ Identify(t) \/ InstallQueue(t)
    \/ InstallCommit(t) \/ Reassert(t) \/ Finish(t) \/ Release(t)
-------------------------------------------------------------------------------
(* The process around it. *)

Decrypt ==
    /\ phase = "entry" /\ code = "wrapped" /\ pc[Main] = "game"
    /\ code' = "plain"
    /\ UNCHANGED <<phase, called, importVars, game, installed, entryVars, pc>>

\* Another patch replaces an import, and does not chain to what it held.
OtherTakes(i) ==
    /\ phase = "entry" /\ slot[i] # "other"
    /\ slot' = [slot EXCEPT ![i] = "other"] /\ taken' = taken \cup {i}
    /\ UNCHANGED <<procVars, chain, hooked, game, installed, entryVars, pc>>

\* The main thread goes on: to the game's code, to Direct3D (the games read
\* the clock before that, entry.c:100-101), to the first frame.
Goes(from, to) ==
    /\ phase = from /\ phase' = to /\ pc[Main] = "game"
    /\ UNCHANGED <<code, called, importVars, game, installed, entryVars, pc>>

EnterGame == code # "wrapped" /\ Goes("entry", "running")
AskDirect3D == (called \/ ~armed) /\ Goes("running", "asked")
Draw == Goes("asked", "drawing")

Next ==
    \/ DllMain
    \/ \E t \in Threads : Call(t) \/ Inside(t)
    \/ Decrypt \/ EnterGame \/ AskDirect3D \/ Draw
    \/ \E i \in Imports : OtherTakes(i)

Spec == Init /\ [][Next]_vars

\* Threads run, and the main thread goes on reading the clock.
FairSpec ==
    /\ Spec
    /\ WF_vars(Call(Main))
    /\ \A t \in Threads : WF_vars(Inside(t))
-------------------------------------------------------------------------------
(* Properties. *)

TypeOK ==
    /\ phase \in {"loading", "entry", "running", "asked", "drawing"}
    /\ code \in {"plain", "wrapped", "unknown"}
    /\ slot \in [Imports -> {"real", "hfr", "other"}]
    /\ chain \in [Imports -> {"none", "real", "other"}]
    /\ hooked \subseteq Imports /\ taken \subseteq Imports
    /\ {called, game, armed, busy, done} \subseteq BOOLEAN
    /\ installed \in {"no", "yes", "failed"}
    /\ calls \in 0 .. MaxCalls + Cardinality(Threads)
    /\ pc \in [Threads -> {"game", "entered", "claiming", "working", "installing",
                           "committing", "reasserted", "over", "fruitless",
                           "releasing"}]

\* imports.c:15-20 and 84-86: an import another patch has taken goes on calling
\* that patch, from its slot or from inside this patch's hook, although several
\* threads install and reassert and the other patch does not wait for them.
OthersStayCalled ==
    \A i \in taken :
        slot[i] = "other" \/ (slot[i] = "hfr" /\ chain[i] = "other")

\* entry.c:134-135, "the work is not re-entrant": no thread puts a hook in
\* the game's imports while another is still installing.
HooksFollowCommit == installed = "no" => \A i \in Imports : slot[i] # "hfr"

\* entry.c:110-111: when late_entry stands down because the game draws, every
\* import is this patch's again.
StandsDownHolding ==
    done /\ installed = "yes" /\ calls <= MaxCalls
        => \A i \in Imports : slot[i] = "hfr"

\* entry.c:86-87: whatever was taken in between, and whichever thread did the
\* work, the game asks for Direct3D through this patch's hooks -- unless the
\* main thread was turned away by a thread that is at that moment at work.
HookedForDirect3D ==
    [][AskDirect3D /\ installed = "yes" /\ calls <= MaxCalls /\ ~busy
          => \A i \in Imports : slot[i] = "hfr"]_vars

\* entry.c:110-112: the clock is given back to the game in the end, whether it
\* was identified, failed to install or never will be.
ClockGivenBack == armed ~> ~armed

\* imports.c:66-69, "a failure anywhere leaves the game untouched", and
\* install.c:336, "no code/import hooks applied".
FailureLeavesUntouched ==
    installed = "failed" => \A i \in Imports : slot[i] # "hfr"
===============================================================================
