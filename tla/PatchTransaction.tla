--------------------------- MODULE PatchTransaction ---------------------------
(***************************************************************************)
(* The patch transaction (src/core/patch.c) and the imports queued in it   *)
(* (src/core/imports.c, hook_import).                                      *)
(*                                                                         *)
(* Every write to the game's code and import table is queued first.        *)
(* patch_commit then checks each place again and makes its pages writable, *)
(* replaces all of them or none, and gives the pages their protection back *)
(* in reverse order.                                                       *)
(*                                                                         *)
(* Memory is a few bytes on a few pages; a byte is the game's, this        *)
(* patch's or another patch's.  A place is [addr, size, code]: code sites  *)
(* must still read as the game shipped them (site_expected), an import     *)
(* slot may already hold another patch's pointer.  Another patch writes    *)
(* only before the commit: install() queues and commits in one call.       *)
(***************************************************************************)
EXTENDS Integers, Sequences

CONSTANTS
    PageSize,      \* bytes in a page
    LastByte,      \* the last byte of memory
    Protections,   \* page protections other than read-write-execute
    OrigProt,      \* each page's protection
    Places,        \* the places install() may queue
    Foreign,       \* the bytes another patch may write
    MaxSize,       \* longest patch (32)
    MaxPatches     \* longest queue (128)

Memory == 0 .. LastByte
PageOf(b) == b \div PageSize
Pages == {PageOf(b) : b \in Memory}
Bytes(p) == p.addr .. p.addr + p.size - 1

ASSUME TransactionConstants ==
    /\ PageSize \in Nat \ {0} /\ LastByte \in Nat
    /\ "rwx" \notin Protections
    /\ OrigProt \in [Pages -> Protections]
    /\ Places \subseteq [addr : Nat, size : Nat \ {0}, code : BOOLEAN]
    /\ \A p \in Places : Bytes(p) \subseteq Memory
    /\ Foreign \subseteq Memory
    /\ MaxSize \in Nat /\ MaxPatches \in Nat

VARIABLES
    mem,     \* whose each byte is
    prot,    \* each page's protection
    stage,   \* "queueing", "protecting", "restoring" or "done"
    queue,   \* g_patches
    before,  \* each queued patch's before: what its place held
    saved,   \* each queued patch's protection: what VirtualProtect reported
    failed,  \* g_patch_failed
    ready,   \* i in patch_commit: patches whose pages are writable
    ok       \* what patch_commit returns

patchVars == <<mem, prot, stage, queue, before, saved, failed, ready, ok>>

PatchInit ==
    /\ mem \in [Memory -> {"game"}] /\ prot = OrigProt
    /\ stage = "queueing"
    /\ queue = <<>> /\ before = <<>> /\ saved = <<>>
    /\ failed = FALSE /\ ready = 0 /\ ok = FALSE
-------------------------------------------------------------------------------
(* Queueing. *)

Held(p) == [b \in Bytes(p) |-> mem[b]]
Overlaps(p, q) == Bytes(p) \cap Bytes(q) # {}

\* patch_memory takes the place.
Fits(p) ==
    /\ p.size <= MaxSize
    /\ Len(queue) < MaxPatches
    /\ \A i \in DOMAIN queue : ~Overlaps(p, queue[i])

\* patch_bytes, for a place that must read as the game shipped it, and
\* hook_import, for one that may hold any pointer but this patch's own.
Queue(p) ==
    /\ stage = "queueing"
    /\ IF Fits(p) /\ (p.code => \A b \in Bytes(p) : mem[b] = "game")
       THEN /\ queue' = Append(queue, p)
            /\ before' = Append(before, Held(p))
            /\ UNCHANGED failed
       ELSE failed' = TRUE /\ UNCHANGED <<queue, before>>
    /\ UNCHANGED <<mem, prot, stage, saved, ready, ok>>

\* Another patch in the process.
OtherWrites(b) ==
    /\ stage = "queueing"
    /\ mem' = [mem EXCEPT ![b] = "other"]
    /\ UNCHANGED <<prot, stage, queue, before, saved, failed, ready, ok>>
-------------------------------------------------------------------------------
(* patch_commit. *)

\* VirtualProtect: every page the place touches gets protection v; what it
\* reports is the protection the first of them had.
PagesOf(p) == {PageOf(b) : b \in Bytes(p)}
FirstPage(p) == PageOf(p.addr)
Protected(p, v) == [g \in Pages |-> IF g \in PagesOf(p) THEN v ELSE prot[g]]

Commit ==
    /\ stage = "queueing"
    /\ stage' = IF failed THEN "done" ELSE "protecting"
    /\ UNCHANGED <<mem, prot, queue, before, saved, failed, ready, ok>>

\* Faulty: what the place holds now is not looked at.
ProtectUnchecked ==
    /\ stage = "protecting" /\ ready < Len(queue)
    /\ LET p == queue[ready + 1]
       IN  /\ saved' = Append(saved, prot[FirstPage(p)])
           /\ prot' = Protected(p, "rwx")
    /\ ready' = ready + 1
    /\ UNCHANGED <<mem, stage, queue, before, failed, ok>>

\* The next patch: its place is as it was queued, and its pages open.
Protect ==
    /\ stage = "protecting" /\ ready < Len(queue)
    /\ LET p == queue[ready + 1]
       IN  /\ Held(p) = before[ready + 1]
           /\ saved' = Append(saved, prot[FirstPage(p)])
           /\ prot' = Protected(p, "rwx")
    /\ ready' = ready + 1
    /\ UNCHANGED <<mem, stage, queue, before, failed, ok>>

\* Faulty: each patch is written as its page is opened.
RefuseHalfWritten ==
    /\ stage = "protecting" /\ ready < Len(queue)
    /\ stage' = "restoring"
    /\ mem' = [b \in Memory |->
                  IF \E i \in 1 .. ready : b \in Bytes(queue[i]) THEN "hfr" ELSE mem[b]]
    /\ UNCHANGED <<prot, queue, before, saved, failed, ready, ok>>

\* The place has changed, or VirtualProtect refuses: no patch is written.
Refuse ==
    /\ stage = "protecting" /\ ready < Len(queue)
    /\ stage' = "restoring"
    /\ UNCHANGED <<mem, prot, queue, before, saved, failed, ready, ok>>

Queued == UNION {Bytes(queue[i]) : i \in DOMAIN queue}

WriteAll ==
    /\ stage = "protecting" /\ ready = Len(queue)
    /\ mem' = [b \in Memory |-> IF b \in Queued THEN "hfr" ELSE mem[b]]
    /\ ok' = TRUE
    /\ stage' = "restoring"
    /\ UNCHANGED <<prot, queue, before, saved, failed, ready>>

\* Faulty: the protections are given back in the order they were taken.
RestoreForward ==
    /\ stage = "restoring" /\ ready > 0
    /\ LET i == Len(saved) - ready + 1 IN prot' = Protected(queue[i], saved[i])
    /\ ready' = ready - 1
    /\ UNCHANGED <<mem, stage, queue, before, saved, failed, ok>>

\* Reverse order: an earlier patch of the same page saved the page's own
\* protection, a later one the protection the earlier one gave it.
Restore ==
    /\ stage = "restoring" /\ ready > 0
    /\ prot' = Protected(queue[ready], saved[ready])
    /\ ready' = ready - 1
    /\ UNCHANGED <<mem, stage, queue, before, saved, failed, ok>>

Return ==
    /\ stage = "restoring" /\ ready = 0
    /\ stage' = "done"
    /\ UNCHANGED <<mem, prot, queue, before, saved, failed, ready, ok>>

PatchNext ==
    \/ \E p \in Places : Queue(p)
    \/ \E b \in Foreign : OtherWrites(b)
    \/ Commit \/ Protect \/ Refuse \/ WriteAll \/ Restore \/ Return

PatchSpec == PatchInit /\ [][PatchNext]_patchVars
-------------------------------------------------------------------------------
(* Properties. *)

PatchTypeOK ==
    /\ mem \in [Memory -> {"game", "hfr", "other"}]
    /\ prot \in [Pages -> Protections \cup {"rwx"}]
    /\ stage \in {"queueing", "protecting", "restoring", "done"}
    /\ queue \in Seq(Places) /\ Len(queue) <= MaxPatches
    /\ Len(before) = Len(queue)
    /\ saved \in Seq(Protections \cup {"rwx"}) /\ Len(saved) <= Len(queue)
    /\ failed \in BOOLEAN /\ ok \in BOOLEAN
    /\ ready \in 0 .. Len(queue)

\* patch.c:2-3: however far the commit got before a place turned out to have
\* changed or a page could not be opened, either every queued place is this
\* patch's or not a byte of the game is.
AllOrNothing ==
    stage # "queueing" =>
        IF ok THEN \A b \in Memory : mem[b] = "hfr" <=> b \in Queued
              ELSE \A b \in Memory : mem[b] # "hfr"

\* A code site is replaced only while it reads as the game shipped it, even if
\* another patch wrote to it after it was queued.
OnlyGameCodeReplaced ==
    [][\A b \in Memory : mem[b] = "other" /\ mem'[b] = "hfr"
          => \E i \in DOMAIN queue :
                ~queue[i].code /\ b \in Bytes(queue[i])]_patchVars

\* patch.c:35, "reverse order matters when two patches occupy the same page":
\* when the transaction is over, successful or not, every page has the
\* protection it started with.
ProtectionsRestored == stage = "done" => prot = OrigProt
===============================================================================
