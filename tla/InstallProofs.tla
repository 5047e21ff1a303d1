------------------------------ MODULE InstallProofs ----------------------------
(***************************************************************************)
(* Proofs about how the patch gets into the game: the transaction that     *)
(* writes it (PatchTransaction), for every memory, page size, set of       *)
(* places and queue, and the entry that installs it late and takes its     *)
(* imports back (LateEntry), for every number of threads and imports,      *)
(* every kind of executable and every limit on the calls.                  *)
(*                                                                         *)
(* What is true of the end of a transaction rests on what its steps leave  *)
(* for each other: until WriteAll nothing is written (Outcome); what the   *)
(* loop has checked still holds when it writes, since it is the only       *)
(* writer by then (Checked); and the first `ready` patches are exactly     *)
(* those whose pages are open, each with the protection saved that its     *)
(* page had when its turn came (Opened).                                   *)
(*                                                                         *)
(* One thread at a time is past `busy` (Exclusive).  So while a thread     *)
(* installs, no other can reach reassert_imports, which would write hooks  *)
(* that are registered and not committed (Installing), so a hook is never  *)
(* chained to itself (OthersStayCalled).  Once the game runs nobody takes  *)
(* an import any more, so that what a pass has taken back stays (Holding), *)
(* and the main thread cannot have read the clock without a pass having    *)
(* been made, or a thread being about to make it (Hooked).                 *)
(***************************************************************************)
EXTENDS PatchTransaction, LateEntry, SequenceTheorems, TLAPS

-------------------------------------------------------------------------------
(* The transaction. *)

Owners == {"game", "hfr", "other"}
Snapshots == UNION {[Bytes(p) -> Owners] : p \in Places}

PatchShape ==
    /\ PatchTypeOK
    /\ before \in Seq(Snapshots)
    /\ stage = "queueing" => saved = <<>> /\ ready = 0
    /\ stage = "done" => ready = 0
    /\ stage = "protecting" => ready = Len(saved)
    /\ ready <= Len(saved)

Outcome ==
    /\ stage \in {"queueing", "protecting"} => ~ok
    /\ IF ok THEN \A b \in Memory : mem[b] = "hfr" <=> b \in Queued
             ELSE \A b \in Memory : mem[b] # "hfr"

Checked ==
    /\ \A i \in 1 .. Len(queue) :
          queue[i].code => before[i] = [b \in Bytes(queue[i]) |-> "game"]
    /\ stage = "protecting" =>
          \A i \in 1 .. ready : before[i] = Held(queue[i])

\* The protection of page g while the first k patches are open.
WhileOpen(g, k) ==
    IF \E i \in 1 .. k : FirstPage(queue[i]) = g THEN "rwx" ELSE OrigProt[g]

Opened ==
    /\ \A g \in Pages : prot[g] = WhileOpen(g, ready)
    /\ \A k \in 1 .. Len(saved) :
          saved[k] = WhileOpen(FirstPage(queue[k]), k - 1)

\* No place lies across two pages.
OnePage == \A p \in Places : PagesOf(p) = {FirstPage(p)}

-------------------------------------------------------------------------------
(* Places and sequences. *)

\* The bytes of a place and its first page are the process's.
LEMMA PlaceType ==
    ASSUME NEW p \in Places
    PROVE  /\ p.addr \in Memory /\ p.size \in Nat \ {0} /\ p.code \in BOOLEAN
           /\ Bytes(p) \subseteq Memory
           /\ FirstPage(p) \in Pages
  <1>1. /\ p.addr \in Nat /\ p.size \in Nat \ {0} /\ p.code \in BOOLEAN
        /\ Bytes(p) \subseteq Memory
    BY TransactionConstants
  <1>2. p.addr \in Bytes(p)
    BY <1>1 DEF Bytes
  <1> QED BY <1>1, <1>2 DEF FirstPage, Pages

\* What a place holds is a snapshot.
LEMMA HeldType ==
    ASSUME NEW p \in Places, mem \in [Memory -> Owners]
    PROVE  Held(p) \in Snapshots
  <1>1. Held(p) \in [Bytes(p) -> Owners]
    BY PlaceType DEF Held
  <1> QED BY <1>1 DEF Snapshots

\* The queue and what has been saved of it, by index.
LEMMA QueueIndex ==
    ASSUME PatchShape
    PROVE  /\ Len(queue) \in Nat /\ Len(saved) \in Nat /\ ready \in Nat
           /\ ready <= Len(saved) /\ Len(saved) <= Len(queue)
           /\ DOMAIN queue = 1 .. Len(queue)
           /\ \A i \in 1 .. Len(queue) : queue[i] \in Places
           /\ mem \in [Memory -> Owners]
  BY TransactionConstants DEF PatchShape, PatchTypeOK, Owners

-------------------------------------------------------------------------------
(* The shape of the state. *)

\* patch_begin: the queue is empty.
LEMMA ShapeInit == PatchInit => PatchShape
  <1> SUFFICES ASSUME PatchInit PROVE PatchShape
    OBVIOUS
  <1>1. prot \in [Pages -> Protections \cup {"rwx"}]
    BY TransactionConstants DEF PatchInit
  <1>2. mem \in [Memory -> {"game", "hfr", "other"}]
    BY DEF PatchInit
  <1>3. /\ queue \in Seq(Places) /\ before \in Seq(Snapshots)
        /\ saved \in Seq(Protections \cup {"rwx"})
        /\ Len(queue) = 0 /\ Len(before) = 0 /\ Len(saved) = 0
    BY EmptySeq DEF PatchInit
  <1>4. PatchTypeOK
    <2>1. Len(queue) <= MaxPatches /\ ready \in 0 .. Len(queue)
      BY <1>3, TransactionConstants DEF PatchInit
    <2>2. /\ stage \in {"queueing", "protecting", "restoring", "done"}
          /\ failed \in BOOLEAN /\ ok \in BOOLEAN
      BY DEF PatchInit
    <2>3. Len(before) = Len(queue) /\ Len(saved) <= Len(queue)
      BY <1>3
    <2> QED BY <1>1, <1>2, <1>3, <2>1, <2>2, <2>3 DEF PatchTypeOK
  <1> QED BY <1>3, <1>4 DEF PatchInit, PatchShape

\* VirtualProtect keeps the protections' range.
LEMMA ProtectedType ==
    ASSUME NEW p \in Places, NEW v \in Protections \cup {"rwx"},
           prot \in [Pages -> Protections \cup {"rwx"}]
    PROVE  Protected(p, v) \in [Pages -> Protections \cup {"rwx"}]
  BY DEF Protected

\* Every step keeps the transaction's types,
LEMMA PatchShapeNext == PatchShape /\ [PatchNext]_patchVars => PatchShape'
  <1> SUFFICES ASSUME PatchShape, [PatchNext]_patchVars PROVE PatchShape'
    OBVIOUS
  <1>0. /\ queue \in Seq(Places) /\ before \in Seq(Snapshots)
        /\ saved \in Seq(Protections \cup {"rwx"})
        /\ Len(queue) \in Nat /\ Len(saved) \in Nat /\ MaxPatches \in Nat
        /\ Len(before) = Len(queue) /\ Len(saved) <= Len(queue)
        /\ \A i \in 1 .. Len(queue) : queue[i] \in Places
        /\ \A i \in 1 .. Len(saved) : saved[i] \in Protections \cup {"rwx"}
        /\ prot \in [Pages -> Protections \cup {"rwx"}]
    BY SMTT(40), QueueIndex, TransactionConstants DEF PatchShape, PatchTypeOK
  <1>1. ASSUME NEW p \in Places, Queue(p) PROVE PatchShape'
    <2>1. CASE Fits(p) /\ queue' = Append(queue, p)
      <3>1. Held(p) \in Snapshots
        BY HeldType, QueueIndex
      <3>2. before' = Append(before, Held(p)) /\ UNCHANGED failed
        BY <1>0, <1>1, <2>1 DEF Queue
      <3>3. /\ queue' \in Seq(Places) /\ Len(queue') = Len(queue) + 1
            /\ before' \in Seq(Snapshots) /\ Len(before') = Len(queue')
        BY <1>0, <2>1, <3>1, <3>2, AppendProperties
      <3>4. Len(queue') <= MaxPatches
        BY <1>0, <2>1, <3>3 DEF Fits
      <3> QED BY <1>0, <1>1, <3>2, <3>3, <3>4 DEF Queue, PatchShape, PatchTypeOK
    <2>2. CASE UNCHANGED <<queue, before>> /\ failed' = TRUE
      BY <1>1, <2>2 DEF Queue, PatchShape, PatchTypeOK
    <2> QED BY <1>1, <2>1, <2>2 DEF Queue
  <1>2. ASSUME NEW b \in Foreign, OtherWrites(b) PROVE PatchShape'
    BY <1>2, TransactionConstants DEF OtherWrites, PatchShape, PatchTypeOK
  <1>3. CASE Commit
    BY <1>0, <1>3 DEF Commit, PatchShape, PatchTypeOK
  <1>4. CASE Protect
    <2>1. ready < Len(queue) /\ ready = Len(saved) /\ queue[ready + 1] \in Places
      BY <1>0, <1>4 DEF Protect, PatchShape, PatchTypeOK
    <2>2. FirstPage(queue[ready + 1]) \in Pages
      BY <2>1, PlaceType
    <2>3. /\ saved' \in Seq(Protections \cup {"rwx"})
          /\ Len(saved') = Len(saved) + 1
      BY <1>0, <1>4, <2>2, AppendProperties DEF Protect, PatchShape, PatchTypeOK
    <2>4. prot' \in [Pages -> Protections \cup {"rwx"}]
      BY <1>0, <1>4, <2>1, ProtectedType DEF Protect
    <2> QED BY <1>0, <1>4, <2>1, <2>3, <2>4 DEF Protect, PatchShape, PatchTypeOK
  <1>5. CASE Refuse
    BY <1>0, <1>5 DEF Refuse, PatchShape, PatchTypeOK
  <1>6. CASE WriteAll
    BY <1>0, <1>6 DEF WriteAll, PatchShape, PatchTypeOK
  <1>7. CASE Restore
    <2>1. ready \in 1 .. Len(saved)
      BY <1>0, <1>7 DEF Restore, PatchShape, PatchTypeOK
    <2>2. prot' \in [Pages -> Protections \cup {"rwx"}]
      BY <1>0, <1>7, <2>1, ProtectedType DEF Restore
    <2>3. ready' \in 0 .. Len(queue) /\ ready' <= Len(saved)
      BY <1>0, <1>7, <2>1 DEF Restore
    <2> QED BY <1>7, <2>2, <2>3 DEF Restore, PatchShape, PatchTypeOK
  <1>8. CASE Return
    BY <1>8 DEF Return, PatchShape, PatchTypeOK
  <1>9. CASE UNCHANGED patchVars
    BY <1>9 DEF patchVars, PatchShape, PatchTypeOK
  <1> QED
    BY <1>1, <1>2, <1>3, <1>4, <1>5, <1>6, <1>7, <1>8, <1>9 DEF PatchNext

-------------------------------------------------------------------------------
(* Nothing is written before everything is, and that once. *)

\* that nothing is written before everything is,
LEMMA OutcomeNext == PatchShape /\ Outcome /\ [PatchNext]_patchVars => Outcome'
  <1> SUFFICES ASSUME PatchShape, Outcome, [PatchNext]_patchVars PROVE Outcome'
    OBVIOUS
  <1>0. mem \in [Memory -> Owners]
    BY QueueIndex
  <1>1. ASSUME NEW p \in Places, Queue(p) PROVE Outcome'
    BY <1>1 DEF Queue, Outcome
  <1>2. ASSUME NEW b \in Foreign, OtherWrites(b) PROVE Outcome'
    BY <1>0, <1>2, TransactionConstants DEF OtherWrites, Outcome
  <1>3. CASE Commit
    BY <1>3 DEF Commit, Outcome, Queued
  <1>4. CASE Protect
    BY <1>4 DEF Protect, Outcome, Queued
  <1>5. CASE Refuse
    BY <1>5 DEF Refuse, Outcome, Queued
  <1>6. CASE WriteAll
    <2>1. \A b \in Memory : mem[b] # "hfr"
      BY <1>6 DEF WriteAll, Outcome
    <2>2. /\ ok' /\ stage' = "restoring" /\ Queued' = Queued
          /\ mem' = [b \in Memory |-> IF b \in Queued THEN "hfr" ELSE mem[b]]
      BY <1>6 DEF WriteAll, Queued
    <2>3. \A b \in Memory : mem'[b] = "hfr" <=> b \in Queued'
      BY <2>1, <2>2
    <2> QED BY <2>2, <2>3 DEF Outcome
  <1>7. CASE Restore
    BY <1>7 DEF Restore, Outcome, Queued
  <1>8. CASE Return
    BY <1>8 DEF Return, Outcome, Queued
  <1>9. CASE UNCHANGED patchVars
    BY <1>9 DEF patchVars, Outcome, Queued
  <1> QED
    BY <1>1, <1>2, <1>3, <1>4, <1>5, <1>6, <1>7, <1>8, <1>9 DEF PatchNext

-------------------------------------------------------------------------------
(* What the commit has checked of a place holds when it writes there. *)

\* that what was found stays there,
LEMMA CheckedNext == PatchShape /\ Checked /\ [PatchNext]_patchVars => Checked'
  <1> SUFFICES ASSUME PatchShape, Checked, [PatchNext]_patchVars PROVE Checked'
    OBVIOUS
  <1>0. /\ queue \in Seq(Places) /\ before \in Seq(Snapshots)
        /\ Len(queue) \in Nat /\ Len(before) = Len(queue) /\ ready \in Nat
        /\ stage = "queueing" => ready = 0
        /\ stage = "protecting" => ready <= Len(queue)
        /\ mem \in [Memory -> Owners]
    BY QueueIndex DEF PatchShape, PatchTypeOK
  <1>1. ASSUME NEW p \in Places, Queue(p) PROVE Checked'
    <2>1. CASE /\ queue' = Append(queue, p)
               /\ before' = Append(before, Held(p))
               /\ p.code => \A b \in Bytes(p) : mem[b] = "game"
      <3>1. Held(p) \in Snapshots
        BY <1>0, HeldType
      <3>2. /\ Len(queue') = Len(queue) + 1
            /\ \A i \in 1 .. Len(queue) : queue'[i] = queue[i] /\ before'[i] = before[i]
            /\ queue'[Len(queue) + 1] = p
            /\ before'[Len(queue) + 1] = Held(p)
        BY <1>0, <2>1, <3>1, AppendProperties
      <3>3. p.code => Held(p) = [b \in Bytes(p) |-> "game"]
        BY <2>1 DEF Held
      <3>4. ASSUME NEW i \in 1 .. Len(queue'), (queue'[i]).code
            PROVE  before'[i] = [b \in Bytes(queue'[i]) |-> "game"]
        <4>1. CASE i \in 1 .. Len(queue)
          BY <3>2, <3>4, <4>1 DEF Checked
        <4>2. CASE i = Len(queue) + 1
          BY <3>2, <3>3, <3>4, <4>2
        <4> QED BY <1>0, <3>2, <4>1, <4>2
      <3>5. stage' = "queueing"
        BY <1>1 DEF Queue
      <3> QED BY <3>4, <3>5 DEF Checked
    <2>2. CASE UNCHANGED <<queue, before>>
      BY <1>1, <2>2 DEF Queue, Checked
    <2> QED BY <1>1, <2>1, <2>2 DEF Queue
  <1>2. ASSUME NEW b \in Foreign, OtherWrites(b) PROVE Checked'
    BY <1>2 DEF OtherWrites, Checked
  <1>3. CASE Commit
    BY <1>0, <1>3 DEF Commit, Checked
  <1>4. CASE Protect
    <2>1. /\ \A i \in 1 .. ready : before[i] = Held(queue[i])
          /\ before[ready + 1] = Held(queue[ready + 1])
          /\ ready' = ready + 1
          /\ UNCHANGED <<mem, queue, before>>
      BY <1>4 DEF Protect, Checked
    <2>2. \A i \in 1 .. ready' : i \in 1 .. ready \/ i = ready + 1
      BY <1>0, <2>1
    <2>3. \A i \in 1 .. ready' : before'[i] = Held(queue[i])'
      BY <2>1, <2>2 DEF Held
    <2> QED BY <2>1, <2>3 DEF Checked
  <1>5. CASE Refuse
    BY <1>5 DEF Refuse, Checked
  <1>6. CASE WriteAll
    BY <1>6 DEF WriteAll, Checked
  <1>7. CASE Restore
    BY <1>7 DEF Restore, Checked
  <1>8. CASE Return
    BY <1>8 DEF Return, Checked
  <1>9. CASE UNCHANGED patchVars
    BY <1>9 DEF patchVars, Checked, Held
  <1> QED
    BY <1>1, <1>2, <1>3, <1>4, <1>5, <1>6, <1>7, <1>8, <1>9 DEF PatchNext

-------------------------------------------------------------------------------
(* The pages that are open, and what they had before. *)

\* and which pages are writable.
LEMMA OpenedNext == OnePage /\ PatchShape /\ Opened /\ [PatchNext]_patchVars => Opened'
  <1> SUFFICES ASSUME OnePage, PatchShape, Opened, [PatchNext]_patchVars PROVE Opened'
    OBVIOUS
  <1>0. /\ Len(queue) \in Nat /\ Len(saved) \in Nat /\ ready \in Nat
        /\ ready <= Len(saved) /\ Len(saved) <= Len(queue)
        /\ \A i \in 1 .. Len(queue) : queue[i] \in Places
        /\ queue \in Seq(Places) /\ saved \in Seq(Protections \cup {"rwx"})
        /\ prot \in [Pages -> Protections \cup {"rwx"}]
    BY QueueIndex DEF PatchShape, PatchTypeOK
  <1>1. ASSUME NEW p \in Places, Queue(p) PROVE Opened'
    <2>1. saved = <<>> /\ ready = 0 /\ UNCHANGED <<prot, saved, ready>>
      BY <1>1 DEF Queue, PatchShape
    <2>2. \A g : WhileOpen(g, 0)' = WhileOpen(g, 0)
      BY DEF WhileOpen
    <2> QED BY <2>1, <2>2 DEF Opened
  <1>2. ASSUME NEW b \in Foreign, OtherWrites(b) PROVE Opened'
    BY <1>2 DEF OtherWrites, Opened, WhileOpen
  <1>3. CASE Commit
    BY <1>3 DEF Commit, Opened, WhileOpen
  <1>4. CASE Protect
    <2> DEFINE p == queue[ready + 1]
    <2>1. /\ ready = Len(saved) /\ ready < Len(queue) /\ p \in Places
          /\ ready' = ready + 1 /\ UNCHANGED queue
          /\ prot' = Protected(p, "rwx")
          /\ saved' = Append(saved, prot[FirstPage(p)])
      BY <1>0, <1>4 DEF Protect, PatchShape
    <2>2. FirstPage(p) \in Pages /\ PagesOf(p) = {FirstPage(p)}
      BY <2>1, PlaceType DEF OnePage
    <2>3. \A g \in Pages :
             prot'[g] = IF g = FirstPage(p) THEN "rwx" ELSE WhileOpen(g, ready)
      BY <2>1, <2>2 DEF Protected, Opened
    <2>4. \A i \in 1 .. ready + 1 : i \in 1 .. ready \/ i = ready + 1
      BY <1>0
    <2>5. \A g \in Pages : prot'[g] = WhileOpen(g, ready + 1)
      BY <1>0, <2>3, <2>4 DEF WhileOpen
    <2>6. /\ Len(saved') = Len(saved) + 1
          /\ \A k \in 1 .. Len(saved) : saved'[k] = saved[k]
          /\ saved'[ready + 1] = WhileOpen(FirstPage(p), ready)
      BY <1>0, <2>1, <2>2, AppendProperties DEF Opened
    <2>7. \A k \in 1 .. Len(saved') :
             saved'[k] = WhileOpen(FirstPage(queue[k]), k - 1)
      BY <1>0, <2>1, <2>4, <2>6 DEF Opened
    <2>8. \A g, k : WhileOpen(g, k)' = WhileOpen(g, k)
      BY <2>1 DEF WhileOpen
    <2> QED BY <2>1, <2>5, <2>7, <2>8 DEF Opened
  <1>5. CASE Refuse
    BY <1>5 DEF Refuse, Opened, WhileOpen
  <1>6. CASE WriteAll
    BY <1>6 DEF WriteAll, Opened, WhileOpen
  <1>7. CASE Restore
    <2> DEFINE p == queue[ready]
    <2>1. /\ ready \in 1 .. Len(saved) /\ p \in Places
          /\ ready' = ready - 1 /\ UNCHANGED <<queue, saved>>
          /\ prot' = Protected(p, saved[ready])
      BY <1>0, <1>7 DEF Restore
    <2>2. FirstPage(p) \in Pages /\ PagesOf(p) = {FirstPage(p)}
      BY <2>1, PlaceType DEF OnePage
    <2>3. saved[ready] = WhileOpen(FirstPage(p), ready - 1)
      BY <2>1 DEF Opened
    <2>4. \A i \in 1 .. ready : i \in 1 .. ready - 1 \/ i = ready
      BY <1>0
    <2>5. \A g \in Pages \ {FirstPage(p)} : WhileOpen(g, ready) = WhileOpen(g, ready - 1)
      BY SMTT(40), <1>0, <2>4 DEF WhileOpen
    <2>6. \A g \in Pages : prot'[g] = WhileOpen(g, ready - 1)
      BY <2>1, <2>2, <2>3, <2>5 DEF Protected, Opened
    <2>7. \A g, k : WhileOpen(g, k)' = WhileOpen(g, k)
      BY <2>1 DEF WhileOpen
    <2> QED BY <2>1, <2>6, <2>7 DEF Opened
  <1>8. CASE Return
    BY <1>8 DEF Return, Opened, WhileOpen
  <1>9. CASE UNCHANGED patchVars
    BY <1>9 DEF patchVars, Opened, WhileOpen
  <1> QED
    BY <1>1, <1>2, <1>3, <1>4, <1>5, <1>6, <1>7, <1>8, <1>9 DEF PatchNext

-------------------------------------------------------------------------------
(* The theorems. *)

PatchInv == PatchShape /\ Outcome /\ Checked

\* The transaction's invariant holds throughout.
LEMMA PatchInductive == PatchSpec => []PatchInv
  <1>1. PatchInit => Outcome /\ Checked
    BY DEF PatchInit, Outcome, Checked
  <1>2. PatchInit => PatchInv
    BY <1>1, ShapeInit DEF PatchInv
  <1>3. PatchInv /\ [PatchNext]_patchVars => PatchInv'
    BY PatchShapeNext, OutcomeNext, CheckedNext DEF PatchInv
  <1> QED BY <1>2, <1>3, PTL DEF PatchSpec

\* The queue never outgrows its array, and the saved protections stay in step
\* with it, whatever is queued and wherever the commit stops.
THEOREM PatchTypes == PatchSpec => []PatchTypeOK
  <1>1. PatchInv => PatchTypeOK
    BY DEF PatchInv, PatchShape
  <1> QED BY <1>1, PatchInductive, PTL

\* patch_commit writes every queued patch or none, at whichever patch it fails,
\* for every set of patches and whatever another patch does until then.
THEOREM WritesAllOrNothing == PatchSpec => []AllOrNothing
  <1>1. PatchInv => AllOrNothing
    BY DEF PatchInv, Outcome, AllOrNothing
  <1> QED BY <1>1, PatchInductive, PTL

\* A code site that another patch has written to is never written over, even
\* if that happened after it was queued.
THEOREM LeavesOtherCode == PatchSpec => OnlyGameCodeReplaced
  <1> DEFINE Step(b) ==
        mem[b] = "other" /\ mem'[b] = "hfr"
          => \E i \in DOMAIN queue : ~queue[i].code /\ b \in Bytes(queue[i])
  <1>1. ASSUME PatchInv, PatchNext, NEW b \in Memory PROVE Step(b)
    <2> SUFFICES ASSUME mem[b] = "other", mem'[b] = "hfr"
                 PROVE  \E i \in DOMAIN queue :
                           ~queue[i].code /\ b \in Bytes(queue[i])
      OBVIOUS
    <2>0. /\ mem \in [Memory -> Owners] /\ DOMAIN queue = 1 .. Len(queue)
          /\ ready \in Nat /\ Len(queue) \in Nat
      BY <1>1, QueueIndex DEF PatchInv
    <2>1. ASSUME NEW c \in Foreign, OtherWrites(c) PROVE FALSE
      BY <2>0, <2>1 DEF OtherWrites
    <2>2. CASE WriteAll
      <3>1. b \in Queued /\ stage = "protecting" /\ ready = Len(queue)
        BY <2>0, <2>2 DEF WriteAll
      <3>2. PICK i \in DOMAIN queue : b \in Bytes(queue[i])
        BY <3>1 DEF Queued
      <3>3. before[i] = Held(queue[i])
        BY <1>1, <2>0, <3>1 DEF PatchInv, Checked
      <3>4. (before[i])[b] = "other"
        BY <3>2, <3>3 DEF Held
      <3>5. ~queue[i].code
        BY <1>1, <2>0, <3>2, <3>4 DEF PatchInv, Checked
      <3> QED BY <3>2, <3>5
    <2>3. CASE mem' = mem
      BY <2>3
    <2> QED
      BY <1>1, <2>1, <2>2, <2>3
      DEF PatchNext, Queue, Commit, Protect, Refuse, Restore, Return
  <1>2. PatchInv /\ [PatchNext]_patchVars => [\A b \in Memory : Step(b)]_patchVars
    BY <1>1
  <1>3. PatchInv /\ [PatchNext]_patchVars => [\A b \in Memory : mem[b] = "other" /\ mem'[b] = "hfr"
          => \E i \in DOMAIN queue :
                ~queue[i].code /\ b \in Bytes(queue[i])]_patchVars
    BY <1>2
  <1> QED BY <1>3, PatchInductive, PTL DEF PatchSpec, OnlyGameCodeReplaced

\* Restoring in reverse order gives every page the protection it started with,
\* however many patches share it and wherever the commit stopped -- provided that
\* no place lies across two pages, which patch.c does not check.
THEOREM GivesProtectionsBack == OnePage => (PatchSpec => []ProtectionsRestored)
  <1> SUFFICES ASSUME OnePage PROVE PatchSpec => []ProtectionsRestored
    OBVIOUS
  <1>1. PatchInit => Opened
    <2> SUFFICES ASSUME PatchInit PROVE Opened
      OBVIOUS
    <2>1. prot = OrigProt /\ ready = 0 /\ Len(saved) = 0
      BY EmptySeq DEF PatchInit
    <2>2. \A g : WhileOpen(g, 0) = OrigProt[g]
      BY DEF WhileOpen
    <2> QED BY <2>1, <2>2 DEF Opened
  <1>2. PatchShape /\ Opened /\ [PatchNext]_patchVars => Opened'
    BY OpenedNext
  <1>3. PatchShape /\ Opened => ProtectionsRestored
    <2> SUFFICES ASSUME PatchShape, Opened, stage = "done" PROVE prot = OrigProt
      BY DEF ProtectionsRestored
    <2>1. ready = 0 /\ prot \in [Pages -> Protections \cup {"rwx"}]
      BY DEF PatchShape, PatchTypeOK
    <2>2. \A g : WhileOpen(g, 0) = OrigProt[g]
      BY DEF WhileOpen
    <2> QED BY <2>1, <2>2, TransactionConstants DEF Opened
  <1>4. PatchInv => PatchShape
    BY DEF PatchInv
  <1> QED BY <1>1, <1>2, <1>3, <1>4, PatchInductive, PTL DEF PatchSpec

-------------------------------------------------------------------------------
(* The late entry. *)

Critical == {"working", "installing", "committing", "reasserted", "over",
             "fruitless", "releasing"}
Labels == Critical \cup {"game", "entered", "claiming"}

Shape ==
    /\ slot \in [Imports -> {"real", "hfr", "other"}]
    /\ chain \in [Imports -> {"none", "real", "hfr", "other"}]
    /\ hooked \subseteq Imports /\ taken \subseteq Imports
    /\ pc \in [Threads -> Labels]
    /\ game \in BOOLEAN
    /\ installed \in {"no", "yes", "failed"}
    /\ phase \in {"loading", "entry", "running", "asked", "drawing"}
    /\ calls \in Nat

\* Before the game's code runs, only the main thread reads the clock, and
\* not before DllMain is done.
Exclusive ==
    /\ \A t \in Threads : pc[t] \in Critical => busy
    /\ \A t, u \in Threads : pc[t] \in Critical /\ pc[u] \in Critical => t = u
    /\ \A t \in Threads :
          phase = "loading" \/ (phase = "entry" /\ t # Main) => pc[t] = "game"
    /\ phase = "loading" => ~game /\ ~done

AllHeld == \A i \in Imports : slot[i] = "hfr"

Installing ==
    /\ HooksFollowCommit
    /\ ~game => installed = "no"
    /\ \A t \in Threads :
          pc[t] \in {"installing", "committing"} => game /\ installed = "no"
    /\ game /\ installed = "no" =>
          \E t \in Threads : pc[t] \in {"installing", "committing"}
    /\ \A t \in Threads : pc[t] = "committing" => hooked = Imports
    /\ installed = "yes" => hooked = Imports

Holding ==
    /\ \A t \in Threads :
          pc[t] = "reasserted" /\ phase # "entry" /\ installed = "yes" => AllHeld
    /\ \A t \in Threads : pc[t] = "over" => installed = "failed"
    /\ \A t \in Threads : pc[t] = "reasserted" => installed # "no"
    /\ done /\ calls <= MaxCalls =>
          installed = "failed" \/ (installed = "yes" /\ phase = "drawing" /\ AllHeld)

\* A thread past `busy` that is not about to make its pass leaves the imports
\* with this patch, if it is installed; and the main thread does not read the
\* clock without such a thread having finished, or being at work.
Hooked ==
    /\ {called, armed} \subseteq BOOLEAN
    /\ busy => \E t \in Threads : pc[t] \in Critical
    /\ called => phase \notin {"loading", "entry"}
    /\ armed \/ done \/ phase = "loading"
    /\ \A t \in Threads :
          /\ pc[t] \in {"reasserted", "fruitless", "releasing"}
          /\ phase # "entry" /\ installed = "yes"
          => AllHeld
    /\ called /\ installed = "yes" /\ calls <= MaxCalls =>
          AllHeld \/ \E t \in Threads : pc[t] = "working"

IInv == Shape /\ Exclusive /\ Installing /\ OthersStayCalled /\ Holding /\ Hooked

-------------------------------------------------------------------------------
(* Each part of the invariant is preserved, given those before it. *)

\* Every step keeps the entry's types,
LEMMA ShapeNext == Shape /\ [Next]_vars => Shape'
  <1> SUFFICES ASSUME Shape, [Next]_vars PROVE Shape'
    OBVIOUS
  <1> USE DEF Shape, Labels, Critical
  <1>1. CASE DllMain
    BY <1>1 DEF DllMain, RegisterHooks, HooksWritten
  <1>2. ASSUME NEW t \in Threads, Call(t) \/ CheckDone(t) \/ Claim(t) PROVE Shape'
    BY <1>2 DEF Call, CheckDone, Claim, Leave, To, importVars, entryVars, procVars
  <1>3. ASSUME NEW t \in Threads, Identify(t) PROVE Shape'
    BY <1>3 DEF Identify, To, importVars, entryVars, procVars
  <1>4. ASSUME NEW t \in Threads, InstallQueue(t) PROVE Shape'
    BY <1>4 DEF InstallQueue, RegisterHooks, To, entryVars, procVars
  <1>5. ASSUME NEW t \in Threads, InstallCommit(t) PROVE Shape'
    BY <1>5 DEF InstallCommit, HooksWritten, To, entryVars, procVars
  <1>6. ASSUME NEW t \in Threads, Reassert(t) PROVE Shape'
    BY <1>6 DEF Reassert, ReassertImports, To, entryVars, procVars
  <1>7. ASSUME NEW t \in Threads, Finish(t) \/ Release(t) PROVE Shape'
    BY <1>7 DEF Finish, Release, Leave, To, importVars, procVars
  <1>8. CASE Decrypt \/ EnterGame \/ AskDirect3D \/ Draw
    BY <1>8 DEF Decrypt, EnterGame, AskDirect3D, Draw, Goes, importVars, entryVars
  <1>9. ASSUME NEW i \in Imports, OtherTakes(i) PROVE Shape'
    BY <1>9 DEF OtherTakes, entryVars, procVars
  <1>10. CASE UNCHANGED vars
    BY <1>10 DEF vars, importVars, entryVars, procVars
  <1> QED
    BY <1>1, <1>2, <1>3, <1>4, <1>5, <1>6, <1>7, <1>8, <1>9, <1>10
    DEF Next, Inside

\* and one thread at a time past the busy flag.
LEMMA ExclusiveNext == Shape /\ Exclusive /\ [Next]_vars => Exclusive'
  <1> SUFFICES ASSUME Shape, Exclusive, [Next]_vars PROVE Exclusive'
    OBVIOUS
  <1> USE DEF Shape, Exclusive, Labels, Critical
  <1>1. CASE DllMain
    BY <1>1 DEF DllMain
  <1>2. ASSUME NEW t \in Threads, Call(t) PROVE Exclusive'
    BY <1>2 DEF Call, Runs, To, importVars, entryVars, procVars
  <1>3. ASSUME NEW t \in Threads, CheckDone(t) PROVE Exclusive'
    BY <1>3 DEF CheckDone, Leave, To, importVars, entryVars
  <1>4. ASSUME NEW t \in Threads, Claim(t) PROVE Exclusive'
    BY <1>4 DEF Claim, Leave, To, importVars
  <1>5. ASSUME NEW t \in Threads, Identify(t) PROVE Exclusive'
    BY <1>5 DEF Identify, To, importVars, entryVars, procVars
  <1>6. ASSUME NEW t \in Threads, InstallQueue(t) \/ InstallCommit(t) \/ Reassert(t)
        PROVE  Exclusive'
    BY <1>6 DEF InstallQueue, InstallCommit, Reassert, To, entryVars, procVars
  <1>7. ASSUME NEW t \in Threads, Finish(t) PROVE Exclusive'
    BY <1>7 DEF Finish, To, importVars, procVars
  <1>8. ASSUME NEW t \in Threads, Release(t) PROVE Exclusive'
    BY <1>8 DEF Release, Leave, To, importVars
  <1>9. CASE Decrypt \/ EnterGame \/ AskDirect3D \/ Draw
    BY <1>9 DEF Decrypt, EnterGame, AskDirect3D, Draw, Goes, importVars, entryVars
  <1>10. ASSUME NEW i \in Imports, OtherTakes(i) PROVE Exclusive'
    BY <1>10 DEF OtherTakes, entryVars, procVars
  <1>11. CASE UNCHANGED vars
    BY <1>11 DEF vars, importVars, entryVars, procVars
  <1> QED
    BY <1>1, <1>2, <1>3, <1>4, <1>5, <1>6, <1>7, <1>8, <1>9, <1>10, <1>11
    DEF Next, Inside

\* Hooks are written by a commit, or by a pass over the imports, which no
\* thread makes while another has identified the game and not committed.
LEMMA InstallingNext ==
    Shape /\ Exclusive /\ Installing /\ [Next]_vars => Installing'
  <1> SUFFICES ASSUME Shape, Exclusive, Installing, [Next]_vars
               PROVE  Installing'
    OBVIOUS
  <1> USE DEF Shape, Exclusive, Installing, HooksFollowCommit, Labels, Critical
  <1>1. CASE DllMain
    BY <1>1 DEF DllMain, RegisterHooks, HooksWritten
  <1>2. ASSUME NEW t \in Threads, Call(t) \/ CheckDone(t) \/ Claim(t)
        PROVE  Installing'
    BY <1>2 DEF Call, CheckDone, Claim, Leave, To, importVars, entryVars, procVars
  <1>3. ASSUME NEW t \in Threads, Identify(t)
        PROVE  Installing'
    BY <1>3 DEF Identify, To, importVars, entryVars, procVars
  <1>4. ASSUME NEW t \in Threads, InstallQueue(t)
        PROVE  Installing'
    <2>1. /\ pc[t] = "installing" /\ installed = "no"
          /\ \A u \in Threads \ {t} : pc[u] \notin Critical /\ pc'[u] = pc[u]
          /\ game' = game /\ slot' = slot
      BY <1>4 DEF InstallQueue, RegisterHooks, To, entryVars, procVars
    <2>2. CASE RegisterHooks /\ To(t, "committing") /\ UNCHANGED installed
      <3>1. pc'[t] = "committing" /\ hooked' = Imports /\ installed' = "no"
        BY <2>1, <2>2 DEF RegisterHooks, To
      <3> QED
        BY <2>1, <3>1
    <2>3. CASE installed' = "failed" /\ To(t, "over") /\ UNCHANGED <<chain, hooked>>
      <3>1. pc'[t] = "over"
        BY <2>1, <2>3 DEF To
      <3> QED
        BY <2>1, <2>3, <3>1
    <2> QED
      BY <1>4, <2>2, <2>3 DEF InstallQueue
  <1>5. ASSUME NEW t \in Threads, InstallCommit(t)
        PROVE  Installing'
    <2>1. /\ pc[t] = "committing" /\ installed = "no" /\ hooked = Imports
          /\ \A u \in Threads \ {t} : pc[u] \notin Critical /\ pc'[u] = pc[u]
          /\ game' = game /\ hooked' = hooked
          /\ pc'[t] \in {"fruitless", "over"} /\ installed' \in {"yes", "failed"}
      BY <1>5 DEF InstallCommit, To, entryVars
    <2> QED
      BY <2>1
  <1>6. ASSUME NEW t \in Threads, Reassert(t)
        PROVE  Installing'
    BY <1>6 DEF Reassert, ReassertImports, To, entryVars, procVars
  <1>7. ASSUME NEW t \in Threads, Finish(t)
        PROVE  Installing'
    BY <1>7 DEF Finish, FrameSeen, To, importVars, procVars
  <1>8. ASSUME NEW t \in Threads, Release(t)
        PROVE  Installing'
    BY <1>8 DEF Release, Leave, To, importVars
  <1>9. CASE Decrypt \/ EnterGame \/ AskDirect3D \/ Draw
    BY <1>9 DEF Decrypt, EnterGame, AskDirect3D, Draw, Goes, importVars, entryVars
  <1>10. ASSUME NEW i \in Imports, OtherTakes(i)
        PROVE  Installing'
    BY <1>10 DEF OtherTakes, entryVars, procVars
  <1>11. CASE UNCHANGED vars
    BY <1>11 DEF vars, importVars, entryVars, procVars
  <1> QED
    BY <1>1, <1>2, <1>3, <1>4, <1>5, <1>6, <1>7, <1>8, <1>9, <1>10, <1>11
    DEF Next, Inside

\* While an import is queued no slot holds a hook, so that a hook is never
\* chained to itself and a commit that finds the slots as queued loses nobody.
LEMMA OthersStayCalledNext ==
    Shape /\ Exclusive /\ Installing /\ OthersStayCalled /\ [Next]_vars => OthersStayCalled'
  <1> SUFFICES ASSUME Shape, Exclusive, Installing, OthersStayCalled, [Next]_vars
               PROVE  OthersStayCalled'
    OBVIOUS
  <1> USE DEF Shape, Exclusive, Installing, HooksFollowCommit, OthersStayCalled, Labels, Critical
  <1>1. CASE DllMain
    BY <1>1 DEF DllMain, RegisterHooks, HooksWritten
  <1>2. ASSUME NEW t \in Threads, Call(t) \/ CheckDone(t) \/ Claim(t)
        PROVE  OthersStayCalled'
    BY <1>2 DEF Call, CheckDone, Claim, Leave, To, importVars, entryVars, procVars
  <1>3. ASSUME NEW t \in Threads, Identify(t)
        PROVE  OthersStayCalled'
    BY <1>3 DEF Identify, To, importVars, entryVars, procVars
  <1>4. ASSUME NEW t \in Threads, InstallQueue(t)
        PROVE  OthersStayCalled'
    BY <1>4 DEF InstallQueue, RegisterHooks, To, entryVars, procVars
  <1>5. ASSUME NEW t \in Threads, InstallCommit(t)
        PROVE  OthersStayCalled'
    BY <1>5 DEF InstallCommit, AsQueued, HooksWritten, To, entryVars, procVars
  <1>6. ASSUME NEW t \in Threads, Reassert(t)
        PROVE  OthersStayCalled'
    BY <1>6 DEF Reassert, ReassertImports, To, entryVars, procVars
  <1>7. ASSUME NEW t \in Threads, Finish(t)
        PROVE  OthersStayCalled'
    BY <1>7 DEF Finish, FrameSeen, To, importVars, procVars
  <1>8. ASSUME NEW t \in Threads, Release(t)
        PROVE  OthersStayCalled'
    BY <1>8 DEF Release, Leave, To, importVars
  <1>9. CASE Decrypt \/ EnterGame \/ AskDirect3D \/ Draw
    BY <1>9 DEF Decrypt, EnterGame, AskDirect3D, Draw, Goes, importVars, entryVars
  <1>10. ASSUME NEW i \in Imports, OtherTakes(i)
        PROVE  OthersStayCalled'
    BY <1>10 DEF OtherTakes, entryVars, procVars
  <1>11. CASE UNCHANGED vars
    BY <1>11 DEF vars, importVars, entryVars, procVars
  <1> QED
    BY <1>1, <1>2, <1>3, <1>4, <1>5, <1>6, <1>7, <1>8, <1>9, <1>10, <1>11
    DEF Next, Inside

\* A pass covers every import, all being registered, and after the main
\* thread has entered the game nothing it took back is taken again.
LEMMA HoldingNext ==
    Shape /\ Exclusive /\ Installing /\ Holding /\ [Next]_vars => Holding'
  <1> SUFFICES ASSUME Shape, Exclusive, Installing, Holding, [Next]_vars
               PROVE  Holding'
    OBVIOUS
  <1> USE DEF Shape, Exclusive, Installing, Holding, AllHeld, Labels, Critical
  <1>1. CASE DllMain
    BY <1>1 DEF DllMain, RegisterHooks, HooksWritten
  <1>2. ASSUME NEW t \in Threads, Call(t) \/ CheckDone(t) \/ Claim(t)
        PROVE  Holding'
    BY <1>2 DEF Call, CheckDone, Claim, Leave, To, importVars, entryVars, procVars
  <1>3. ASSUME NEW t \in Threads, Identify(t)
        PROVE  Holding'
    BY <1>3 DEF Identify, To, importVars, entryVars, procVars
  <1>4. ASSUME NEW t \in Threads, InstallQueue(t)
        PROVE  Holding'
    BY <1>4 DEF InstallQueue, RegisterHooks, To, entryVars, procVars
  <1>5. ASSUME NEW t \in Threads, InstallCommit(t)
        PROVE  Holding'
    BY <1>5 DEF InstallCommit, AsQueued, HooksWritten, To, entryVars, procVars
  <1>6. ASSUME NEW t \in Threads, Reassert(t)
        PROVE  Holding'
    BY <1>6 DEF Reassert, ReassertImports, To, entryVars, procVars
  <1>7. ASSUME NEW t \in Threads, Finish(t)
        PROVE  Holding'
    <2>1. /\ slot' = slot /\ installed' = installed /\ phase' = phase
          /\ pc'[t] = "releasing" /\ pc[t] \in {"over", "fruitless", "reasserted"}
          /\ \A u \in Threads \ {t} : pc'[u] = pc[u]
      BY <1>7 DEF Finish, To, importVars, procVars
    <2>2. ASSUME done', calls' <= MaxCalls
          PROVE  \/ installed = "failed"
                 \/ installed = "yes" /\ phase = "drawing" /\ AllHeld
      <3>1. CASE pc[t] = "over" \/ (pc[t] = "reasserted" /\ FrameSeen)
        BY <3>1 DEF FrameSeen
      <3>2. CASE ~(pc[t] = "over" \/ (pc[t] = "reasserted" /\ FrameSeen))
        <4>1. calls' = calls + 1
          BY <1>7, <3>2 DEF Finish
        <4>2. ~(calls' > MaxCalls) /\ calls <= MaxCalls
          BY <2>2, <4>1, EntryConstants
        <4>3. done
          BY <1>7, <2>2, <3>2, <4>2 DEF Finish
        <4> QED
          BY <4>2, <4>3
      <3> QED
        BY <3>1, <3>2
    <2> QED
      BY <2>1, <2>2
  <1>8. ASSUME NEW t \in Threads, Release(t)
        PROVE  Holding'
    BY <1>8 DEF Release, Leave, To, importVars
  <1>9. CASE Decrypt \/ EnterGame \/ AskDirect3D \/ Draw
    BY <1>9 DEF Decrypt, EnterGame, AskDirect3D, Draw, Goes, importVars, entryVars
  <1>10. ASSUME NEW i \in Imports, OtherTakes(i)
        PROVE  Holding'
    BY <1>10 DEF OtherTakes, entryVars, procVars
  <1>11. CASE UNCHANGED vars
    BY <1>11 DEF vars, importVars, entryVars, procVars
  <1> QED
    BY <1>1, <1>2, <1>3, <1>4, <1>5, <1>6, <1>7, <1>8, <1>9, <1>10, <1>11
    DEF Next, Inside

\* The main thread's reading the clock leaves nothing untaken behind it that
\* no thread is at work on.
LEMMA HookedNext ==
    Shape /\ Exclusive /\ Installing /\ Holding /\ Hooked /\ [Next]_vars => Hooked'
  <1> SUFFICES ASSUME Shape, Exclusive, Installing, Holding, Hooked, [Next]_vars
               PROVE  Hooked'
    OBVIOUS
  <1> USE DEF Shape, Exclusive, Installing, Holding, Hooked, AllHeld, Labels, Critical
  <1>1. CASE DllMain
    BY <1>1 DEF DllMain, RegisterHooks, HooksWritten
  <1>2. ASSUME NEW t \in Threads, Call(t) \/ CheckDone(t) \/ Claim(t)
        PROVE  Hooked'
    <2>1. CASE Call(t)
      BY <2>1 DEF Call, To, importVars, entryVars, procVars
    <2>2. CASE CheckDone(t)
      <3>1. UNCHANGED <<phase, slot, installed, calls, armed, done, busy>>
        BY <2>2 DEF CheckDone, importVars, entryVars
      <3>2. called' \in BOOLEAN /\ (called' => phase \notin {"loading", "entry"})
        BY <2>2 DEF CheckDone, Leave
      <3>3. ~done => called' = called
        BY <2>2 DEF CheckDone
      <3>4. pc[t] = "entered" /\ pc'[t] \in {"game", "claiming"}
        BY <2>2 DEF CheckDone, Leave, To
      <3>5. ASSUME NEW v \in Threads, v # t
            PROVE  pc'[v] = pc[v]
        BY <2>2, <3>5 DEF CheckDone, Leave, To
      <3>6. ASSUME NEW v \in Threads, pc[v] # "entered"
            PROVE  pc'[v] = pc[v]
        BY <3>4, <3>5, <3>6
      <3> QED
        BY <3>1, <3>2, <3>3, <3>4, <3>5, <3>6
    <2>3. CASE Claim(t) /\ ~busy
      BY <2>3 DEF Claim, To, importVars
    <2>4. CASE Claim(t) /\ busy
      <3>1. PICK u \in Threads : pc[u] \in Critical
        BY <2>4
      <3>2. u # t /\ pc'[u] = pc[u] /\ pc'[t] = "game"
        BY <2>4, <3>1 DEF Claim, Leave, To
      <3>3. phase \notin {"loading", "entry"} /\ installed = "yes" =>
               AllHeld \/ pc[u] = "working"
        BY <3>1
      <3>4. called' \in BOOLEAN /\ (called' => phase \notin {"loading", "entry"})
        BY <2>4 DEF Claim, Leave
      <3>5. UNCHANGED <<phase, slot, installed, calls, armed, done>> /\ busy'
        BY <2>4 DEF Claim, importVars
      <3>6. ASSUME NEW v \in Threads, v # t
            PROVE  pc'[v] = pc[v]
        BY <2>4, <3>6 DEF Claim, Leave, To
      <3> QED
        BY <3>1, <3>2, <3>3, <3>4, <3>5, <3>6
    <2> QED
      BY <1>2, <2>1, <2>2, <2>3, <2>4
  <1>3. ASSUME NEW t \in Threads, Identify(t)
        PROVE  Hooked'
    BY <1>3 DEF Identify, To, importVars, entryVars, procVars
  <1>4. ASSUME NEW t \in Threads, InstallQueue(t)
        PROVE  Hooked'
    BY <1>4 DEF InstallQueue, RegisterHooks, To, entryVars, procVars
  <1>5. ASSUME NEW t \in Threads, InstallCommit(t)
        PROVE  Hooked'
    BY <1>5 DEF InstallCommit, AsQueued, HooksWritten, To, entryVars, procVars
  <1>6. ASSUME NEW t \in Threads, Reassert(t)
        PROVE  Hooked'
    BY <1>6 DEF Reassert, ReassertImports, To, entryVars, procVars
  <1>7. ASSUME NEW t \in Threads, Finish(t)
        PROVE  Hooked'
    BY <1>7 DEF Finish, FrameSeen, To, importVars, procVars
  <1>8. ASSUME NEW t \in Threads, Release(t)
        PROVE  Hooked'
    BY <1>8 DEF Release, Leave, To, importVars
  <1>9. CASE Decrypt \/ EnterGame \/ AskDirect3D \/ Draw
    BY <1>9 DEF Decrypt, EnterGame, AskDirect3D, Draw, Goes, importVars, entryVars
  <1>10. ASSUME NEW i \in Imports, OtherTakes(i)
        PROVE  Hooked'
    BY <1>10 DEF OtherTakes, entryVars, procVars
  <1>11. CASE UNCHANGED vars
    BY <1>11 DEF vars, importVars, entryVars, procVars
  <1> QED
    BY <1>1, <1>2, <1>3, <1>4, <1>5, <1>6, <1>7, <1>8, <1>9, <1>10, <1>11
    DEF Next, Inside
-------------------------------------------------------------------------------
(* The theorems. *)

\* The parts together hold from the first state on.
LEMMA Inductive == Spec => []IInv
  <1>1. Init => IInv
    <2> SUFFICES ASSUME Init PROVE IInv
      OBVIOUS
    <2> USE DEF Init
    <2>1. Shape
      BY DEF Shape, Labels, Critical
    <2>2. Exclusive
      BY DEF Exclusive, Critical
    <2>3. Installing
      BY DEF Installing, HooksFollowCommit
    <2>4. OthersStayCalled /\ Holding
      BY DEF OthersStayCalled, Holding
    <2>5. Hooked
      BY DEF Hooked, Critical
    <2> QED
      BY <2>1, <2>2, <2>3, <2>4, <2>5 DEF IInv
  <1>2. IInv /\ [Next]_vars => IInv'
    BY ShapeNext, ExclusiveNext, InstallingNext, OthersStayCalledNext, HoldingNext,
       HookedNext
    DEF IInv
  <1> QED
    BY <1>1, <1>2, PTL DEF Spec

\* entry.c:134-136: however many threads read the clock at once, one at a
\* time is past `busy`.
THEOREM OneThreadWorks ==
    Spec => [](\A t, u \in Threads : pc[t] \in Critical /\ pc[u] \in Critical => t = u)
  <1>1. IInv => \A t, u \in Threads : pc[t] \in Critical /\ pc[u] \in Critical => t = u
    BY DEF IInv, Exclusive
  <1> QED
    BY <1>1, Inductive, PTL

\* entry.c:134-135: no hook is in the game's imports before the commit that
\* installs them, or the failure of one.
THEOREM HooksWaitForCommit == Spec => []HooksFollowCommit
  <1>1. IInv => HooksFollowCommit
    BY DEF IInv, Installing
  <1> QED
    BY <1>1, Inductive, PTL

\* imports.c:84-100: an import another patch has taken goes on calling that
\* patch, from its slot or through this patch's hook.
THEOREM OthersAreKept == Spec => []OthersStayCalled
  <1>1. IInv => OthersStayCalled
    BY DEF IInv
  <1> QED
    BY <1>1, Inductive, PTL

\* entry.c:110-111: standing down because the game draws, the late entry
\* point leaves every import with this patch.
THEOREM StandsDownSafely == Spec => []StandsDownHolding
  <1>1. IInv => StandsDownHolding
    BY DEF IInv, Holding, AllHeld, StandsDownHolding
  <1> QED
    BY <1>1, Inductive, PTL

\* entry.c:86-87: the game asks for Direct3D through this patch's hooks,
\* unless a thread is at that moment at work.
THEOREM AsksThroughHooks == Spec => HookedForDirect3D
  <1>1. IInv /\ [Next]_vars =>
           [AskDirect3D /\ installed = "yes" /\ calls <= MaxCalls /\ ~busy
                => \A i \in Imports : slot[i] = "hfr"]_vars
    BY DEF IInv, Shape, Exclusive, Critical, Holding, Hooked, AllHeld, AskDirect3D,
           Goes
  <1> QED
    BY <1>1, Inductive, PTL DEF Spec, HookedForDirect3D
===============================================================================
