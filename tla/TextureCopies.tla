----------------------------- MODULE TextureCopies ----------------------------
(***************************************************************************)
(* The magnified copies of the game's textures (src/core/texscale.c and    *)
(* the texture hooks of src/backends/d3d9.c).                              *)
(*                                                                         *)
(* A registry holds an entry for every texture the device creates, the     *)
(* copies and the working textures of the filter chain included: they are  *)
(* made through the same hook.  The first bind of a game texture makes its *)
(* copy; a write marks the copy stale, and the next bind makes it again;   *)
(* the last release of a texture drops its entry and its copy.  The hook   *)
(* on Release is on the class, so it runs again inside the release of a    *)
(* copy's owner, and for each working texture that a generation makes anew *)
(* in another size.  All of them move entries that a caller holds by place.*)
(*                                                                         *)
(* Everything runs on the thread that draws, one call at a time; a         *)
(* generation is taken a working texture at a time, with nothing between.  *)
(* A texture is an address, used again once freed, by the game or for a    *)
(* copy; a working texture comes back at its own, where it has no entry    *)
(* left.  Textures that the scaler and the menu make are like the game's   *)
(* that are not eligible.  Left out are the shaders, and what a size is    *)
(* beyond a texture's share of the budget.                                 *)
(***************************************************************************)
EXTENDS Integers, Sequences, FiniteSets

CONSTANTS
    Addresses,   \* of textures, the game's and the copies
    Working,     \* addresses of g_tstage and g_tpass, in the order they are made
    Costs,       \* what a copy takes of the budget, by texture
    Budget,      \* TEX_BUDGET
    MaxEntries,  \* TEX_MAX
    MaxTextures, \* bound: textures of the game at a time
    Pictures,    \* what a texture may hold
    Failing,     \* which of a generation's calls may fail: "create", "chain"
    Lapses,      \* calls that are let lose the entry they hold: "free", "bind", "reset"
    None         \* NULL

ASSUME CopyConstants ==
    /\ Costs \subseteq Nat \ {0} /\ Budget \in Nat /\ MaxEntries \in Nat
    /\ Failing \subseteq {"create", "chain"} /\ None \notin Addresses \cup Pictures
    /\ None \notin [tex : Addresses, at : Nat, up : Addresses, turn : Nat]
    /\ DOMAIN Working = 1..Len(Working)
    /\ \A i, j \in DOMAIN Working : Working[i] = Working[j] => i = j
    /\ \A i \in DOMAIN Working : Working[i] \notin Addresses \cup {None}
    /\ Lapses \subseteq {"free", "bind", "reset"}

VARIABLES
    textures,   \* the game's textures that have not been freed
    copies,     \* the copies that exist
    content,    \* the picture each holds, None before a copy is drawn; a copy's is
                \* that of the picture it was made from
    locked,     \* the game's textures that are locked for writing
    reg,        \* g_tex[0..g_tex_count-1]
    charged,    \* g_tex_bytes
    targets,    \* the size that each working texture has, 0 when it is not there
    making,     \* the bind that is in tex_generate: the texture, its entry's place (e),
                \* the copy (dst) and the next working texture; None between binds
    given       \* history: the last bind, <<asked, bound>>, while nothing followed

deviceVars == <<textures, copies, content, locked>>
copyVars == <<deviceVars, reg, charged, targets, making, given>>

CopiesInit ==
    /\ textures = {} /\ copies = {} /\ locked = {}
    /\ reg = <<>> /\ charged = 0 /\ making = None /\ given = None
    /\ targets = [k \in DOMAIN Working |-> 0]
    /\ content = [x \in Addresses |-> None]

Unused == Addresses \ (textures \cup copies)

Entry(t, size, eligible) ==
    [tex |-> t, up |-> None, size |-> size, eligible |-> eligible, dirty |-> FALSE,
     failed |-> FALSE]
-------------------------------------------------------------------------------
(* The registry. *)

\* tex_find: the first entry of a texture, 0 if it has none.
Places(r, t) == {i \in DOMAIN r : r[i].tex = t}
Find(r, t) ==
    IF Places(r, t) = {} THEN 0 ELSE CHOOSE i \in Places(r, t) : \A j \in Places(r, t) : i <= j

\* *e = g_tex[--g_tex_count]: the last entry takes the place, if it is within.
Without(r, i) == [j \in 1..Len(r) - 1 |-> IF j = i THEN r[Len(r)] ELSE r[j]]

\* SAFE_RELEASE of a copy: the hook finds the copy's own entry and drops it.
Freed(r, u) == IF Find(r, u) = 0 THEN r ELSE Without(r, Find(r, u))

\* Faulty: the entry is dropped and its copy kept.
ForgetEntryOnly(r, i) == Without(r, i)

\* tex_forget.  The position i is the one found before the copy is released.
Forget(r, i) == Without(IF r[i].up = None THEN r ELSE Freed(r, r[i].up), i)

\* g_tex_bytes once an entry is forgotten.
Refund(e) == IF e.up = None THEN charged ELSE charged - IF e.size < charged THEN e.size ELSE charged

\* tex_forget, of the entry of a texture that has one.
Forgotten(t) == IF Find(reg, t) = 0 THEN reg ELSE Forget(reg, Find(reg, t))
Refunded(t) == IF Find(reg, t) = 0 THEN charged ELSE Refund(reg[Find(reg, t)])
GoneWith(t) == IF Find(reg, t) = 0 THEN {} ELSE {reg[Find(reg, t)].up}

\* Where the place that tex_forget goes on with is not its entry's any more: the entry
\* was the last, and has taken the place of its copy's, which stands before it (but not
\* next to it, where the right one is dropped all the same).
Overwrites(t) ==
    LET i == Find(reg, t) IN
    i # 0 /\ i = Len(reg) /\ reg[i].up # None /\ Find(reg, reg[i].up) \in 1..i - 2

\* tex_register, once what the address was before is forgotten.
Register(r, t, size, eligible) ==
    IF Len(r) >= MaxEntries THEN r ELSE Append(r, Entry(t, size, eligible))

\* tex_dirty_texture, tex_dirty_surface.
Marked(r, t) == [j \in DOMAIN r |-> IF j = Find(r, t) THEN [r[j] EXCEPT !.dirty = TRUE] ELSE r[j]]
-------------------------------------------------------------------------------
(* The game's calls. *)

\* hook_CreateTexture: eligible unless it is a render target, too large, mipmapped.
Create(t, size, eligible, picture) ==
    /\ making = None /\ t \in Unused /\ Cardinality(textures) < MaxTextures
    /\ reg' = Register(Forgotten(t), t, size, eligible) \* the pointer came back after a free
    /\ charged' = Refunded(t)
    /\ textures' = textures \cup {t} /\ copies' = copies \ GoneWith(t)
    /\ content' = [content EXCEPT ![t] = picture]
    /\ given' = None /\ UNCHANGED <<locked, targets, making>>

\* hook_TexRelease, of the last reference: tex_released.
Free(t) ==
    /\ making = None /\ t \in textures \ locked
    /\ Overwrites(t) => "free" \in Lapses
    /\ reg' = Forgotten(t) /\ charged' = Refunded(t)
    /\ textures' = textures \ {t} /\ copies' = copies \ GoneWith(t)
    /\ given' = None /\ UNCHANGED <<content, locked, targets, making>>

\* Faulty: the copy is not marked, so that only surface loads make it again.
LockUnmarked(r, t) == r

\* hook_TexLockRect marks before the game writes.
LockMark(r, t) == Marked(r, t)

Lock(t) ==
    /\ making = None /\ t \in textures \ locked
    /\ reg' = LockMark(reg, t) /\ locked' = locked \cup {t}
    /\ given' = None /\ UNCHANGED <<textures, copies, content, charged, targets, making>>

Unlock(t, picture) ==
    /\ making = None /\ t \in locked
    /\ locked' = locked \ {t} /\ content' = [content EXCEPT ![t] = picture]
    /\ given' = None /\ UNCHANGED <<textures, copies, reg, charged, targets, making>>

\* hook_D3DXLoadSurfaceFromMemory and its two siblings, into level 0.
LoadSurface(t, picture) ==
    /\ making = None /\ t \in textures \ locked
    /\ reg' = Marked(reg, t) /\ content' = [content EXCEPT ![t] = picture]
    /\ given' = None /\ UNCHANGED <<textures, copies, locked, charged, targets, making>>
-------------------------------------------------------------------------------
(* tex_substitute: the bind. *)

\* An entry that is bound as it is: none, not eligible, or given up.
BoundAsItIs(i) == i # 0 => ~reg[i].eligible \/ reg[i].failed

NeedsCopy(i) == reg[i].up = None \/ reg[i].dirty

\* The copy has a place in the budget and the device makes it.
Affordable(e) == charged + e.size <= Budget

Give(t, x) == given' = <<t, x>> /\ making' = None

\* tex_generate holds the entry by its place.
Generates(t, i, u) == making' = [tex |-> t, at |-> i, up |-> u, turn |-> 1] /\ given' = None

BindAsItIs(t) ==
    /\ BoundAsItIs(Find(reg, t)) /\ Give(t, t)
    /\ UNCHANGED <<deviceVars, reg, charged, targets>>

BindCopy(t) ==
    LET i == Find(reg, t) IN
    /\ ~BoundAsItIs(i) /\ ~NeedsCopy(i) /\ Give(t, reg[i].up)
    /\ UNCHANGED <<deviceVars, reg, charged, targets>>

\* No copy yet, and none can be had: the texture is given up.
GiveUp(t) ==
    LET i == Find(reg, t) IN
    /\ ~BoundAsItIs(i) /\ reg[i].up = None
    /\ ~Affordable(reg[i]) \/ "create" \in Failing
    /\ reg' = [reg EXCEPT ![i].failed = TRUE]
    /\ Give(t, t) /\ UNCHANGED <<deviceVars, charged, targets>>

\* A copy is made: CreateTexture registers it as any texture of the device.
MakeCopy(t) ==
    LET i == Find(reg, t) IN
    /\ ~BoundAsItIs(i) /\ reg[i].up = None /\ Affordable(reg[i])
    /\ \E u \in Unused :
        /\ reg' = [Register(Forgotten(u), u, 0, FALSE) EXCEPT ![i].up = u]
        /\ copies' = (copies \ GoneWith(u)) \cup {u} /\ charged' = Refunded(u) + reg[i].size
        /\ content' = [content EXCEPT ![u] = None]
        /\ Generates(t, i, u)
    /\ UNCHANGED <<textures, locked, targets>>

\* A stale copy is drawn again.
RemakeCopy(t) ==
    LET i == Find(reg, t) IN
    /\ ~BoundAsItIs(i) /\ reg[i].up # None /\ reg[i].dirty
    /\ Generates(t, i, reg[i].up)
    /\ UNCHANGED <<deviceVars, reg, charged, targets>>

\* hook_SetTexture, stage 0, of a texture that is not locked.
Bind(t) ==
    /\ making = None /\ t \in textures \ locked
    /\ BindAsItIs(t) \/ BindCopy(t) \/ GiveUp(t) \/ MakeCopy(t) \/ RemakeCopy(t)
-------------------------------------------------------------------------------
(* tex_generate: the working textures, and the copy.  What is read of the  *)
(* entry is read where it was found.                                       *)

Held == reg[making.at]
AtTarget == making # None /\ making.turn \in DOMAIN Working
Target == Working[making.turn]
Serves == targets[making.turn] = Held.size

\* The entry is the last, and takes the place of the working texture's.
MovesHeld == making.at = Len(reg) /\ Find(reg, Target) # 0

\* tex_ensure_stage and tex_ensure_target, of a working texture that will do.
KeepTarget ==
    /\ AtTarget /\ Serves /\ making' = [making EXCEPT !.turn = @ + 1]
    /\ UNCHANGED <<deviceVars, reg, charged, targets, given>>

\* Of one in another size, or none: it is released, and registered when it is made;
\* when it cannot be, the copy stays as it was.
MakeTarget ==
    /\ AtTarget /\ ~Serves
    /\ \E fails \in IF "chain" \in Failing THEN BOOLEAN ELSE {FALSE} :
        LET r == Freed(reg, Target) IN
        /\ MovesHeld /\ ~fails => "bind" \in Lapses
        /\ reg' = IF fails THEN r ELSE Register(r, Target, Held.size, FALSE)
        /\ targets' = [targets EXCEPT ![making.turn] = IF fails THEN 0 ELSE Held.size]
        /\ making' = IF fails THEN None ELSE [making EXCEPT !.turn = @ + 1]
        /\ given' = IF fails THEN <<making.tex, making.tex>> ELSE None
    /\ UNCHANGED <<deviceVars, charged>>

\* The passes, from the entry's texture into the copy.  One of them may be too large
\* for the device when the entry is another's.
Draw ==
    /\ making # None /\ making.turn \notin DOMAIN Working
    /\ \E fails \in IF Held.tex = making.tex THEN {FALSE} ELSE BOOLEAN :
        /\ reg' = [reg EXCEPT ![making.at] = IF fails THEN [@ EXCEPT !.failed = TRUE]
                                                      ELSE [@ EXCEPT !.dirty = FALSE]]
        /\ content' = [content EXCEPT ![making.up] =
                          IF Held.tex = making.tex THEN content[making.tex] ELSE None]
        /\ Give(making.tex, IF fails THEN making.tex ELSE Held.up)
    /\ UNCHANGED <<textures, copies, locked, charged, targets>>
-------------------------------------------------------------------------------
(* texscale_release and texscale_init: the device is reset. *)

\* One turn of the loop over g_tex; a turn past g_tex_count does not happen.
ReleaseTurn(acc, i) ==
    IF i > Len(acc.reg) \/ acc.reg[i].up = None THEN acc
    ELSE LET u == acc.reg[i].up
             r == Freed(acc.reg, u) IN
         [reg |-> IF i <= Len(r) THEN [r EXCEPT ![i].up = None] ELSE r,
          gone |-> acc.gone \cup {u}]

\* The table, and the copies that are gone, after each turn.
ReleaseLoop ==
    LET after[i \in 0..Len(reg)] ==
            IF i = 0 THEN [reg |-> reg, gone |-> {}] ELSE ReleaseTurn(after[i - 1], i)
    IN  after

GoneAll == ReleaseLoop[Len(reg)].gone

\* Where a turn of the loop moves a copy's owner to a place the loop has passed.
StepsOver ==
    \E i \in 1..Len(reg) :
        LET r == ReleaseLoop[i - 1].reg IN
        /\ i < Len(r) /\ r[i].up # None /\ r[Len(r)].up # None
        /\ Find(r, r[i].up) \in 1..i - 1

\* The game's textures outlive the reset and have no entry any more; the working
\* textures go when the table is empty.
Reset ==
    /\ making = None /\ locked = {} /\ (StepsOver => "reset" \in Lapses)
    /\ reg' = <<>> /\ charged' = 0 /\ copies' = copies \ GoneAll
    /\ targets' = [k \in DOMAIN Working |-> 0]
    /\ given' = None /\ UNCHANGED <<textures, content, locked, making>>

CopiesNext ==
    \/ \E t \in Addresses, picture \in Pictures :
          \/ \E size \in Costs, eligible \in BOOLEAN : Create(t, size, eligible, picture)
          \/ Unlock(t, picture) \/ LoadSurface(t, picture)
    \/ \E t \in Addresses : Free(t) \/ Lock(t) \/ Bind(t)
    \/ KeepTarget \/ MakeTarget \/ Draw \/ Reset

CopiesSpec == CopiesInit /\ [][CopiesNext]_copyVars
-------------------------------------------------------------------------------
(* Properties. *)

\* What a bind hands over is the texture itself, or a copy that exists and
\* was made of this texture as it is now: not of an earlier content, and not
\* of a texture that had this address before (tex_substitute, the marks of
\* texscale.c:221-222, tex_register's "the pointer came back").
FreshBind ==
    given # None =>
        \/ given[2] = given[1]
        \/ /\ given[2] \in copies
           /\ content[given[2]] = content[given[1]]

\* The budget is charged for the copies that exist, neither more (textures
\* would stay small for nothing) nor less (tex_generate, tex_forget).
ChargeOf(e) == IF e.up = None THEN 0 ELSE e.size
Charge(r) ==
    LET upTo[i \in 0..Len(r)] == IF i = 0 THEN 0 ELSE upTo[i - 1] + ChargeOf(r[i])
    IN  upTo[Len(r)]
ChargedForCopies == charged = Charge(reg)

\* A copy is owned (texscale.c:30): every copy that exists is that of exactly
\* one entry, whose texture exists, no entry holds a copy that is gone, and the
\* budget is charged for them.  After texscale_release, in particular, none is
\* left.
CopiesOwned ==
    /\ \A u \in copies : \E i \in DOMAIN reg : reg[i].up = u
    /\ \A i \in DOMAIN reg : reg[i].up # None => reg[i].up \in copies /\ reg[i].tex \in textures
    /\ \A i, j \in DOMAIN reg : reg[i].up = reg[j].up /\ reg[i].up # None => i = j
    /\ ChargedForCopies
===============================================================================
