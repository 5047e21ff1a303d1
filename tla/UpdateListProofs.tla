--------------------------- MODULE UpdateListProofs ---------------------------
(***************************************************************************)
(* Proofs about a frame's two halves: about UpdateList, for every list of  *)
(* nodes and every choice of the stepped and the volatile ones, and about  *)
(* PoseHistory, for every number of things and size of the table.          *)
(*                                                                         *)
(* None of the invariants is inductive.  What those of the walk need is    *)
(* where it stands: in order (Walk), not behind a barrier that stays on    *)
(* the list (Barred), and with every node before it called exactly as      *)
(* often as it should have been (CallsRight).                              *)
(***************************************************************************)
EXTENDS UpdateList, PoseHistory, WellFoundedInduction, TLAPS

-------------------------------------------------------------------------------
(* The next node. *)

\* The nodes are 1 to Size, the end of the list after them.
LEMMA NodeFacts ==
    /\ Nodes \subseteq Nat /\ Nodes = 1 .. Size /\ End = Size + 1 /\ Size \in Nat \ {0}
    /\ End \notin Nodes /\ 1 .. End = Nodes \cup {End}
    /\ Gm \in Nodes /\ Gm \notin Stepped /\ Gm \notin Volatile
    /\ Volatile \subseteq Nodes /\ Stepped \subseteq Nodes
    /\ None \notin Nodes
  BY ListConstants DEF Nodes, End, None

\* A set of natural numbers has a least element.
LEMMA Least ==
    ASSUME NEW S, S \subseteq Nat, S # {}
    PROVE  \E x \in S : \A y \in S : x <= y
  <1> DEFINE R == OpToRel(<, Nat)
  <1>1. IsWellFoundedOn(R, Nat)
    BY NatLessThanWellFounded
  <1>2. PICK x \in S : \A y \in S : <<y, x>> \notin R
    <2> HIDE DEF R
    <2> QED BY <1>1, WFMin
  <1>3. \A y \in S : ~(y < x)
    BY <1>2 DEF OpToRel
  <1> QED BY <1>3

\* From finds the first node of a list at a place or behind it, End if none.
LEMMA FromIs ==
    ASSUME NEW l, l \subseteq Nodes, NEW x \in Nat, x <= End + 1
    PROVE  /\ From(l, x) \in l \cup {End}
           /\ From(l, x) >= x \/ From(l, x) = End
           /\ From(l, x) \in 1 .. End
           /\ \A y \in l : y >= x => From(l, x) <= y
  <1> DEFINE S == {z \in l : z >= x} \cup {End}
  <1>1. S \subseteq Nat /\ End \in S /\ End \in Nat /\ l \subseteq 1 .. Size
    <2>1. End \in Nat /\ l \subseteq 1 .. Size /\ l \subseteq Nat
      BY NodeFacts
    <2> QED BY <2>1
  <1>2. \E y \in S : \A z \in S : y <= z
    BY <1>1, Least
  <1>3. From(l, x) \in S /\ \A z \in S : From(l, x) <= z
    BY <1>2 DEF From
  <1> QED BY <1>1, <1>3, NodeFacts

-------------------------------------------------------------------------------
(* The invariants. *)

Type ==
    /\ list \subseteq Nodes /\ off \subseteq list /\ Gm \in list \ off
    /\ uf \in 1 .. End /\ next \in 1 .. End
    /\ pass \in {"walk", "whole", "cut", "over"}
    /\ {major, pause, ending, playing, forward, paused} \subseteq BOOLEAN
    /\ minors \in 0 .. MaxMinors
    /\ halted \in (Nodes \ Stepped) \cup {None} /\ stopId = halted
    /\ calls \in [Nodes -> Nat] /\ again \in [Nodes -> Nat]
    /\ stable \subseteq list \ off

\* The walk goes forward, and passes over no node that was there all along.
Walk ==
    pass = "walk" =>
        /\ Gm \in stable
        /\ uf \in Nodes => next > uf
        /\ uf = End => next = End
        /\ \A x \in stable : x > uf => x >= next

\* The walk has not passed node b.
Before(b) == uf <= b /\ (uf < b => next <= b)

Uncalled(b) == \A x \in Nodes : x > b => calls[x] = 0

\* On a minor tick the walk is not behind a node that will cut it.
Barred ==
    ~major =>
        /\ halted \in stable => Uncalled(halted)
        /\ paused => Uncalled(Gm)
        /\ pass = "cut" => halted # None \/ pause
        /\ pass = "walk" /\ ~ending =>
              /\ halted \in stable => Before(halted)
              /\ paused => pause /\ Before(Gm)

\* How often a node is called in a pass, and how often it has been when the
\* walk is at it or before it.
Full(x) == calls[x] = IF major \/ x \in Stepped THEN 1 + again[x] ELSE 0
Fresh(x) == calls[x] = again[x] /\ (~major /\ x \notin Stepped => calls[x] = 0)

CallsRight ==
    playing /\ ~ending =>
        /\ pass = "whole" => \A x \in stable : Full(x)
        /\ pass = "walk" => \A x \in stable : IF x < uf THEN Full(x) ELSE Fresh(x)

OnList == HasCell /\ pass = "walk" => {uf, next} \subseteq list \cup {End}

IInv == Type /\ Walk /\ Barred /\ CallsRight /\ OnList


\* The walk goes to node n of list l.
LEMMA WalkToNode ==
    ASSUME NEW l, l \subseteq Nodes, NEW n \in 1 .. End, WalkTo(n, l)
    PROVE  /\ uf' = n /\ next' \in 1 .. End /\ next' \in l \cup {End}
           /\ n \in Nodes => next' > n
           /\ n = End => next' = End
           /\ \A y \in l : y > n => y >= next'
  <1>1. /\ From(l, n + 1) \in l \cup {End}
        /\ From(l, n + 1) >= n + 1 \/ From(l, n + 1) = End
        /\ From(l, n + 1) \in 1 .. End
        /\ \A y \in l : y >= n + 1 => From(l, n + 1) <= y
    <2>1. n + 1 \in Nat /\ n + 1 <= End + 1
      BY NodeFacts
    <2> QED BY <2>1, FromIs
  <1>2. l \subseteq Nat
    BY NodeFacts
  <1> QED BY <1>1, <1>2, NodeFacts DEF WalkTo

\* A fresh list satisfies the invariant.
LEMMA InitIInv == Init => IInv
  <1> SUFFICES ASSUME Init PROVE IInv
    OBVIOUS
  <1>1. End \in 1 .. End /\ MaxMinors \in 0 .. MaxMinors
    BY ListConstants, NodeFacts
  <1>2. calls \in [Nodes -> Nat] /\ again \in [Nodes -> Nat]
    BY DEF Init, Never
  <1>3. Type
    BY <1>1, <1>2, NodeFacts DEF Init, Type
  <1> QED BY <1>3 DEF Init, IInv, Walk, Barred, CallsRight, OnList

\* A pass begins at the head of the list.
LEMMA BeginKeeps ==
    ASSUME IInv, NEW m \in BOOLEAN, Begin(m), minors' \in 0 .. MaxMinors,
           m => stopId' = None /\ halted' = None,
           ~m => UNCHANGED <<stopId, halted>>
    PROVE  IInv'
  <1>1. From(list, 1) \in 1 .. End /\ (\A y \in list : From(list, 1) <= y)
        /\ From(list, 1) \in list \cup {End}
    <2>1. list \subseteq Nodes /\ 1 <= End + 1 /\ \A y \in list : y >= 1
      BY NodeFacts DEF IInv, Type
    <2> QED BY <2>1, FromIs
  <1>2. PICK n \in 1 .. End : n = From(list, 1)
    BY <1>1
  <1>3. /\ uf' = n /\ next' \in 1 .. End /\ next' \in list \cup {End}
        /\ n \in Nodes => next' > n
        /\ n = End => next' = End
        /\ \A y \in list : y > n => y >= next'
    BY <1>2, WalkToNode DEF Begin, IInv, Type
  <1>4. /\ pass' = "walk" /\ major' = m /\ calls' = Never /\ again' = Never
        /\ stable' = list \ off /\ paused' = pause
        /\ UNCHANGED <<list, off, pause, ending, playing, forward>>
    BY DEF Begin
  <1>5. Type'
    BY <1>3, <1>4, NodeFacts DEF IInv, Type, Never
  <1>6. Walk' /\ OnList'
    BY <1>1, <1>2, <1>3, <1>4, NodeFacts DEF IInv, Type, Walk, OnList
  <1>7. Barred'
    <2>1. \A b \in stable' : Before(b)'
      BY <1>1, <1>2, <1>3, <1>4, NodeFacts DEF IInv, Type, Before
    <2>2. \A b : Uncalled(b)'
      BY <1>4 DEF Uncalled, Never
    <2> QED BY <1>4, <2>1, <2>2 DEF Barred, IInv, Type
  <1>8. CallsRight'
    BY <1>1, <1>2, <1>3, <1>4, NodeFacts DEF IInv, Type, CallsRight, Fresh, Never
  <1> QED BY <1>5, <1>6, <1>7, <1>8 DEF IInv

\* The walk passes over a node that is disabled, or that is not called in this
\* tick and does not cut it.
LEMMA PassedOnKeeps ==
    ASSUME IInv, AtNode, WalkTo(next, list), UNCHANGED pass, Quiet,
           uf \in off \/ ending \/ (~major /\ uf \notin Stepped /\ ~Cut(uf))
    PROVE  IInv'
  <1>1. /\ list \subseteq Nodes /\ uf \in Nodes /\ next \in 1 .. End /\ next > uf
        /\ pass = "walk" /\ \A x \in stable : x > uf => x >= next
    BY DEF IInv, Type, Walk, AtNode
  <1>2. /\ uf' = next /\ next' \in 1 .. End /\ next' \in list \cup {End}
        /\ next \in Nodes => next' > next
        /\ next = End => next' = End
        /\ \A y \in list : y > next => y >= next'
    BY <1>1, WalkToNode
  <1>3. Type' /\ Walk' /\ OnList'
    BY <1>1, <1>2, NodeFacts DEF IInv, Type, Walk, OnList, Quiet
  <1>4. Barred'
    <2>1. ASSUME NEW b \in stable, Before(b), uf # b PROVE Before(b)'
      BY <1>1, <1>2, <2>1, NodeFacts DEF IInv, Type, Before
    <2>2. ASSUME ~major, ~ending, halted \in stable PROVE Before(halted)'
      <3>1. Before(halted) /\ uf # halted
        BY <1>1, <2>2 DEF IInv, Type, Barred, Cut
      <3> QED BY <2>1, <2>2, <3>1 DEF Quiet, Before
    <2>3. ASSUME ~major, ~ending, paused PROVE pause /\ Before(Gm)'
      <3>1. Gm \in stable /\ Before(Gm) /\ pause /\ uf # Gm
        BY <1>1, <2>3 DEF IInv, Type, Walk, Barred, Cut
      <3> QED BY <2>1, <3>1
    <2>4. pass' = "walk"
      BY <1>1
    <2> QED BY <2>2, <2>3, <2>4 DEF IInv, Barred, Quiet, Uncalled, Before
  <1>5. CallsRight'
    <2> SUFFICES ASSUME playing, ~ending, NEW x \in stable
                 PROVE  IF x < next THEN Full(x) ELSE Fresh(x)
      BY <1>1, <1>2 DEF CallsRight, Quiet, Full, Fresh
    <2>1. IF x < uf THEN Full(x) ELSE Fresh(x)
      BY <1>1 DEF IInv, CallsRight
    <2>2. CASE x = uf
      <3>1. ~major /\ uf \notin Stepped
        BY <2>2 DEF IInv, Type
      <3> QED BY <1>1, <2>1, <2>2, <3>1, NodeFacts DEF Full, Fresh
    <2>3. CASE x < uf
      BY <1>1, <2>1, <2>3, NodeFacts DEF IInv, Type
    <2>4. CASE x > uf
      BY <1>1, <2>1, <2>4, NodeFacts DEF IInv, Type
    <2> QED BY <1>1, <2>2, <2>3, <2>4, NodeFacts DEF IInv, Type
  <1> QED BY <1>3, <1>4, <1>5 DEF IInv

\* The end of a pass keeps the invariant.
LEMMA PassEndKeeps == IInv /\ PassEnd => IInv'
  <1> SUFFICES ASSUME IInv, PassEnd PROVE IInv'
    OBVIOUS
  <1>1. uf = End /\ pass = "walk" /\ pass' = "whole" /\ UNCHANGED <<uf, next>> /\ Quiet
    BY DEF PassEnd
  <1>2. Type' /\ Walk' /\ OnList'
    BY <1>1 DEF IInv, Type, Walk, OnList, Quiet
  <1>3. Barred'
    BY <1>1 DEF IInv, Barred, Quiet, Uncalled
  <1>4. CallsRight'
    <2>1. \A x \in stable : x < uf
      BY <1>1, NodeFacts DEF IInv, Type
    <2> QED BY <1>1, <2>1 DEF IInv, CallsRight, Quiet, Full
  <1> QED BY <1>2, <1>3, <1>4 DEF IInv

\* So does a cut,
LEMMA CutHereKeeps == IInv /\ CutHere => IInv'
  <1> SUFFICES ASSUME IInv, CutHere PROVE IInv'
    OBVIOUS
  <1>1. /\ uf \in Nodes /\ Cut(uf) /\ pass' = "cut" /\ UNCHANGED <<uf, next>>
        /\ Quiet /\ pass = "walk" /\ ~major
    BY DEF CutHere, OnMinor, AtNode
  <1>2. Type' /\ Walk' /\ OnList' /\ CallsRight'
    BY <1>1 DEF IInv, Type, Walk, OnList, CallsRight, Quiet
  <1>3. halted # None \/ pause
    BY <1>1, NodeFacts DEF IInv, Type, Cut
  <1> QED BY <1>1, <1>2, <1>3 DEF IInv, Barred, Quiet, Uncalled

\* a frame of fast forward,
LEMMA ForwardedKeeps == IInv /\ Forwarded => IInv'
  <1> SUFFICES ASSUME IInv, Forwarded PROVE IInv'
    OBVIOUS
  <1>1. Type'
    BY DEF Forwarded, IInv, Type
  <1>2. Walk' /\ OnList'
    BY DEF Forwarded, IInv, Walk, OnList
  <1>3. Barred'
    BY DEF Forwarded, IInv, Barred, Uncalled, Before
  <1>4. CallsRight'
    BY DEF Forwarded, IInv, CallsRight, Full, Fresh
  <1> QED BY <1>1, <1>2, <1>3, <1>4 DEF IInv

\* and a new list.
LEMMA NextSceneKeeps == IInv /\ NextScene => IInv'
  <1> SUFFICES ASSUME IInv, NextScene PROVE IInv'
    OBVIOUS
  <1>1. Type'
    <2>1. /\ list' = Nodes /\ off' = {} /\ pass' = "whole" /\ minors' = MaxMinors
          /\ pause' = FALSE /\ ending' = FALSE /\ playing' \in BOOLEAN /\ stable' = {}
          /\ UNCHANGED <<uf, next, major, stopId, forward, calls, again, halted, paused>>
      BY DEF NextScene
    <2>2. Gm \in list' \ off' /\ minors' \in 0 .. MaxMinors
      BY <2>1, ListConstants, NodeFacts
    <2> QED BY <2>1, <2>2 DEF IInv, Type
  <1>2. pass' = "whole" /\ stable' = {}
    BY DEF NextScene
  <1>3. Barred'
    BY <1>2 DEF NextScene, IInv, Barred, Uncalled
  <1> QED BY <1>1, <1>2, <1>3 DEF IInv, Walk, CallsRight, OnList

-------------------------------------------------------------------------------
(* A call. *)

\* What a callback may do to the list.
LEMMA EditedIs ==
    ASSUME IInv, uf \in Nodes, NEW e \in Edited(uf)
    PROVE  /\ e.list \subseteq Nodes /\ e.off \subseteq e.list
           /\ Gm \in e.list \ e.off
           /\ uf \in list => uf \in e.list
  <1>1. list \subseteq Nodes /\ off \subseteq list /\ Gm \in list \ off
    BY DEF IInv, Type
  <1>2. CASE e = [list |-> list, off |-> off]
    BY <1>1, <1>2
  <1>3. CASE \E y \in (Volatile \ {uf}) \cap list :
                e = [list |-> list \ {y}, off |-> off \ {y}]
    BY <1>1, <1>3, NodeFacts
  <1>4. CASE \E y \in Volatile \ list : e = [list |-> list \cup {y}, off |-> off]
    BY <1>1, <1>4, NodeFacts
  <1>5. CASE \E y \in Volatile \cap list : e = [list |-> list, off |-> off \cup {y}]
    BY <1>1, <1>5, NodeFacts
  <1>6. CASE \E y \in off : e = [list |-> list, off |-> off \ {y}]
    BY <1>1, <1>6
  <1> QED BY <1>2, <1>3, <1>4, <1>5, <1>6 DEF Edited

\* Where the walk goes on after one: not past a node that is still there.
LEMMA GoesOnTo ==
    ASSUME IInv, AtNode, NEW l, l \subseteq Nodes
    PROVE  /\ NextAfterCall(l) \in 1 .. End /\ NextAfterCall(l) > uf
           /\ HasCell => NextAfterCall(l) \in l \cup {End}
           /\ \A x \in stable \cap l : x > uf => x >= NextAfterCall(l)
  <1>1. /\ uf \in Nodes /\ next \in 1 .. End /\ next > uf
        /\ \A x \in stable : x > uf => x >= next
    BY DEF IInv, Type, Walk, AtNode
  <1>2. next \in Nat /\ next <= End + 1
    BY <1>1, NodeFacts
  <1>3. /\ From(l, next) \in l \cup {End}
        /\ From(l, next) >= next \/ From(l, next) = End
        /\ From(l, next) \in 1 .. End
        /\ \A y \in l : y >= next => From(l, next) <= y
    BY <1>2, FromIs
  <1>4. CASE HasCell
    <2>1. PICK n \in 1 .. End : n = From(l, next)
      BY <1>3
    <2>2. NextAfterCall(l) = n
      BY <1>4, <2>1 DEF NextAfterCall
    <2>3. n > uf
      BY <1>1, <1>3, <2>1, NodeFacts
    <2>4. \A x \in stable \cap l : x > uf => x >= n
      BY <1>1, <1>3, <2>1, NodeFacts
    <2> QED BY <1>3, <2>1, <2>2, <2>3, <2>4
  <1>5. CASE ~HasCell
    BY <1>1, <1>5 DEF NextAfterCall
  <1> QED BY <1>4, <1>5

\* The four ways a call can leave the walk.
Stays ==
    /\ pass' = "walk" /\ uf' = uf /\ next' = NextAfterCall(list')
    /\ again' = [again EXCEPT ![uf] = @ + 1] /\ UNCHANGED halted
    /\ uf \in list => uf \in list'
Ends ==
    /\ pass' \in {"cut", "over"} /\ UNCHANGED <<uf, next, again>>
    /\ \/ UNCHANGED halted
       \/ major /\ uf \notin Stepped /\ halted' = uf
    /\ pass' = "cut" => major
Restarts ==
    /\ pass' = "walk" /\ major /\ ~playing /\ WalkTo(From(list', 1), list')
    /\ UNCHANGED <<again, halted>>
WalksOn ==
    /\ pass' = "walk" /\ WalkTo(NextAfterCall(list'), list')
    /\ UNCHANGED <<again, halted>>

\* What a callback may do to the list, and what it leaves alone.
LEMMA CallIs ==
    ASSUME IInv, Call
    PROVE  /\ AtNode /\ uf \notin off /\ ~ending /\ (major \/ uf \in Stepped)
           /\ list' \subseteq Nodes /\ off' \subseteq list' /\ Gm \in list' \ off'
           /\ stopId' = halted' /\ forward' \in BOOLEAN
           /\ calls' = [calls EXCEPT ![uf] = @ + 1]
           /\ pause' \in BOOLEAN /\ ending' \in BOOLEAN
           /\ ~major /\ pause => pause'
           /\ stable' = (stable \cap list') \ off'
           /\ UNCHANGED <<major, minors, playing, paused>>
           /\ Stays \/ Ends \/ Restarts \/ WalksOn
  <1>1. /\ AtNode /\ uf \notin off /\ ~ending /\ (major \/ uf \in Stepped)
        /\ calls' = [calls EXCEPT ![uf] = @ + 1]
        /\ pause' \in Pauses(uf) /\ ending' \in {FALSE, uf = Size}
        /\ stable' = (stable \cap list') \ off'
        /\ UNCHANGED <<major, minors, playing, paused>>
    BY DEF Call
  <1>2. PICK e \in Edited(uf), r \in Answers(uf) :
            /\ Goes(r, e)
            /\ halted' = IF r = 3 /\ major THEN uf ELSE halted
            /\ again' = IF r = 2 /\ uf \notin off'
                         THEN [again EXCEPT ![uf] = @ + 1] ELSE again
    BY DEF Call
  <1>3. uf \in Nodes /\ stopId = halted
    BY <1>1 DEF AtNode, IInv, Type
  <1>4. /\ e.list \subseteq Nodes /\ e.off \subseteq e.list
        /\ Gm \in e.list \ e.off
        /\ uf \in list => uf \in e.list
    BY <1>3, EditedIs
  <1>5. /\ r \in {0, 1, 2, 3, 4, 6, 7}
        /\ r = 0 => uf # Gm
        /\ r \in {3, 4, 6} => uf \notin Stepped /\ major
    BY <1>1, NodeFacts DEF Answers
  <1>6. /\ list' = IF r = 0 THEN e.list \ {uf} ELSE e.list
        /\ off' = e.off \cap list'
        /\ forward' = (forward \/ (r = 6 /\ Counted))
        /\ stopId' = IF r = 3 /\ major THEN uf ELSE stopId
    BY <1>2 DEF Goes
  <1>7. list' \subseteq Nodes /\ off' \subseteq list' /\ Gm \in list' \ off'
    BY <1>4, <1>5, <1>6
  <1>8. stopId' = halted' /\ forward' \in BOOLEAN /\ ending' \in BOOLEAN
    BY <1>1, <1>2, <1>3, <1>6
  <1>9. pause' \in BOOLEAN /\ (~major /\ pause => pause')
    BY <1>1, NodeFacts DEF Pauses, IInv, Type
  <1>10. Stays \/ Ends \/ Restarts \/ WalksOn
    <2>1. CASE r = 2 /\ uf \notin off'
      <3>1. e.off \cap e.list = off'
        BY <1>6, <2>1
      <3>2. uf' = uf /\ next' = NextAfterCall(list') /\ pass' = "walk"
        BY <1>2, <1>4, <1>6, <2>1, <3>1 DEF Goes
      <3> QED BY <1>2, <1>4, <1>6, <2>1, <3>2 DEF Stays
    <2>2. CASE r = 3 \/ r = 4
      <3>1. UNCHANGED <<uf, next>> /\ pass' = IF r = 3 THEN "cut" ELSE "over"
        BY <1>2, <2>2 DEF Goes
      <3> QED BY <1>2, <1>5, <2>2, <3>1 DEF Ends
    <2>3. CASE r = 6 /\ ~Counted
      <3>1. WalkTo(From(list', 1), list') /\ pass' = "walk"
        BY <1>2, <1>6, <2>3 DEF Goes
      <3> QED BY <1>2, <1>5, <2>3, <3>1 DEF Restarts, Counted
    <2>4. CASE ~(r = 2 /\ uf \notin off') /\ r # 3 /\ r # 4 /\ ~(r = 6 /\ ~Counted)
      <3>1. WalkTo(NextAfterCall(list'), list') /\ pass' = "walk"
        BY <1>2, <1>6, <2>4 DEF Goes
      <3> QED BY <1>2, <2>4, <3>1 DEF WalksOn
    <2> QED BY <2>1, <2>2, <2>3, <2>4
  <1> QED BY <1>1, <1>7, <1>8, <1>9, <1>10

\* Outside a frame tick no call stops the pass or starts it again.
LEMMA CallKeeps == IInv /\ Call => IInv'
  <1> SUFFICES ASSUME IInv, Call PROVE IInv'
    OBVIOUS
  <1>1. /\ AtNode /\ uf \notin off /\ ~ending /\ (major \/ uf \in Stepped)
        /\ list' \subseteq Nodes /\ off' \subseteq list' /\ Gm \in list' \ off'
        /\ stopId' = halted' /\ forward' \in BOOLEAN
        /\ calls' = [calls EXCEPT ![uf] = @ + 1]
        /\ pause' \in BOOLEAN /\ ending' \in BOOLEAN
        /\ ~major /\ pause => pause'
        /\ stable' = (stable \cap list') \ off'
        /\ UNCHANGED <<major, minors, playing, paused>>
        /\ Stays \/ Ends \/ Restarts \/ WalksOn
    BY CallIs
  <1>2. /\ uf \in Nodes /\ pass = "walk" /\ next \in 1 .. End /\ next > uf
        /\ Gm \in stable /\ calls \in [Nodes -> Nat] /\ again \in [Nodes -> Nat]
        /\ halted \in (Nodes \ Stepped) \cup {None}
    BY <1>1 DEF AtNode, IInv, Type, Walk
  <1>3. PICK n \in 1 .. End : n = NextAfterCall(list')
    BY <1>1, GoesOnTo
  <1>4. /\ n > uf /\ (HasCell => n \in list' \cup {End})
        /\ \A x \in stable' : x > uf => x >= n
    BY <1>1, <1>3, GoesOnTo
  <1>5. ASSUME WalksOn
        PROVE  /\ uf' = n /\ next' \in 1 .. End /\ next' \in list' \cup {End}
               /\ n \in Nodes => next' > n
               /\ n = End => next' = End
               /\ \A y \in list' : y > n => y >= next'
    BY <1>1, <1>3, <1>5, WalkToNode DEF WalksOn
  <1>6. ASSUME Restarts
        PROVE  /\ uf' \in 1 .. End /\ next' \in 1 .. End
               /\ {uf', next'} \subseteq list' \cup {End}
               /\ uf' \in Nodes => next' > uf'
               /\ uf' = End => next' = End
               /\ \A y \in list' : y > uf' => y >= next'
    <2>1. From(list', 1) \in 1 .. End /\ From(list', 1) \in list' \cup {End}
      <3>1. 1 <= End + 1
        BY NodeFacts
      <3> QED BY <1>1, <3>1, FromIs
    <2>2. PICK h \in 1 .. End : h = From(list', 1)
      BY <2>1
    <2> QED BY <1>1, <1>6, <2>1, <2>2, WalkToNode DEF Restarts
  <1>7. Type'
    <2>1. calls' \in [Nodes -> Nat] /\ again' \in [Nodes -> Nat]
      BY <1>1, <1>2 DEF Stays, Ends, Restarts, WalksOn
    <2>2. uf' \in 1 .. End /\ next' \in 1 .. End
      BY <1>1, <1>2, <1>3, <1>5, <1>6, NodeFacts DEF Stays, Ends
    <2>3. halted' \in (Nodes \ Stepped) \cup {None}
      BY <1>1, <1>2 DEF Stays, Ends, Restarts, WalksOn
    <2>4. pass' \in {"walk", "whole", "cut", "over"}
      BY <1>1 DEF Stays, Ends, Restarts, WalksOn
    <2>5. stable' \subseteq list' \ off'
      BY <1>1
    <2> QED BY <1>1, <2>1, <2>2, <2>3, <2>4, <2>5 DEF IInv, Type
  <1>8. Walk' /\ OnList'
    <2>1. CASE Stays
      BY <1>1, <1>2, <1>3, <1>4, <2>1, NodeFacts DEF Stays, Walk, OnList, IInv
    <2>2. CASE Ends
      BY <2>2 DEF Ends, Walk, OnList
    <2>3. CASE Restarts
      BY <1>1, <1>2, <1>6, <2>3 DEF Walk, OnList
    <2>4. CASE WalksOn
      BY <1>1, <1>2, <1>3, <1>4, <1>5, <2>4 DEF Walk, OnList
    <2> QED BY <1>1, <2>1, <2>2, <2>3, <2>4
  <1>9. Barred'
    <2> SUFFICES ASSUME ~major
                 PROVE  /\ halted' \in stable' => Uncalled(halted)' /\ Before(halted)'
                        /\ paused => Uncalled(Gm)' /\ pause' /\ Before(Gm)'
                        /\ pass' = "cut" => halted' # None \/ pause'
      BY <1>1 DEF Barred
    <2>1. ~Restarts /\ ~(Ends /\ pass' = "cut") /\ halted' = halted
      BY <1>1 DEF Stays, Ends, Restarts, WalksOn
    <2>2. ASSUME NEW b \in stable', Before(b), Uncalled(b), b \notin Stepped
          PROVE  Uncalled(b)' /\ Before(b)'
      <3>1. b \in list' /\ b \in stable /\ b \in Nodes /\ uf < b
        BY <1>1, <1>2, <2>2, NodeFacts DEF IInv, Type, Before
      <3>2. Uncalled(b)'
        <4>1. \A x \in Nodes : x # uf => calls'[x] = calls[x]
          BY <1>1, <1>2
        <4>2. \A x \in Nodes : x > b => x # uf
          BY <1>2, <3>1, NodeFacts
        <4> QED BY <2>2, <4>1, <4>2 DEF Uncalled
      <3>3. n <= b
        BY <1>3, <1>4, <2>2, <3>1, NodeFacts
      <3>4. Before(b)'
        <4>1. CASE Stays
          BY <1>2, <1>3, <3>1, <3>3, <4>1, NodeFacts DEF Stays, Before
        <4>2. CASE Ends
          BY <2>2, <4>2 DEF Ends, Before
        <4>3. CASE WalksOn
          <5>1. uf' = n /\ (b > n => b >= next') /\ next' \in 1 .. End
            BY <1>5, <3>1, <4>3
          <5> QED BY <3>1, <3>3, <5>1, NodeFacts DEF Before
        <4> QED BY <1>1, <2>1, <4>1, <4>2, <4>3
      <3> QED BY <3>2, <3>4
    <2>3. Gm \in stable'
      BY <1>1, <1>2
    <2>4. halted' \in stable' => Uncalled(halted)' /\ Before(halted)'
      <3> SUFFICES ASSUME halted \in stable' PROVE Uncalled(halted)' /\ Before(halted)'
        BY <2>1
      <3>1. halted \in stable /\ halted \notin Stepped
        <4>1. halted \in stable /\ halted \in Nodes
          BY <1>1 DEF IInv, Type
        <4> QED BY <1>2, <4>1, NodeFacts
      <3>2. Uncalled(halted) /\ Before(halted)
        BY <1>1, <1>2, <3>1 DEF IInv, Barred
      <3> QED BY <2>1, <2>2, <3>1, <3>2 DEF Uncalled, Before
    <2>5. paused => Uncalled(Gm)' /\ pause' /\ Before(Gm)'
      <3> SUFFICES ASSUME paused PROVE Uncalled(Gm)' /\ pause' /\ Before(Gm)'
        OBVIOUS
      <3>1. pause /\ Uncalled(Gm) /\ Before(Gm)
        BY <1>1, <1>2 DEF IInv, Barred
      <3> QED BY <1>1, <2>2, <2>3, <3>1, NodeFacts
    <2> QED BY <1>1, <2>1, <2>4, <2>5 DEF Stays, Ends, WalksOn
  <1>10. CallsRight'
    <2> SUFFICES ASSUME playing, pass' = "walk", NEW x \in stable'
                 PROVE  IF x < uf' THEN Full(x)' ELSE Fresh(x)'
      BY <1>1 DEF CallsRight, Stays, Ends, Restarts, WalksOn
    <2>1. x \in stable /\ x \in Nodes
      BY <1>1 DEF IInv, Type
    <2>2. IF x < uf THEN Full(x) ELSE Fresh(x)
      BY <1>1, <1>2, <2>1 DEF IInv, CallsRight
    <2>3. CASE Stays
      <3>1. CASE x = uf
        BY <1>1, <1>2, <2>1, <2>2, <2>3, <3>1, NodeFacts DEF Stays, Fresh
      <3>2. CASE x # uf
        BY <1>1, <1>2, <2>1, <2>2, <2>3, <3>2 DEF Stays, Full, Fresh
      <3> QED BY <3>1, <3>2
    <2>4. CASE WalksOn
      <3>1. again' = again /\ uf' = n
        BY <1>5, <2>4 DEF WalksOn
      <3>2. CASE x = uf
        <4>1. Full(x)'
          <5>1. calls'[x] = calls[x] + 1
            BY <1>1, <1>2, <2>1, <3>2
          <5>2. Fresh(x)
            BY <1>2, <2>1, <2>2, <3>2, NodeFacts
          <5>3. again'[x] = again[x] /\ again[x] \in Nat /\ major' = major
            BY <1>1, <1>2, <2>1, <3>1
          <5>4. major \/ x \in Stepped
            BY <1>1, <3>2
          <5> QED BY <5>1, <5>2, <5>3, <5>4 DEF Full, Fresh
        <4> QED BY <1>4, <3>1, <3>2, <4>1
      <3>3. CASE x < uf
        <4>1. Full(x)'
          <5>1. calls'[x] = calls[x]
            BY <1>1, <1>2, <2>1, <3>3, NodeFacts
          <5>2. Full(x) /\ again'[x] = again[x] /\ major' = major
            BY <1>1, <2>2, <3>1, <3>3
          <5> QED BY <5>1, <5>2 DEF Full
        <4> QED BY <1>2, <1>3, <1>4, <2>1, <3>1, <3>3, <4>1, NodeFacts
      <3>4. CASE x > uf
        <4>1. Fresh(x)'
          BY <1>1, <1>2, <2>1, <2>2, <3>1, <3>4, NodeFacts DEF Fresh
        <4> QED BY <1>2, <1>3, <1>4, <2>1, <3>1, <3>4, <4>1, NodeFacts
      <3> QED BY <1>2, <2>1, <3>2, <3>3, <3>4, NodeFacts
    <2> QED BY <1>1, <2>3, <2>4 DEF Ends, Restarts
  <1> QED BY <1>7, <1>8, <1>9, <1>10 DEF IInv

-------------------------------------------------------------------------------
(* Every step. *)

\* Every step keeps the invariant,
LEMMA NextIInv == IInv /\ [Next]_vars => IInv'
  <1> SUFFICES ASSUME IInv, [Next]_vars PROVE IInv'
    OBVIOUS
  <1>1. CASE FrameTick
    <2>1. Begin(TRUE) /\ stopId' = None /\ halted' = None /\ minors' = 0
      BY <1>1 DEF FrameTick, StopAtFrame
    <2>2. minors' \in 0 .. MaxMinors
      BY <2>1, ListConstants
    <2> QED BY <2>1, <2>2, BeginKeeps
  <1>2. CASE MinorTick
    <2>1. /\ Begin(FALSE) /\ UNCHANGED <<stopId, halted>>
          /\ minors < MaxMinors /\ minors' = minors + 1
      BY <1>2 DEF MinorTick
    <2>2. minors' \in 0 .. MaxMinors
      BY <2>1, ListConstants DEF IInv, Type
    <2> QED BY <2>1, <2>2, BeginKeeps
  <1>3. CASE Forwarded
    BY <1>3, ForwardedKeeps
  <1>4. CASE PassEnd
    BY <1>4, PassEndKeeps
  <1>5. CASE PassOver
    BY <1>5, PassedOnKeeps DEF PassOver
  <1>6. CASE Skip
    BY <1>6, PassedOnKeeps DEF Skip, OnMinor
  <1>7. CASE CutHere
    BY <1>7, CutHereKeeps
  <1>8. CASE Call
    BY <1>8, CallKeeps
  <1>9. CASE NextScene
    BY <1>9, NextSceneKeeps
  <1>10. CASE UNCHANGED vars
    <2>1. Type' /\ Walk' /\ OnList'
      BY <1>10 DEF vars, IInv, Type, Walk, OnList
    <2>2. Barred' /\ CallsRight'
      BY <1>10 DEF vars, IInv, Barred, Uncalled, Before, CallsRight, Full, Fresh
    <2> QED BY <2>1, <2>2 DEF IInv
  <1> QED BY <1>1, <1>2, <1>3, <1>4, <1>5, <1>6, <1>7, <1>8, <1>9, <1>10 DEF Next

\* so it holds throughout.
LEMMA Invariance == Spec => []IInv
  BY InitIInv, NextIInv, PTL DEF Spec

\* The minor ticks of a frame go as far as its frame tick and no further, in
\* any list (the stop and the pause of runner_node).
THEOREM CutsHold == Spec => []CutHolds
  <1>1. IInv => CutHolds
    BY DEF IInv, Barred, Uncalled, CutHolds
  <1> QED BY <1>1, Invariance, PTL

\* A tick that is neither cut nor over gives every stepped node that stayed on
\* the list its slice, and the frame's systems their frame (hfr_runner's loop).
THEOREM SlicesWhole == Spec => []WholeSlices
  <1>1. IInv => WholeSlices
    BY DEF IInv, CallsRight, Full, WholeSlices
  <1> QED BY <1>1, Invariance, PTL

\* Where the runner has a cell for the next node, the walk is at nodes of the
\* list and has one next, whatever callbacks take off it (next_load).
THEOREM WalkOnTheList ==
    ASSUME HasCell
    PROVE  Spec => []WalksTheList
  <1>1. IInv => WalksTheList
    BY DEF IInv, OnList, WalksTheList
  <1> QED BY <1>1, Invariance, PTL

-------------------------------------------------------------------------------
(* What is drawn between the frames (PoseHistory).                         *)
(*                                                                         *)
(* OwnMotion and SteadyMotion speak of one presentation only.  What makes  *)
(* them hold is what the table says of thing 1 between the presentations:  *)
(* that a history of it which will be read again is of its own places, of  *)
(* this tick (DrawnNow) or of the last one (DrawnLast), and that the other *)
(* things, however many they are, never take its place or give it another  *)
(* (Spares).                                                               *)

\* What holds of 0, and of i + 1 where it holds of i, holds up to m.
LEMMA UpTo ==
    ASSUME NEW m \in Nat, NEW T, 0 \in T, \A i \in 0..m - 1 : i \in T => i + 1 \in T
    PROVE  \A i \in 0..m : i \in T
  <1> SUFFICES ASSUME (0..m) \ T # {} PROVE FALSE
    OBVIOUS
  <1>1. PICK x \in (0..m) \ T : \A y \in (0..m) \ T : x <= y
    <2>1. (0..m) \ T \subseteq Nat
      OBVIOUS
    <2> QED BY <2>1, Least
  <1>2. x # 0 /\ x - 1 \in 0..m - 1 /\ x - 1 + 1 = x
    BY <1>1
  <1>3. x - 1 \in T
    BY <1>1, <1>2
  <1> QED BY <1>1, <1>2, <1>3

\* A function that is defined by its value at 0 and a step exists.
Iterates(g, m, A, base, step) ==
    g \in [0..m -> A] /\ g[0] = base /\ \A i \in 1..m : g[i] = step[i][g[i - 1]]

LEMMA Recursion ==
    ASSUME NEW m \in Nat, NEW A, NEW base \in A, NEW step \in [1..m -> [A -> A]]
    PROVE  \E g : Iterates(g, m, A, base, step)
  <1> DEFINE Steps(k, g) == g[0] = base /\ \A i \in 1..k : g[i] = step[i][g[i - 1]]
             T == {k \in 0..m : \E g \in [0..k -> A] : Steps(k, g)}
  <1>1. 0 \in T
    <2>1. [i \in 0..0 |-> base] \in [0..0 -> A] /\ Steps(0, [i \in 0..0 |-> base])
      OBVIOUS
    <2>2. 0 \in 0..m
      OBVIOUS
    <2> QED BY <2>1, <2>2
  <1>2. \A i \in 0..m - 1 : i \in T => i + 1 \in T
    <2> SUFFICES ASSUME NEW k \in 0..m - 1, k \in T PROVE k + 1 \in T
      OBVIOUS
    <2>1. PICK g \in [0..k -> A] : Steps(k, g)
      OBVIOUS
    <2> DEFINE h == [i \in 0..k + 1 |-> IF i = k + 1 THEN step[k + 1][g[k]] ELSE g[i]]
    <2>2. h \in [0..k + 1 -> A]
      <3>1. g[k] \in A /\ k + 1 \in 1..m
        OBVIOUS
      <3>2. step[k + 1][g[k]] \in A
        BY <3>1
      <3> QED BY <3>2
    <2>3. Steps(k + 1, h)
      <3>1. h[0] = base
        BY <2>1
      <3>2. ASSUME NEW i \in 1..k + 1 PROVE h[i] = step[i][h[i - 1]]
        BY <2>1
      <3> QED BY <3>1, <3>2
    <2>4. k + 1 \in 0..m
      OBVIOUS
    <2> QED BY <2>2, <2>3, <2>4
  <1>3. m \in T
    <2>1. m \in 0..m
      OBVIOUS
    <2> HIDE DEF T
    <2> QED BY <1>1, <1>2, <2>1, UpTo
  <1> QED BY <1>3 DEF Iterates

\* The game gives the signs that the keepers read, and a VM stays one that draws
\* several sprites for longer than to the next tick (120 ticks in the code).
Unforced == Odd = {} /\ SharedFor > 1

\* Shapes.
Rows == 1..(IF keeper \in {"option", "camera"} THEN 1 ELSE Slots)
Histories == [key : 0..Count, script : 0..2, lag : 0..Old, new : BOOLEAN, prev : Int, cur : Int,
              valid : BOOLEAN, turn : [1..2 -> 0..Old], shared : 0..SharedFor]
Tables == [Rows -> Histories]
Drawings == {<<>>} \cup PlacesOfTick
Lives == [script : {1, 2}, new : BOOLEAN, at : Drawings, was : Drawings, known : BOOLEAN]

Shape ==
    /\ keeper \in Keepers /\ kind \in Kinds /\ (keeper # "quad" => kind = "field")
    /\ world \in [Things -> Lives] /\ table \in Tables
    /\ glance = Moving => keeper \notin {"pose", "quad"}

\* Thing 1 has no two histories, a quad apart.
Alone == keeper # "quad" => \A i, j \in Rows : table[i].key = 1 /\ table[j].key = 1 => i = j

\* A history of thing 1 that has not been given up,
Mine(h) == h.key = 1 /\ h.lag # Old

\* thing 1 as it is now,
The == world[1]

\* and what is remembered from the last tick is the same thing still.
KnownGoes == The.known => The.at # <<>> /\ The.was # <<>> /\ ~The.new

\* Sprites and quads: the history of a thing that has been drawn in this tick,
OnItsWay(h) ==
    /\ The.was # <<>> /\ h.prev = The.was[1] /\ Near(h.prev, h.cur)
    /\ keeper = "pose" => h.turn = <<1, 0>>
DrawnNow(h) ==
    /\ The.at # <<>> /\ h.script = The.script /\ h.new = The.new
    /\ Len(The.at) = 1 => h.cur = The.at[1] /\ (h.valid => OnItsWay(h))
    /\ Len(The.at) = 2 => ~h.valid /\ h.shared = 0
    /\ keeper = "pose" => h.turn[2] = 0

\* that of one drawn in the last, if it will be taken up,
DrawnLast(h) ==
    The.at # <<>> /\ ~Begins(h, 1) /\ Trusted(h) =>
        /\ The.was # <<>> /\ h.cur = The.was[1]
        /\ keeper = "pose" => h.turn[2] = 1 \/ The.at[1] = Nowhere
Keeps(h) == (h.lag = 0 => DrawnNow(h)) /\ (h.lag = 1 => DrawnLast(h))

\* and that of one remembered then.
Followed(h) ==
    /\ h.key = 1 /\ h.script = The.script
    /\ \/ h.lag = 1 /\ h.cur = The.was[1]
       \/ h.lag = 0 /\ h.prev = The.was[1] /\ (Near(The.was[1], The.at[1]) => h.valid)

Drawn ==
    keeper \in {"pose", "quad"} =>
        /\ \A i \in Rows : Mine(table[i]) => Keeps(table[i])
        /\ keeper = "pose" /\ The.known => \E i \in Rows : Followed(table[i])

\* Enemies and options, after the capture of a frame tick and before it.
Settled(h) ==
    IF The.at = <<>> THEN h.lag > 0
    ELSE /\ h.lag = 0 /\ h.cur = The.at[1]
         /\ h.prev = The.at[1] \/ (The.was # <<>> /\ h.prev = The.was[1])
LeftBehind(h) ==
    IF The.was # <<>> THEN h.lag = 0 /\ h.cur = The.was[1] ELSE The.at # <<>> => h.lag > 0

Tracks ==
    keeper \in {"enemy", "option"} =>
        /\ The.was # <<>> => The.at # <<>>
        /\ glance = Moving =>
             /\ \A i \in Rows : table[i].key = 1 => LeftBehind(table[i])
             /\ The.known => \E i \in Rows : table[i].key = 1
        /\ glance # Moving =>
             /\ \A i \in Rows : table[i].key = 1 => Settled(table[i])
             /\ The.known => \E i \in Rows : table[i].key = 1 /\ table[i].prev = The.was[1]
             /\ keeper = "option" /\ The.at # <<>> => table[1].key = 1

\* The camera, before and after.
Filmed ==
    keeper = "camera" =>
        LET h == table[1] IN
        /\ glance = Moving =>
             /\ h.key = 1 => h.lag > 0 /\ (The.at # <<>> /\ h.lag = 1 =>
                                             The.was # <<>> /\ h.cur = The.was[1])
             /\ The.known => h.key = 1 /\ h.lag = 1
        /\ glance # Moving =>
             IF The.at = <<>> THEN h.key = 1 => h.lag > 0
             ELSE /\ h.key = 1 /\ h.lag = 0 /\ h.cur = The.at[1]
                  /\ h.valid => OnItsWay(h)
                  /\ The.known /\ Near(The.was[1], The.at[1]) => h.valid

PoseInv == Shape /\ Alone /\ KnownGoes /\ Drawn /\ Tracks /\ Filmed
PoseHolds == PoseInv /\ OwnMotion /\ SteadyMotion

-------------------------------------------------------------------------------
(* Places of the table. *)

\* The first of some places of the table is one of them.
LEMMA FirstIs ==
    ASSUME NEW S, S \subseteq Nat
    PROVE  IF S = {} THEN FirstSlot(S) = 0 ELSE FirstSlot(S) \in S /\ \A j \in S : FirstSlot(S) <= j
  <1>1. CASE S = {}
    BY <1>1 DEF FirstSlot
  <1>2. CASE S # {}
    <2>1. \E x \in S : \A y \in S : x <= y
      BY <1>2, Least
    <2> QED BY <1>2, <2>1 DEF FirstSlot
  <1> QED BY <1>1, <1>2

LEMMA RowsAre == Rows \subseteq Nat /\ 0 \notin Rows /\ 1 \in Rows
  BY PoseConstants DEF Rows

\* Of a thing that has a place, this is the place; else it is a vacant one.
LEMMA OwnSlotIs ==
    ASSUME NEW tb \in Tables, NEW a \in Things
    PROVE  /\ OwnSlot(tb, a) \in Rows \cup {0}
           /\ OwnSlot(tb, a) # 0 =>
                 \/ tb[OwnSlot(tb, a)].key = a
                 \/ Vacant(tb[OwnSlot(tb, a)]) /\ \A j \in Rows : tb[j].key # a
           /\ (\E j \in Rows : tb[j].key = a) =>
                 OwnSlot(tb, a) # 0 /\ tb[OwnSlot(tb, a)].key = a
  <1>1. DOMAIN tb = Rows
    BY DEF Tables
  <1>2. SlotsOf(tb, a) = {j \in Rows : tb[j].key = a} /\ VacantSlots(tb) = {j \in Rows : Vacant(tb[j])}
    BY <1>1 DEF SlotsOf, VacantSlots
  <1>3. SlotsOf(tb, a) \subseteq Nat /\ VacantSlots(tb) \subseteq Nat
    BY <1>2, RowsAre
  <1>4. CASE SlotsOf(tb, a) # {}
    <2>1. OwnSlot(tb, a) \in SlotsOf(tb, a)
      BY <1>3, <1>4, FirstIs DEF OwnSlot
    <2> QED BY <1>2, <2>1, RowsAre
  <1>5. CASE SlotsOf(tb, a) = {} /\ VacantSlots(tb) # {}
    <2>1. OwnSlot(tb, a) \in VacantSlots(tb)
      BY <1>3, <1>5, FirstIs DEF OwnSlot
    <2> QED BY <1>2, <1>5, <2>1
  <1>6. CASE SlotsOf(tb, a) = {} /\ VacantSlots(tb) = {}
    <2>1. OwnSlot(tb, a) = 0
      BY <1>3, <1>6, FirstIs DEF OwnSlot
    <2> QED BY <1>2, <1>6, <2>1
  <1> QED BY <1>4, <1>5, <1>6

\* A quad's place is its own or vacant, and the first of these.
LEMMA QuadSlotIs ==
    ASSUME NEW tb \in Tables, NEW a \in Things
    PROVE  /\ QuadSlot(tb, a) \in Rows \cup {0}
           /\ QuadSlot(tb, a) # 0 =>
                 /\ tb[QuadSlot(tb, a)].key = a \/ Vacant(tb[QuadSlot(tb, a)])
                 /\ \A j \in Rows : tb[j].key = a \/ Vacant(tb[j]) => QuadSlot(tb, a) <= j
           /\ QuadSlot(tb, a) = 0 => \A j \in Rows : tb[j].key # a
  <1>1. DOMAIN tb = Rows
    BY DEF Tables
  <1> DEFINE S == SlotsOf(tb, a) \cup VacantSlots(tb)
  <1>2. S = {j \in Rows : tb[j].key = a \/ Vacant(tb[j])}
    BY <1>1 DEF SlotsOf, VacantSlots
  <1>3. S \subseteq Nat
    BY <1>2, RowsAre
  <1>4. QuadSlot(tb, a) = FirstSlot(S)
    BY DEF QuadSlot
  <1> HIDE DEF S
  <1>5. IF S = {} THEN FirstSlot(S) = 0 ELSE FirstSlot(S) \in S /\ \A j \in S : FirstSlot(S) <= j
    BY <1>3, FirstIs
  <1> QED BY <1>2, <1>4, <1>5, RowsAre

SlotFor(tb, a) == IF keeper = "quad" THEN QuadSlot(tb, a) ELSE OwnSlot(tb, a)

LEMMA SlotIs ==
    ASSUME NEW tb \in Tables, NEW a \in Things
    PROVE  /\ SlotFor(tb, a) \in Rows \cup {0}
           /\ SlotFor(tb, a) # 0 => tb[SlotFor(tb, a)].key = a \/ Vacant(tb[SlotFor(tb, a)])
  BY OwnSlotIs, QuadSlotIs DEF SlotFor

-------------------------------------------------------------------------------
(* Histories. *)

\* What the others do to a table: the place of thing 1 stays as it is as long as
\* it is not given up, and 1 gets no other.
Spares(tb, new) ==
    /\ new \in Tables
    /\ \A i \in Rows : /\ Mine(tb[i]) \/ Mine(new[i]) => new[i] = tb[i]
                       /\ new[i].key = 1 => tb[i].key = 1

LEMMA SparesMore ==
    ASSUME NEW x, NEW y, NEW z, Spares(x, y), Spares(y, z)
    PROVE  Spares(x, z)
  BY DEF Spares

LEMMA BlankIs == Blank \in Histories
  <1>1. SharedFor \in 0..SharedFor /\ 0 \in 0..Count /\ <<Old, Old>> \in [1..2 -> 0..Old] /\ Old \in 0..Old
    BY PoseConstants DEF Old
  <1> QED BY <1>1 DEF Blank, Histories

\* A history stays a history.
LEMMA AgedIs ==
    ASSUME NEW h \in Histories
    PROVE  /\ Aged(h) \in Histories /\ Aged(h).key = h.key
           /\ h.lag < 2 => /\ Aged(h).lag = h.lag + 1 /\ Aged(h).cur = h.cur
                           /\ Aged(h).script = h.script /\ Aged(h).new = h.new
                           /\ Aged(h).shared = Capped(h.shared, SharedFor)
                           /\ Aged(h).turn[2] = Capped(h.turn[2], Old)
           /\ h.lag >= 2 => Aged(h).lag = Old
  <1>1. SharedFor \in Nat \ {0} /\ Old = 3
    BY PoseConstants DEF Old
  <1>2. \A n \in 0..SharedFor : Capped(n, SharedFor) \in 0..SharedFor
    BY <1>1 DEF Capped
  <1>3. \A n \in 0..Old : Capped(n, Old) \in 0..Old
    BY <1>1 DEF Capped
  <1>4. Blank \in Histories
    BY BlankIs
  <1>5. h.lag \in 0..3 /\ h.shared \in 0..SharedFor /\ h.turn \in [1..2 -> 0..Old] /\ h.key \in 0..Count
    BY <1>1 DEF Histories
  <1>6. CASE h.lag + 1 >= Old
    <2>1. Aged(h) = [Blank EXCEPT !.key = h.key, !.shared = Capped(h.shared, SharedFor)]
      BY <1>6 DEF Aged
    <2>2. Aged(h) \in Histories
      BY <1>2, <1>4, <1>5, <2>1 DEF Histories
    <2>3. Aged(h).key = h.key /\ Aged(h).lag = Old
      BY <2>1 DEF Blank
    <2> QED BY <1>1, <1>5, <1>6, <2>2, <2>3
  <1>7. CASE ~(h.lag + 1 >= Old)
    <2> DEFINE t == [i \in 1..2 |-> Capped(h.turn[i], Old)]
    <2>1. t \in [1..2 -> 0..Old] /\ t[2] = Capped(h.turn[2], Old)
      BY <1>3, <1>5
    <2>2. Aged(h) = [h EXCEPT !.lag = h.lag + 1, !.shared = Capped(h.shared, SharedFor), !.turn = t]
      BY <1>7 DEF Aged
    <2>3. h.lag + 1 \in 0..Old
      BY <1>1, <1>5, <1>7
    <2> HIDE DEF t
    <2>4. Aged(h) \in Histories
      BY <1>2, <1>5, <2>1, <2>2, <2>3 DEF Histories
    <2>5. /\ Aged(h).lag = h.lag + 1 /\ Aged(h).cur = h.cur /\ Aged(h).key = h.key
          /\ Aged(h).script = h.script /\ Aged(h).new = h.new
          /\ Aged(h).shared = Capped(h.shared, SharedFor)
          /\ Aged(h).turn[2] = Capped(h.turn[2], Old)
      BY <2>1, <2>2 DEF Histories
    <2> QED BY <1>1, <1>5, <1>7, <2>4, <2>5
  <1> QED BY <1>6, <1>7

\* The rules of fixed_pose keep a history of a thing its own.
LEMMA PosedIs ==
    ASSUME Shape, NEW h \in Histories, NEW a \in Things, NEW p \in Int
    PROVE  /\ Posed(h, a, p) \in Histories
           /\ p = Nowhere => Posed(h, a, p) = [h EXCEPT !.valid = FALSE]
           /\ p # Nowhere => Posed(h, a, p).key = a
  <1>1. SharedFor \in 0..SharedFor /\ 0 \in 0..SharedFor /\ 0 \in 0..Old /\ a \in 0..Count
    BY PoseConstants DEF Old, Things
  <1>2. world[a].script \in 0..2 /\ world[a].new \in BOOLEAN
    BY DEF Shape, Lives
  <1>3. CASE p = Nowhere
    <2>1. Posed(h, a, p) = [h EXCEPT !.valid = FALSE]
      BY <1>3 DEF Posed
    <2> QED BY <1>3, <2>1 DEF Histories
  <1>4. CASE p # Nowhere /\ Begins(h, a)
    <2>1. Posed(h, a, p) = Begun(h, a, p)
      BY <1>4 DEF Posed, Rolls
    <2>2. Begun(h, a, p) \in Histories /\ Begun(h, a, p).key = a
      BY <1>1, <1>2 DEF Begun, Histories
    <2> QED BY <1>4, <2>1, <2>2
  <1>5. CASE p # Nowhere /\ Rolls(h, a)
    <2>1. Posed(h, a, p) = Rolled(h, a, p)
      BY <1>5 DEF Posed, Rolls
    <2>2. h.key = a /\ h.cur \in Int
      BY <1>5 DEF Rolls, Begins, Histories
    <2>3. (Near(h.cur, p) /\ Trusted(h)) \in BOOLEAN
      BY DEF Near, Trusted
    <2>4. Rolled(h, a, p) \in Histories /\ Rolled(h, a, p).key = h.key
      BY <1>1, <1>2, <2>2, <2>3 DEF Rolled, Histories
    <2> QED BY <1>5, <2>1, <2>2, <2>4
  <1>6. CASE p # Nowhere /\ ~Begins(h, a) /\ ~Rolls(h, a)
    <2>1. Posed(h, a, p) = Again(h, p)
      BY <1>6 DEF Posed
    <2>2. h.key = a
      BY <1>6 DEF Begins
    <2>3. Again(h, p) \in Histories /\ Again(h, p).key = h.key
      BY <1>1 DEF Again, Histories
    <2> QED BY <1>6, <2>1, <2>2, <2>3
  <1> QED BY <1>3, <1>4, <1>5, <1>6

LEMMA TurnedIs ==
    ASSUME NEW h \in Histories, NEW b \in BOOLEAN
    PROVE  /\ Turned(h, b) \in Histories
           /\ keeper = "quad" => Turned(h, b) = h
           /\ keeper # "quad" =>
                 Turned(h, b) = [h EXCEPT !.turn = <<IF b THEN h.turn[2] ELSE h.turn[1], 0>>]
  <1>1. h.turn \in [1..2 -> 0..Old] /\ 0 \in 0..Old
    BY DEF Histories, Old
  <1>2. <<IF b THEN h.turn[2] ELSE h.turn[1], 0>> \in [1..2 -> 0..Old]
    BY <1>1
  <1>3. keeper # "quad" => Turned(h, b) = [h EXCEPT !.turn = <<IF b THEN h.turn[2] ELSE h.turn[1], 0>>]
    BY DEF Turned
  <1>4. keeper = "quad" => Turned(h, b) = h
    BY DEF Turned
  <1>5. Turned(h, b) \in Histories
    <2>1. CASE keeper = "quad"
      BY <1>4, <2>1
    <2>2. CASE keeper # "quad"
      BY <1>2, <1>3, <2>2 DEF Histories
    <2> QED BY <2>1, <2>2
  <1> QED BY <1>3, <1>4, <1>5

\* What a drawing leaves, and where it shows the thing.
Pose(tb, a, p) ==
    Turned(Posed(tb[SlotFor(tb, a)], a, p), p # Nowhere /\ Rolls(tb[SlotFor(tb, a)], a))

LEMMA SpriteIs ==
    ASSUME NEW tb \in Tables, NEW a \in Things, NEW p \in Int, NEW alpha, NEW ahead
    PROVE  /\ SlotFor(tb, a) = 0 =>
                 Sprite(tb, a, p, alpha, ahead) =
                   [table |-> tb, shown |-> 2 * p, turn |-> <<Old, Old>>]
           /\ SlotFor(tb, a) # 0 =>
                 Sprite(tb, a, p, alpha, ahead) =
                   [table |-> [tb EXCEPT ![SlotFor(tb, a)] = Pose(tb, a, p)],
                    shown |-> IF Pose(tb, a, p).valid
                              THEN Between(Pose(tb, a, p).prev, Pose(tb, a, p).cur, alpha, ahead)
                              ELSE 2 * p,
                    turn |-> IF Pose(tb, a, p).valid /\ keeper = "pose" THEN Pose(tb, a, p).turn
                             ELSE <<Old, Old>>]
  BY DEF Sprite, SlotFor, Pose

\* A drawing leaves a table, and that of another thing spares what is of thing 1.
LEMMA SpriteSpares ==
    ASSUME Shape, NEW tb \in Tables, NEW a \in Things, NEW p \in Int, NEW alpha, NEW ahead
    PROVE  /\ Sprite(tb, a, p, alpha, ahead).table \in Tables
           /\ a # 1 => Spares(tb, Sprite(tb, a, p, alpha, ahead).table)
  <1> DEFINE i == SlotFor(tb, a)
             h == tb[i]
             new == Sprite(tb, a, p, alpha, ahead).table
  <1>1. CASE i = 0
    <2>1. new = tb
      BY <1>1, SpriteIs
    <2> QED BY <2>1 DEF Spares
  <1>2. CASE i # 0
    <2>1. i \in Rows /\ (h.key = a \/ Vacant(h)) /\ h \in Histories
      BY <1>2, SlotIs DEF Tables
    <2>2. new = [tb EXCEPT ![i] = Pose(tb, a, p)]
      BY <1>2, SpriteIs
    <2> DEFINE x == Posed(h, a, p)
               b == p # Nowhere /\ Rolls(h, a)
    <2>3. /\ x \in Histories
          /\ p = Nowhere => x = [h EXCEPT !.valid = FALSE]
          /\ p # Nowhere => x.key = a
      BY <2>1, PosedIs
    <2>4. Pose(tb, a, p) = Turned(x, b) /\ b \in BOOLEAN
      BY DEF Pose, Rolls
    <2> HIDE DEF x, b
    <2>5. PICK y : y = Pose(tb, a, p)
      OBVIOUS
    <2>6. y \in Histories /\ y.key = x.key /\ y.lag = x.lag
      <3>1. Turned(x, b) \in Histories
            /\ (Turned(x, b) = x \/ \E t : Turned(x, b) = [x EXCEPT !.turn = t])
        BY <2>3, <2>4, TurnedIs
      <3> QED BY <2>3, <2>4, <2>5, <3>1 DEF Histories
    <2>7. new \in Tables
      BY <2>1, <2>2, <2>5, <2>6 DEF Tables
    <2>8. ASSUME a # 1, NEW j \in Rows
          PROVE  (Mine(tb[j]) \/ Mine(new[j]) => new[j] = tb[j]) /\ (new[j].key = 1 => tb[j].key = 1)
      <3>1. CASE j # i
        BY <2>1, <2>2, <3>1 DEF Tables
      <3>2. CASE j = i
        <4>1. new[j] = y /\ tb[j] = h
          BY <2>1, <2>2, <2>5, <3>2 DEF Tables
        <4>2. ~Mine(h)
          BY <2>1, <2>8 DEF Mine, Vacant
        <4>3. CASE p = Nowhere
          <5>1. y.key = h.key /\ y.lag = h.lag
            BY <2>1, <2>3, <2>6, <4>3 DEF Histories
          <5> QED BY <4>1, <4>2, <5>1 DEF Mine
        <4>4. CASE p # Nowhere
          <5>1. y.key = a
            BY <2>3, <2>6, <4>4
          <5> QED BY <2>8, <4>1, <4>2, <5>1 DEF Mine
        <4> QED BY <4>3, <4>4
      <3> QED BY <3>1, <3>2
    <2> QED BY <2>7, <2>8 DEF Spares
  <1> QED BY <1>1, <1>2

-------------------------------------------------------------------------------
(* The drawings of a thing, and those of all the others. *)

\* A thing is drawn at no place, at one, or in TH08 at two next to each other.
IsDrawing(q) ==
    \/ q = <<>>
    \/ /\ Len(q) = 1 /\ q[1] \in Places \cup {Nowhere} /\ q \in Seq(Int)
       /\ keeper \in {"enemy", "option"} => q[1] \in Places
    \/ /\ keeper \in {"quad", "camera"} /\ q \in Seq(Int)
       /\ Len(q) = 2 /\ q[1] \in Places /\ q[2] = q[1] + 1

LEMMA DrawingsAre ==
    ASSUME Unforced, NEW q \in Drawings
    PROVE  IsDrawing(q)
  <1>1. Nowhere = -1 /\ Places = 0..Width /\ Width \in Nat
    BY PoseConstants DEF Nowhere, Places
  <1>2. CASE q = <<>>
    BY <1>2 DEF IsDrawing
  <1>3. CASE \E p \in Places : q = <<p>>
    <2>1. PICK p \in Places : q = <<p>>
      BY <1>3
    <2>2. Len(q) = 1 /\ q[1] = p /\ p \in Int /\ q \in Seq(Int)
      BY <1>1, <2>1
    <2> QED BY <2>1, <2>2 DEF IsDrawing
  <1>4. CASE keeper \in {"pose", "quad", "camera"} /\ q = <<Nowhere>>
    <2>1. Len(q) = 1 /\ q[1] = Nowhere /\ Nowhere \in Int /\ q \in Seq(Int)
      BY <1>1, <1>4
    <2> QED BY <1>4, <2>1 DEF IsDrawing
  <1>5. CASE keeper \in {"quad", "camera"} /\ \E p \in 0..Width - 1 : q = <<p, p + 1>>
    <2>1. PICK p \in 0..Width - 1 : q = <<p, p + 1>>
      BY <1>5
    <2>2. Len(q) = 2 /\ q[1] = p /\ q[2] = p + 1 /\ p \in Places /\ q \in Seq(Int)
      BY <1>1, <2>1
    <2> QED BY <1>5, <2>1, <2>2 DEF IsDrawing
  <1>6. "shared" \notin Odd
    BY DEF Unforced
  <1> QED BY <1>2, <1>3, <1>4, <1>5, <1>6 DEF Drawings, PlacesOfTick

\* Drawn once: the one sprite.
LEMMA DrawsOne ==
    ASSUME NEW tb, NEW a, NEW alpha, NEW ahead, NEW d, Len(world[a].at) = 1,
           d = Sprite(tb, a, world[a].at[1], alpha, ahead)
    PROVE  Draws(tb, a, alpha, ahead) =
             [table |-> d.table, shown |-> <<d.shown>>, turns |-> <<d.turn>>]
  <1> DEFINE at == world[a].at
             r0 == [table |-> tb, shown |-> <<>>, turns |-> <<>>]
             Then(r, k) ==
                 LET e == Sprite(r.table, a, at[k], alpha, ahead)
                 IN  [table |-> e.table, shown |-> Append(r.shown, e.shown),
                      turns |-> Append(r.turns, e.turn)]
             Eq(g) == g = [k \in 0..Len(at) |-> IF k = 0 THEN r0 ELSE Then(g[k - 1], k)]
  <1>1. Then(r0, 1) = [table |-> d.table, shown |-> <<d.shown>>, turns |-> <<d.turn>>]
    OBVIOUS
  <1>2. PICK r1 : r1 = Then(r0, 1)
    OBVIOUS
  <1>3. PICK g : g = [k \in 0..1 |-> IF k = 0 THEN r0 ELSE r1]
    OBVIOUS
  <1>4. Eq(g)
    <2> HIDE DEF Then, r0
    <2>1. g[0] = r0 /\ g[1] = r1
      BY <1>3
    <2>2. \A k \in 0..1 : g[k] = IF k = 0 THEN r0 ELSE Then(g[k - 1], k)
      <3> SUFFICES ASSUME NEW k \in 0..1 PROVE g[k] = IF k = 0 THEN r0 ELSE Then(g[k - 1], k)
        OBVIOUS
      <3>1. CASE k = 0
        BY <2>1, <3>1
      <3>2. CASE k = 1
        BY <1>2, <2>1, <3>2
      <3> QED BY <3>1, <3>2
    <2>3. g = [k \in 0..1 |-> g[k]]
      BY <1>3
    <2> QED BY <2>2, <2>3
  <1>5. PICK c : c = CHOOSE f : Eq(f)
    OBVIOUS
  <1>6. Eq(c)
    <2> HIDE DEF Eq
    <2> QED BY <1>4, <1>5
  <1>7. Draws(tb, a, alpha, ahead) = c[Len(at)]
    BY <1>5 DEF Draws
  <1>8. c[1] = Then(r0, 1)
    <2>1. c[0] = r0
      BY <1>6
    <2>2. c[1] = Then(c[0], 1)
      BY <1>6
    <2> HIDE DEF Then, r0, Eq
    <2> QED BY <2>1, <2>2
  <1> HIDE DEF Then, r0, Eq
  <1> QED BY <1>1, <1>7, <1>8

\* Drawn twice: one sprite and then the other.
LEMMA DrawsTwo ==
    ASSUME NEW tb, NEW a, NEW alpha, NEW ahead, NEW d, NEW e, Len(world[a].at) = 2,
           d = Sprite(tb, a, world[a].at[1], alpha, ahead),
           e = Sprite(d.table, a, world[a].at[2], alpha, ahead)
    PROVE  Draws(tb, a, alpha, ahead) =
             [table |-> e.table, shown |-> <<d.shown, e.shown>>, turns |-> <<d.turn, e.turn>>]
  <1> DEFINE at == world[a].at
             r0 == [table |-> tb, shown |-> <<>>, turns |-> <<>>]
             Then(r, k) ==
                 LET f == Sprite(r.table, a, at[k], alpha, ahead)
                 IN  [table |-> f.table, shown |-> Append(r.shown, f.shown),
                      turns |-> Append(r.turns, f.turn)]
             Eq(g) == g = [k \in 0..Len(at) |-> IF k = 0 THEN r0 ELSE Then(g[k - 1], k)]
  <1>1. PICK r1 : r1 = [table |-> d.table, shown |-> <<d.shown>>, turns |-> <<d.turn>>]
    OBVIOUS
  <1>2. PICK r2 : r2 = [table |-> e.table, shown |-> <<d.shown, e.shown>>, turns |-> <<d.turn, e.turn>>]
    OBVIOUS
  <1>3. Then(r0, 1) = r1
    BY <1>1
  <1>4. Then(r1, 2) = r2
    BY <1>1, <1>2
  <1>5. PICK g : g = [k \in 0..2 |-> IF k = 0 THEN r0 ELSE IF k = 1 THEN r1 ELSE r2]
    OBVIOUS
  <1>6. Eq(g)
    <2> HIDE DEF Then, r0
    <2>1. g[0] = r0 /\ g[1] = r1 /\ g[2] = r2
      BY <1>5
    <2>2. \A k \in 0..2 : g[k] = IF k = 0 THEN r0 ELSE Then(g[k - 1], k)
      <3> SUFFICES ASSUME NEW k \in 0..2 PROVE g[k] = IF k = 0 THEN r0 ELSE Then(g[k - 1], k)
        OBVIOUS
      <3>1. CASE k = 0
        BY <2>1, <3>1
      <3>2. CASE k = 1
        BY <1>3, <2>1, <3>2
      <3>3. CASE k = 2
        BY <1>4, <2>1, <3>3
      <3> QED BY <3>1, <3>2, <3>3
    <2>3. g = [k \in 0..2 |-> g[k]]
      BY <1>5
    <2> QED BY <2>2, <2>3
  <1>7. PICK c : c = CHOOSE f : Eq(f)
    OBVIOUS
  <1>8. Eq(c)
    <2> HIDE DEF Eq
    <2> QED BY <1>6, <1>7
  <1>9. Draws(tb, a, alpha, ahead) = c[Len(at)]
    BY <1>7 DEF Draws
  <1>10. c[0] = r0 /\ c[1] = Then(c[0], 1) /\ c[2] = Then(c[1], 2)
    <2>1. c[0] = r0
      BY <1>8
    <2>2. c[1] = Then(c[0], 1)
      BY <1>8
    <2>3. c[2] = Then(c[1], 2)
      <3>1. PICK k \in 0..2 : k = 2 /\ k # 0 /\ k - 1 = 1
        OBVIOUS
      <3>2. 0..Len(at) = 0..2
        OBVIOUS
      <3> HIDE DEF Then, r0
      <3>3. \A j \in 0..2 : c[j] = IF j = 0 THEN r0 ELSE Then(c[j - 1], j)
        BY <1>8, <3>2
      <3>4. c[k] = Then(c[k - 1], k)
        BY <3>1, <3>3
      <3> HIDE DEF Eq
      <3> QED BY <3>1, <3>4
    <2> HIDE DEF Then, r0, Eq
    <2> QED BY <2>1, <2>2, <2>3
  <1> HIDE DEF Then, r0, Eq
  <1> QED BY <1>2, <1>3, <1>4, <1>9, <1>10

\* The drawings of another thing spare what is of thing 1.
LEMMA DrawsSpare ==
    ASSUME Unforced, Shape, NEW tb \in Tables, NEW a \in Things, a # 1, world[a].at # <<>>,
           NEW alpha, NEW ahead
    PROVE  Spares(tb, Draws(tb, a, alpha, ahead).table)
  <1>1. IsDrawing(world[a].at)
    BY DrawingsAre DEF Shape, Lives
  <1>2. CASE Len(world[a].at) = 1
    <2>1. PICK p \in Int : p = world[a].at[1]
      BY <1>1, <1>2 DEF IsDrawing
    <2>2. PICK d : d = Sprite(tb, a, p, alpha, ahead)
      OBVIOUS
    <2>3. Draws(tb, a, alpha, ahead) =
             [table |-> d.table, shown |-> <<d.shown>>, turns |-> <<d.turn>>]
      BY <1>2, <2>1, <2>2, DrawsOne
    <2>4. Spares(tb, d.table)
      BY <2>2, SpriteSpares
    <2> QED BY <2>3, <2>4
  <1>3. CASE Len(world[a].at) = 2
    <2>1. PICK p \in Int, q \in Int : p = world[a].at[1] /\ q = world[a].at[2]
      BY <1>1, <1>3 DEF IsDrawing
    <2>2. PICK d : d = Sprite(tb, a, p, alpha, ahead)
      OBVIOUS
    <2>3. PICK e : e = Sprite(d.table, a, q, alpha, ahead)
      OBVIOUS
    <2>4. Draws(tb, a, alpha, ahead) =
             [table |-> e.table, shown |-> <<d.shown, e.shown>>, turns |-> <<d.turn, e.turn>>]
      BY <1>3, <2>1, <2>2, <2>3, DrawsTwo
    <2>5. Spares(tb, d.table) /\ d.table \in Tables
      BY <2>2, SpriteSpares
    <2>6. Spares(d.table, e.table)
      BY <2>3, <2>5, SpriteSpares
    <2> QED BY <2>4, <2>5, <2>6, SparesMore
  <1> QED BY <1>1, <1>2, <1>3 DEF IsDrawing

\* All the others drawn leave thing 1 what it has.
LEMMA OthersSpare ==
    ASSUME Unforced, Shape, NEW tb \in Tables, NEW alpha
    PROVE  Spares(tb, OthersDrawn(tb, alpha))
  <1> DEFINE Then(x, a) == IF world[a].at = <<>> THEN x ELSE Draws(x, a, alpha, FALSE).table
             Eq(g) == g = [a \in 0..Count |-> IF a <= 1 THEN tb ELSE Then(g[a - 1], a)]
             step == [a \in 1..Count |-> [x \in Tables |-> IF a = 1 THEN x ELSE Then(x, a)]]
  <1>1. Count \in Nat /\ Count >= 1
    BY PoseConstants
  <1>2. ASSUME NEW a \in 2..Count, NEW x \in Tables
        PROVE  Spares(x, Then(x, a))
    <2>1. a \in Things /\ a # 1
      BY <1>1 DEF Things
    <2>2. CASE world[a].at = <<>>
      BY <2>2 DEF Spares
    <2>3. CASE world[a].at # <<>>
      <3>1. PICK b \in BOOLEAN : b = FALSE
        OBVIOUS
      <3>2. Spares(x, Draws(x, a, alpha, b).table)
        BY <2>1, <2>3, DrawsSpare
      <3> QED BY <2>3, <3>1, <3>2
    <2> QED BY <2>2, <2>3
  <1>3. step \in [1..Count -> [Tables -> Tables]]
    <2>1. ASSUME NEW a \in 1..Count, NEW x \in Tables
          PROVE  (IF a = 1 THEN x ELSE Then(x, a)) \in Tables
      <3>1. CASE a = 1
        BY <3>1
      <3>2. CASE a # 1
        <4>1. a \in 2..Count
          BY <1>1, <3>2
        <4> HIDE DEF Then
        <4> QED BY <1>2, <3>2, <4>1 DEF Spares
      <3> QED BY <3>1, <3>2
    <2> HIDE DEF Then
    <2> QED BY <2>1
  <1>4. PICK g : Iterates(g, Count, Tables, tb, step)
    <2>1. PICK s : s = step
      OBVIOUS
    <2>2. s \in [1..Count -> [Tables -> Tables]]
      BY <1>3, <2>1
    <2>3. \E g : Iterates(g, Count, Tables, tb, s)
      <3> HIDE DEF step
      <3> QED BY <1>1, <2>2, Recursion
    <2> QED BY <2>1, <2>3
  <1>5. Eq(g)
    <2>1. g \in [0..Count -> Tables] /\ g[0] = tb /\ \A a \in 1..Count : g[a] = step[a][g[a - 1]]
      BY <1>4 DEF Iterates
    <2>2. ASSUME NEW a \in 1..Count
          PROVE  g[a] = IF a <= 1 THEN tb ELSE Then(g[a - 1], a)
      <3>1. a - 1 \in 0..Count /\ g[a - 1] \in Tables
        BY <1>1, <2>1
      <3>2. step[a] = [x \in Tables |-> IF a = 1 THEN x ELSE Then(x, a)]
        OBVIOUS
      <3>3. g[a] = step[a][g[a - 1]]
        BY <2>1
      <3>4. PICK x \in Tables : x = g[a - 1]
        BY <3>1
      <3>5. g[a] = IF a = 1 THEN x ELSE Then(x, a)
        <4> HIDE DEF step, Then
        <4> QED BY <3>2, <3>3, <3>4
      <3>6. a = 1 => x = tb
        BY <2>1, <3>4
      <3> HIDE DEF step, Then
      <3> QED BY <1>1, <3>4, <3>5, <3>6
    <2>3. \A a \in 0..Count : g[a] = IF a <= 1 THEN tb ELSE Then(g[a - 1], a)
      <3> SUFFICES ASSUME NEW a \in 0..Count
                   PROVE  g[a] = IF a <= 1 THEN tb ELSE Then(g[a - 1], a)
        OBVIOUS
      <3>1. CASE a = 0
        BY <2>1, <3>1
      <3>2. CASE a # 0
        <4>1. a \in 1..Count
          BY <1>1, <3>2
        <4> HIDE DEF Then, step
        <4> QED BY <2>2, <4>1
      <3> QED BY <3>1, <3>2
    <2>4. g = [a \in 0..Count |-> g[a]]
      BY <2>1
    <2> HIDE DEF Then, step
    <2> QED BY <2>3, <2>4
  <1>6. PICK c : c = CHOOSE f : Eq(f)
    OBVIOUS
  <1>7. Eq(c)
    <2> HIDE DEF Eq
    <2> QED BY <1>5, <1>6
  <1>8. OthersDrawn(tb, alpha) = c[Count]
    BY <1>6 DEF OthersDrawn
  <1> DEFINE T == {a \in 0..Count : Spares(tb, c[a])}
  <1>9. 0 \in T
    <2>1. c[0] = tb
      BY <1>1, <1>7
    <2>2. Spares(tb, tb)
      BY DEF Spares
    <2> QED BY <1>1, <2>1, <2>2
  <1>10. \A a \in 0..Count - 1 : a \in T => a + 1 \in T
    <2> SUFFICES ASSUME NEW a \in 0..Count - 1, a \in T PROVE a + 1 \in T
      OBVIOUS
    <2>1. PICK b : b = a + 1
      OBVIOUS
    <2>2. b \in 0..Count /\ b \in 1..Count /\ b - 1 = a /\ a \in 0..Count
      BY <1>1, <2>1
    <2>3. c[b] = IF b <= 1 THEN tb ELSE Then(c[b - 1], b)
      BY <1>7, <2>2
    <2>4. Spares(tb, c[a]) /\ c[a] \in Tables
      BY DEF Spares
    <2>5. CASE b = 1
      <3>1. Spares(tb, tb)
        BY DEF Spares
      <3> HIDE DEF Then, Eq
      <3>2. c[b] = tb
        BY <2>3, <2>5
      <3> QED BY <2>1, <2>2, <3>1, <3>2
    <2>6. CASE b # 1
      <3>1. b \in 2..Count /\ ~(b <= 1)
        BY <1>1, <2>2, <2>6
      <3>2. PICK x \in Tables : x = c[a]
        BY <2>4
      <3>3. Spares(x, Then(x, b))
        BY <1>2, <3>1
      <3>4. c[b] = Then(x, b)
        <4> HIDE DEF Then, Eq
        <4> QED BY <2>2, <2>3, <3>1, <3>2
      <3>5. Spares(tb, c[b])
        <4> HIDE DEF Then, Eq
        <4> QED BY <2>4, <3>2, <3>3, <3>4, SparesMore
      <3> HIDE DEF Eq, Then
      <3> QED BY <2>1, <2>2, <3>5
    <2> QED BY <2>5, <2>6
  <1>11. Spares(tb, c[Count])
    <2>1. Count \in 0..Count
      BY <1>1
    <2>2. Count \in T
      <3> HIDE DEF T
      <3> QED BY <1>1, <1>9, <1>10, <2>1, UpTo
    <2> HIDE DEF Eq
    <2> QED BY <2>2
  <1> QED BY <1>8, <1>11

-------------------------------------------------------------------------------
(* The enemies of the list. *)

\* The loop of enemy_interp leaves a table, and another enemy spares thing 1.
LEMMA TrackedSpares ==
    ASSUME NEW tb \in Tables, NEW a \in Things, NEW capture \in BOOLEAN,
           world[a].at[1] \in Int
    PROVE  /\ Tracked(tb, a, capture) \in Tables
           /\ a # 1 => Spares(tb, Tracked(tb, a, capture))
  <1>1. PICK i : i = OwnSlot(tb, a)
    OBVIOUS
  <1>2. PICK p \in Int : p = world[a].at[1]
    OBVIOUS
  <1>3. CASE i = 0
    <2>1. Tracked(tb, a, capture) = tb
      BY <1>1, <1>3 DEF Tracked
    <2> QED BY <2>1 DEF Spares
  <1>4. CASE i # 0 /\ ~capture /\ tb[i].key = a
    <2>1. Tracked(tb, a, capture) = tb
      BY <1>1, <1>4 DEF Tracked
    <2> QED BY <2>1 DEF Spares
  <1>5. CASE i # 0 /\ (capture \/ tb[i].key # a)
    <2>1. i \in Rows /\ (tb[i].key = a \/ Vacant(tb[i])) /\ tb[i] \in Histories
      BY <1>1, <1>5, OwnSlotIs DEF Tables
    <2>2. \E q \in Int : Tracked(tb, a, capture) =
             [tb EXCEPT ![i] = [tb[i] EXCEPT !.key = a, !.lag = 0, !.cur = p, !.prev = q]]
      <3>1. CASE capture
        <4>1. PICK q : q = IF tb[i].key = a /\ tb[i].lag = 1 THEN tb[i].cur ELSE p
          OBVIOUS
        <4>2. q \in Int
          BY <2>1, <4>1 DEF Histories
        <4>3. Tracked(tb, a, capture) =
                [tb EXCEPT ![i] = [tb[i] EXCEPT !.key = a, !.lag = 0, !.cur = p, !.prev = q]]
          BY <1>1, <1>2, <1>5, <3>1, <4>1 DEF Tracked
        <4> QED BY <4>2, <4>3
      <3>2. CASE ~capture
        <4>1. Tracked(tb, a, capture) =
                [tb EXCEPT ![i] = [tb[i] EXCEPT !.key = a, !.lag = 0, !.cur = p, !.prev = p]]
          BY <1>1, <1>2, <1>5, <3>2 DEF Tracked
        <4> QED BY <4>1
      <3> QED BY <3>1, <3>2
    <2>3. PICK q \in Int : Tracked(tb, a, capture) =
             [tb EXCEPT ![i] = [tb[i] EXCEPT !.key = a, !.lag = 0, !.cur = p, !.prev = q]]
      BY <2>2
    <2>4. PICK y : y = [tb[i] EXCEPT !.key = a, !.lag = 0, !.cur = p, !.prev = q]
      OBVIOUS
    <2>5. y \in Histories /\ y.key = a
      <3>1. a \in 0..Count /\ 0 \in 0..Old
        BY PoseConstants DEF Things, Old
      <3> QED BY <2>1, <2>4, <3>1 DEF Histories
    <2>6. PICK new : new = [tb EXCEPT ![i] = y]
      OBVIOUS
    <2>7. new = Tracked(tb, a, capture)
      BY <2>3, <2>4, <2>6
    <2>8. new \in Tables /\ new[i] = y /\ \A j \in Rows : j # i => new[j] = tb[j]
      BY <2>1, <2>5, <2>6 DEF Tables
    <2>9. a # 1 => Spares(tb, new)
      BY <2>1, <2>5, <2>8 DEF Spares, Mine, Vacant
    <2> QED BY <2>7, <2>8, <2>9
  <1> QED BY <1>3, <1>4, <1>5

\* Thing 1 has its turn, and the others leave it what it has.
LEMMA TrackedAllIs ==
    ASSUME Unforced, Shape, keeper = "enemy", NEW tb \in Tables, NEW capture \in BOOLEAN
    PROVE  \E x \in Tables : /\ x = IF world[1].at = <<>> THEN tb ELSE Tracked(tb, 1, capture)
                             /\ Spares(x, TrackedAll(tb, capture))
  <1> DEFINE Then(x, a) == IF world[a].at = <<>> THEN x ELSE Tracked(x, a, capture)
             Eq(g) == g = [a \in 0..Count |-> IF a = 0 THEN tb ELSE Then(g[a - 1], a)]
             step == [a \in 1..Count |-> [x \in Tables |-> Then(x, a)]]
  <1>1. Count \in Nat /\ Count >= 1
    BY PoseConstants
  <1>2. ASSUME NEW a \in 1..Count, NEW x \in Tables
        PROVE  Then(x, a) \in Tables /\ (a # 1 => Spares(x, Then(x, a)))
    <2>1. a \in Things
      BY <1>1 DEF Things
    <2>2. CASE world[a].at = <<>>
      BY <2>2 DEF Spares
    <2>3. CASE world[a].at # <<>>
      <3>1. IsDrawing(world[a].at)
        BY <2>1, DrawingsAre DEF Shape, Lives
      <3>2. world[a].at[1] \in Int
        BY <2>3, <3>1, PoseConstants DEF IsDrawing, Places, Nowhere
      <3>3. Tracked(x, a, capture) \in Tables /\ (a # 1 => Spares(x, Tracked(x, a, capture)))
        BY <2>1, <3>2, TrackedSpares
      <3> QED BY <2>3, <3>3
    <2> QED BY <2>2, <2>3
  <1>3. step \in [1..Count -> [Tables -> Tables]]
    <2> HIDE DEF Then
    <2> QED BY <1>2
  <1>4. PICK g : Iterates(g, Count, Tables, tb, step)
    <2>1. PICK s : s = step
      OBVIOUS
    <2>2. s \in [1..Count -> [Tables -> Tables]]
      BY <1>3, <2>1
    <2>3. \E g : Iterates(g, Count, Tables, tb, s)
      <3> HIDE DEF step
      <3> QED BY <1>1, <2>2, Recursion
    <2> QED BY <2>1, <2>3
  <1>5. Eq(g)
    <2>1. g \in [0..Count -> Tables] /\ g[0] = tb /\ \A a \in 1..Count : g[a] = step[a][g[a - 1]]
      BY <1>4 DEF Iterates
    <2>2. ASSUME NEW a \in 1..Count
          PROVE  g[a] = Then(g[a - 1], a)
      <3>1. a - 1 \in 0..Count /\ g[a - 1] \in Tables
        BY <1>1, <2>1
      <3>2. step[a] = [x \in Tables |-> Then(x, a)]
        OBVIOUS
      <3>3. g[a] = step[a][g[a - 1]]
        BY <2>1
      <3>4. PICK x \in Tables : x = g[a - 1]
        BY <3>1
      <3>5. g[a] = Then(x, a)
        <4> HIDE DEF step, Then
        <4> QED BY <3>2, <3>3, <3>4
      <3> HIDE DEF step, Then
      <3> QED BY <3>4, <3>5
    <2>3. \A a \in 0..Count : g[a] = IF a = 0 THEN tb ELSE Then(g[a - 1], a)
      <3> SUFFICES ASSUME NEW a \in 0..Count
                   PROVE  g[a] = IF a = 0 THEN tb ELSE Then(g[a - 1], a)
        OBVIOUS
      <3>1. CASE a = 0
        BY <2>1, <3>1
      <3>2. CASE a # 0
        <4>1. a \in 1..Count
          BY <1>1, <3>2
        <4> HIDE DEF Then, step
        <4> QED BY <2>2, <3>2, <4>1
      <3> QED BY <3>1, <3>2
    <2>4. g = [a \in 0..Count |-> g[a]]
      BY <2>1
    <2> HIDE DEF Then, step
    <2> QED BY <2>3, <2>4
  <1>6. PICK c : c = CHOOSE f : Eq(f)
    OBVIOUS
  <1>7. Eq(c)
    <2> HIDE DEF Eq
    <2> QED BY <1>5, <1>6
  <1>8. TrackedAll(tb, capture) = c[Count]
    BY <1>6 DEF TrackedAll
  <1>9. PICK x1 : x1 = Then(tb, 1)
    OBVIOUS
  <1>10. x1 \in Tables
    <2>1. 1 \in 1..Count
      BY <1>1
    <2> HIDE DEF Then
    <2> QED BY <1>2, <1>9, <2>1
  <1>11. ASSUME NEW b \in 1..Count, NEW a \in 0..Count, a = b - 1
         PROVE  c[b] = Then(c[a], b)
    <2>1. b \in 0..Count /\ b # 0
      BY <1>1
    <2>2. c[b] = Then(c[b - 1], b)
      <3> HIDE DEF Then
      <3> QED BY <1>7, <2>1
    <2> HIDE DEF Then, Eq
    <2> QED BY <1>11, <2>2
  <1> DEFINE T == {a \in 0..Count : a # 0 => Spares(x1, c[a])}
  <1>12. 0 \in T
    BY <1>1
  <1>13. \A a \in 0..Count - 1 : a \in T => a + 1 \in T
    <2> SUFFICES ASSUME NEW a \in 0..Count - 1, a \in T PROVE a + 1 \in T
      OBVIOUS
    <2>1. PICK b : b = a + 1
      OBVIOUS
    <2>2. b \in 0..Count /\ b \in 1..Count /\ a = b - 1 /\ a \in 0..Count
      BY <1>1, <2>1
    <2>3. c[b] = Then(c[a], b)
      <3> HIDE DEF Then, Eq
      <3> QED BY <1>11, <2>2
    <2>4. CASE b = 1
      <3>1. a = 0 /\ c[0] = tb
        BY <1>1, <1>7, <2>1, <2>4
      <3>2. Spares(x1, x1)
        BY <1>10 DEF Spares
      <3> HIDE DEF Then, Eq
      <3>3. c[b] = x1
        BY <1>9, <2>3, <2>4, <3>1
      <3> QED BY <2>1, <2>2, <3>2, <3>3
    <2>5. CASE b # 1
      <3>1. a # 0 /\ Spares(x1, c[a])
        BY <2>1, <2>2, <2>5
      <3>2. PICK x \in Tables : x = c[a]
        BY <3>1 DEF Spares
      <3>3. Spares(x, Then(x, b))
        <4> HIDE DEF Then
        <4> QED BY <1>2, <2>2, <2>5
      <3>4. Spares(x1, c[b])
        <4> HIDE DEF Then, Eq
        <4> QED BY <2>3, <3>1, <3>2, <3>3, SparesMore
      <3> HIDE DEF Eq, Then
      <3> QED BY <2>1, <2>2, <3>4
    <2> QED BY <2>4, <2>5
  <1>14. Spares(x1, c[Count])
    <2>1. Count \in 0..Count /\ Count # 0
      BY <1>1
    <2>2. Count \in T
      <3> HIDE DEF T
      <3> QED BY <1>1, <1>12, <1>13, <2>1, UpTo
    <2> HIDE DEF Eq
    <2> QED BY <2>1, <2>2
  <1> HIDE DEF Eq
  <1> QED BY <1>8, <1>9, <1>10, <1>14

-------------------------------------------------------------------------------
(* The sprites and quads of thing 1. *)

Sprites == keeper \in {"pose", "quad"}

\* On the way this very thing has come, to its first place.
Goal(h) ==
    /\ The.was # <<>> /\ h.prev = The.was[1] /\ h.cur = The.at[1] /\ Near(The.was[1], The.at[1])
    /\ keeper = "pose" => h.turn = <<1, 0>>

\* A history is that of what is drawn, if it is read again at all.
Sound(h) == Mine(h) => Keeps(h)

\* A drawing at the first place of the tick.
LEMMA PoseFirst ==
    ASSUME Unforced, Shape, KnownGoes, Sprites, The.at # <<>>, NEW h \in Histories, NEW x, NEW p \in Int,
           h.key = 1 \/ Vacant(h), Sound(h), p = The.at[1],
           x = Turned(Posed(h, 1, p), p # Nowhere /\ Rolls(h, 1))
    PROVE  /\ x \in Histories
           /\ x.valid => Goal(x)
           /\ Len(The.at) = 1 => Sound(x)
           /\ p = Nowhere => x.key = h.key /\ ~x.valid
           /\ p # Nowhere => /\ x.key = 1 /\ x.lag = 0 /\ x.script = The.script
                             /\ x.new = The.new /\ x.cur = p
           /\ keeper = "pose" /\ Len(The.at) = 1 /\ The.known /\ Followed(h) =>
                 Followed(x) /\ (Near(The.was[1], p) => x.valid)
  <1>1. 1 \in Things /\ Count >= 1 /\ Old = 3
    BY PoseConstants DEF Things, Old
  <1>2. PICK r \in BOOLEAN : r = (p # Nowhere /\ Rolls(h, 1))
    BY DEF Rolls
  <1>3. PICK y : y = Posed(h, 1, p)
    OBVIOUS
  <1>4. y \in Histories
    BY <1>1, <1>3, PosedIs
  <1>5. x = Turned(y, r)
    BY <1>2, <1>3
  <1>6. /\ x \in Histories
        /\ keeper = "quad" => x = y
        /\ keeper = "pose" => x = [y EXCEPT !.turn = <<IF r THEN y.turn[2] ELSE y.turn[1], 0>>]
    BY <1>4, <1>5, TurnedIs
  <1>7. /\ x.key = y.key /\ x.script = y.script /\ x.lag = y.lag /\ x.new = y.new
        /\ x.prev = y.prev /\ x.cur = y.cur /\ x.valid = y.valid /\ x.shared = y.shared
        /\ keeper = "pose" => x.turn = <<IF r THEN y.turn[2] ELSE y.turn[1], 0>> /\ x.turn[2] = 0
    <2>1. CASE keeper = "quad"
      BY <1>6, <2>1
    <2>2. CASE keeper = "pose"
      <3>1. PICK t : t = <<IF r THEN y.turn[2] ELSE y.turn[1], 0>>
        OBVIOUS
      <3>2. x = [y EXCEPT !.turn = t]
        BY <1>6, <2>2, <3>1
      <3>3. t[2] = 0
        BY <3>1
      <3>4. x.turn = t
        BY <1>4, <3>2 DEF Histories
      <3> QED BY <1>4, <3>1, <3>2, <3>3, <3>4 DEF Histories
    <2> QED BY <2>1, <2>2 DEF Sprites
  <1>8. h.lag \in 0..3 /\ h.valid \in BOOLEAN
    BY <1>1 DEF Histories
  <1>9. CASE p = Nowhere
    <2>1. y = [h EXCEPT !.valid = FALSE]
      BY <1>3, <1>9 DEF Posed
    <2>2. /\ y.key = h.key /\ y.script = h.script /\ y.lag = h.lag /\ y.new = h.new
          /\ y.prev = h.prev /\ y.cur = h.cur /\ ~y.valid /\ y.shared = h.shared
      BY <2>1 DEF Histories
    <2>3. ~Near(The.was[1], p)
      BY <1>9 DEF Near
    <2>4. Mine(x) => Mine(h)
      BY <1>7, <2>2 DEF Mine
    <2>5. ASSUME Mine(h) PROVE Keeps(x)
      <3>1. Keeps(h)
        BY <2>5 DEF Sound
      <3>2. x.lag = 0 => DrawnNow(x)
        BY <1>7, <2>2, <3>1 DEF Keeps, DrawnNow
      <3>3. x.lag = 1 => DrawnLast(x)
        <4>1. Begins(x, 1) <=> Begins(h, 1)
          BY <1>7, <2>2 DEF Begins
        <4>2. Trusted(x) <=> Trusted(h)
          BY <1>7, <2>2 DEF Trusted
        <4> QED BY <1>7, <1>9, <2>2, <3>1, <4>1, <4>2 DEF Keeps, DrawnLast
      <3> QED BY <3>2, <3>3 DEF Keeps
    <2>6. Followed(h) => Followed(x)
      BY <1>7, <2>2, <2>3 DEF Followed
    <2> QED BY <1>6, <1>7, <1>9, <2>2, <2>3, <2>4, <2>5, <2>6 DEF Sound
  <1>10. CASE p # Nowhere /\ Begins(h, 1)
    <2>1. y = Begun(h, 1, p)
      BY <1>3, <1>10 DEF Posed, Rolls
    <2>2. y.key = 1 /\ y.script = The.script /\ y.lag = 0 /\ y.new = The.new /\ y.cur = p /\ ~y.valid
      BY <2>1 DEF Begun, Histories, The
    <2>3. Len(The.at) = 1 => DrawnNow(x)
      BY <1>7, <2>2 DEF DrawnNow
    <2>4. Len(The.at) = 1 => Sound(x)
      BY <1>7, <2>2, <2>3 DEF Sound, Keeps
    <2>5. ASSUME The.known, Followed(h) PROVE FALSE
      BY <1>10, <2>5 DEF Followed, KnownGoes, Begins, The
    <2> QED BY <1>6, <1>7, <1>10, <2>2, <2>4, <2>5
  <1>11. CASE p # Nowhere /\ Rolls(h, 1)
    <2>1. y = Rolled(h, 1, p)
      BY <1>3, <1>11 DEF Posed, Rolls
    <2>2. h.key = 1 /\ h.lag = 1 /\ h.script = The.script /\ ~Begins(h, 1) /\ Mine(h)
      BY <1>1, <1>11 DEF Rolls, Begins, Mine, The
    <2>3. DrawnLast(h)
      BY <2>2 DEF Sound, Keeps
    <2>4. /\ y.key = 1 /\ y.script = The.script /\ y.lag = 0 /\ y.new = The.new /\ y.cur = p
          /\ y.prev = h.cur /\ y.valid = (Near(h.cur, p) /\ Trusted(h)) /\ y.turn = h.turn
      BY <2>1, <2>2 DEF Rolled, Histories, The
    <2>5. x.valid => Goal(x)
      <3> SUFFICES ASSUME x.valid PROVE Goal(x)
        OBVIOUS
      <3>1. Near(h.cur, p) /\ Trusted(h)
        BY <1>7, <2>4
      <3>2. The.was # <<>> /\ h.cur = The.was[1] /\ (keeper = "pose" => h.turn[2] = 1)
        BY <1>11, <2>2, <2>3, <3>1 DEF DrawnLast
      <3>3. keeper = "pose" => x.turn = <<1, 0>>
        <4>1. r = TRUE
          BY <1>2, <1>11
        <4> QED BY <1>7, <2>4, <3>2, <4>1
      <3> QED BY <1>7, <2>4, <3>1, <3>2, <3>3 DEF Goal
    <2>6. Len(The.at) = 1 => DrawnNow(x)
      BY <1>7, <2>4, <2>5 DEF DrawnNow, Goal, OnItsWay
    <2>7. Len(The.at) = 1 => Sound(x)
      BY <1>7, <2>4, <2>6 DEF Sound, Keeps
    <2>8. keeper = "pose" /\ The.known /\ Followed(h) => Followed(x) /\ (Near(The.was[1], p) => x.valid)
      <3> SUFFICES ASSUME keeper = "pose", Followed(h)
                   PROVE  Followed(x) /\ (Near(The.was[1], p) => x.valid)
        OBVIOUS
      <3>1. h.cur = The.was[1]
        BY <2>2 DEF Followed
      <3>2. Trusted(h)
        BY DEF Trusted
      <3> QED BY <1>7, <2>4, <3>1, <3>2 DEF Followed
    <2> QED BY <1>6, <1>7, <1>11, <2>4, <2>5, <2>7, <2>8
  <1>12. CASE p # Nowhere /\ ~Begins(h, 1) /\ ~Rolls(h, 1)
    <2>1. y = Again(h, p)
      BY <1>3, <1>12 DEF Posed
    <2>2. h.key = 1 /\ h.lag = 0 /\ Mine(h)
      BY <1>1, <1>8, <1>12 DEF Begins, Rolls, Mine
    <2>3. DrawnNow(h)
      BY <2>2 DEF Sound, Keeps
    <2>4. y.key = 1 /\ y.lag = 0 /\ y.script = The.script /\ y.new = The.new /\ y.cur = p /\ y.prev = h.prev
          /\ y.turn = h.turn /\ (y.valid => h.valid)
      BY <2>1, <2>2, <2>3 DEF Again, Histories, DrawnNow
    <2>5. CASE Len(The.at) = 1
      <3>1. h.cur = p /\ y = h /\ (h.valid => OnItsWay(h))
        BY <2>1, <2>3, <2>5 DEF DrawnNow, Again
      <3>2. keeper = "pose" => h.turn[2] = 0 /\ h.turn \in [1..2 -> 0..Old]
        BY <2>3 DEF DrawnNow, Histories
      <3>3. keeper = "pose" => x.turn = <<h.turn[1], 0>> /\ (h.valid => h.turn = <<1, 0>>)
        BY <1>2, <1>7, <1>12, <3>1 DEF OnItsWay
      <3>4. x.valid => Goal(x)
        <4> SUFFICES ASSUME x.valid PROVE Goal(x)
          OBVIOUS
        <4>1. h.valid
          BY <1>7, <3>1
        <4>2. keeper = "pose" => x.turn = <<1, 0>>
          BY <3>3, <4>1
        <4>3. The.was # <<>> /\ h.prev = The.was[1] /\ Near(h.prev, h.cur)
          BY <3>1, <4>1 DEF OnItsWay
        <4>4. x.prev = h.prev /\ x.cur = h.cur
          BY <1>7, <3>1
        <4> QED BY <3>1, <4>2, <4>3, <4>4 DEF Goal
      <3>5. DrawnNow(x)
        BY <1>7, <2>4, <2>5, <3>4 DEF DrawnNow, Goal, OnItsWay
      <3>6. Sound(x)
        BY <1>7, <2>4, <3>5 DEF Sound, Keeps
      <3>7. The.known /\ Followed(h) => Followed(x) /\ (Near(The.was[1], p) => x.valid)
        BY <1>7, <2>2, <3>1 DEF Followed
      <3> QED BY <1>6, <1>7, <1>12, <2>4, <3>4, <3>6, <3>7
    <2>6. CASE Len(The.at) # 1
      <3>1. Len(The.at) = 2
        <4>1. IsDrawing(The.at)
          BY <1>1, DrawingsAre DEF Shape, Lives, The
        <4> QED BY <2>6, <4>1 DEF IsDrawing
      <3>2. ~h.valid
        BY <2>3, <3>1 DEF DrawnNow
      <3>3. ~x.valid
        BY <1>7, <2>4, <3>2
      <3> QED BY <1>6, <1>7, <1>12, <2>4, <2>6, <3>3
    <2> QED BY <2>5, <2>6
  <1> QED BY <1>9, <1>10, <1>11, <1>12

\* Where thing 1 may be shown: where it is, or on the way it has come.
OnPath(q, k, alpha, ahead) ==
    \/ q = 2 * The.at[k]
    \/ /\ k \in DOMAIN The.was /\ The.was[k] \in Places /\ Near(The.was[k], The.at[k])
       /\ q = Between(The.was[k], The.at[k], alpha, ahead)

\* A table in which what is of thing 1 is its own.
Own(tb) ==
    /\ tb \in Tables
    /\ \A i \in Rows : Sound(tb[i])
    /\ keeper # "quad" => \A i, j \in Rows : tb[i].key = 1 /\ tb[j].key = 1 => i = j
    /\ keeper = "pose" /\ The.known => \E i \in Rows : Followed(tb[i])

\* Its goal is on its path.
LEMMA GoalIsOnPath ==
    ASSUME Unforced, Shape, NEW x, Goal(x), NEW alpha, NEW ahead
    PROVE  OnPath(Between(x.prev, x.cur, alpha, ahead), 1, alpha, ahead)
  <1>1. IsDrawing(The.was)
    <2>1. 1 \in Things
      BY PoseConstants DEF Things
    <2> QED BY <2>1, DrawingsAre DEF Shape, Lives, The
  <1>2. The.was # <<>> /\ x.prev = The.was[1] /\ x.cur = The.at[1] /\ Near(The.was[1], The.at[1])
    BY DEF Goal
  <1>3. 1 \in DOMAIN The.was
    BY <1>1, <1>2 DEF IsDrawing
  <1>4. The.was[1] # Nowhere
    BY <1>2 DEF Near
  <1>5. The.was[1] \in Places
    BY <1>1, <1>2, <1>4 DEF IsDrawing
  <1> QED BY <1>2, <1>3, <1>5 DEF OnPath

\* Thing 1 drawn at its one place.
LEMMA DrawnOnce ==
    ASSUME Unforced, Shape, KnownGoes, Sprites, Own(table), Len(The.at) = 1, The.at # <<>>,
           NEW alpha, NEW ahead, NEW d, d = Sprite(table, 1, The.at[1], alpha, ahead)
    PROVE  /\ Own(d.table)
           /\ OnPath(d.shown, 1, alpha, ahead)
           /\ d.turn \in {<<1, 0>>, <<Old, Old>>}
           /\ keeper = "pose" /\ The.known /\ Near(The.was[1], The.at[1]) =>
                 d.shown = Between(The.was[1], The.at[1], alpha, ahead)
  <1>1. 1 \in Things /\ Old = 3
    BY PoseConstants DEF Things, Old
  <1>2. PICK p \in Int : p = The.at[1]
    <2>1. IsDrawing(The.at)
      BY <1>1, DrawingsAre DEF Shape, Lives, The
    <2> QED BY <2>1, PoseConstants DEF IsDrawing, Places, Nowhere
  <1>3. table \in Tables
    BY DEF Own
  <1>4. PICK i : i = SlotFor(table, 1)
    OBVIOUS
  <1>5. i \in Rows \cup {0} /\ (i # 0 => table[i].key = 1 \/ Vacant(table[i]))
    BY <1>1, <1>3, <1>4, SlotIs
  <1>6. /\ keeper = "pose" /\ i # 0 => table[i].key = 1 \/ \A j \in Rows : table[j].key # 1
        /\ keeper = "pose" /\ i = 0 => \A j \in Rows : table[j].key # 1
    BY <1>1, <1>3, <1>4, OwnSlotIs DEF SlotFor
  <1>7. CASE i = 0
    <2>1. d = [table |-> table, shown |-> 2 * p, turn |-> <<Old, Old>>]
      BY <1>1, <1>2, <1>3, <1>4, <1>7, SpriteIs
    <2>2. d.table = table /\ d.shown = 2 * p /\ d.turn = <<Old, Old>>
      BY <2>1
    <2>3. ~(keeper = "pose" /\ The.known)
      BY <1>6, <1>7 DEF Own, Followed
    <2> QED BY <1>2, <2>2, <2>3 DEF OnPath
  <1>8. CASE i # 0
    <2>1. i \in Rows
      BY <1>5, <1>8
    <2>2. PICK h \in Histories : h = table[i]
      BY <1>3, <2>1 DEF Tables
    <2>3. h.key = 1 \/ Vacant(h)
      BY <1>5, <1>8, <2>2
    <2>4. Sound(h)
      BY <2>1, <2>2 DEF Own
    <2>5. PICK x : x = Turned(Posed(h, 1, p), p # Nowhere /\ Rolls(h, 1))
      OBVIOUS
    <2>6. x = Pose(table, 1, p)
      BY <1>4, <2>2, <2>5 DEF Pose
    <2>7. d = [table |-> [table EXCEPT ![i] = x],
               shown |-> IF x.valid THEN Between(x.prev, x.cur, alpha, ahead) ELSE 2 * p,
               turn |-> IF x.valid /\ keeper = "pose" THEN x.turn ELSE <<Old, Old>>]
      BY <1>1, <1>2, <1>3, <1>4, <1>8, <2>6, SpriteIs
    <2>8. /\ d.table = [table EXCEPT ![i] = x]
          /\ d.shown = IF x.valid THEN Between(x.prev, x.cur, alpha, ahead) ELSE 2 * p
          /\ d.turn = IF x.valid /\ keeper = "pose" THEN x.turn ELSE <<Old, Old>>
      <3>1. PICK t0 : t0 = [table EXCEPT ![i] = x]
        OBVIOUS
      <3>2. PICK q0 : q0 = IF x.valid THEN Between(x.prev, x.cur, alpha, ahead) ELSE 2 * p
        OBVIOUS
      <3>3. PICK u0 : u0 = IF x.valid /\ keeper = "pose" THEN x.turn ELSE <<Old, Old>>
        OBVIOUS
      <3>4. d = [table |-> t0, shown |-> q0, turn |-> u0]
        BY <2>7, <3>1, <3>2, <3>3
      <3>5. d.table = t0 /\ d.shown = q0 /\ d.turn = u0
        BY <3>4
      <3> QED BY <3>1, <3>2, <3>3, <3>5
    <2>9. /\ x \in Histories
          /\ x.valid => Goal(x)
          /\ Sound(x)
          /\ p = Nowhere => x.key = h.key /\ ~x.valid
          /\ p # Nowhere => x.key = 1
          /\ keeper = "pose" /\ The.known /\ Followed(h) => Followed(x) /\ (Near(The.was[1], p) => x.valid)
      BY <1>2, <2>3, <2>4, <2>5, PoseFirst
    <2>10. PICK new : new = [table EXCEPT ![i] = x]
      OBVIOUS
    <2>11. new \in Tables /\ new[i] = x /\ \A j \in Rows : j # i => new[j] = table[j]
      BY <1>3, <2>1, <2>9, <2>10 DEF Tables
    <2>12. \A j \in Rows : Sound(new[j])
      BY <2>9, <2>11 DEF Own
    <2>13. keeper # "quad" => \A j, k \in Rows : new[j].key = 1 /\ new[k].key = 1 => j = k
      <3> SUFFICES ASSUME keeper = "pose", NEW j \in Rows, NEW k \in Rows, new[j].key = 1, new[k].key = 1
                   PROVE  j = k
        BY DEF Sprites
      <3>1. \A m \in Rows : m # i /\ table[m].key = 1 => table[i].key = 1
        BY <1>6, <1>8
      <3>2. \A m, n \in Rows : table[m].key = 1 /\ table[n].key = 1 => m = n
        BY DEF Own
      <3>3. \A m \in Rows : m # i => table[m].key # 1
        BY <2>1, <3>1, <3>2
      <3> QED BY <2>11, <3>3
    <2>14. ASSUME keeper = "pose", The.known
           PROVE  Followed(h) /\ Followed(x) /\ (Near(The.was[1], p) => x.valid)
      <3>1. PICK j \in Rows : Followed(table[j])
        BY <2>14 DEF Own
      <3>2. table[j].key = 1
        BY <3>1 DEF Followed
      <3>3. table[i].key = 1
        BY <1>6, <1>8, <2>14, <3>2
      <3>4. j = i
        BY <2>1, <2>14, <3>2, <3>3 DEF Own
      <3>5. Followed(h)
        BY <2>2, <3>1, <3>4
      <3> QED BY <2>9, <2>14, <3>5
    <2>15. Own(new)
      BY <2>1, <2>11, <2>12, <2>13, <2>14 DEF Own
    <2>16. OnPath(d.shown, 1, alpha, ahead)
      <3>1. CASE x.valid
        BY <2>8, <2>9, <3>1, GoalIsOnPath
      <3>2. CASE ~x.valid
        BY <1>2, <2>8, <3>2 DEF OnPath
      <3> QED BY <3>1, <3>2
    <2>17. d.turn \in {<<1, 0>>, <<Old, Old>>}
      BY <2>8, <2>9 DEF Goal
    <2>18. keeper = "pose" /\ The.known /\ Near(The.was[1], The.at[1]) =>
                 d.shown = Between(The.was[1], The.at[1], alpha, ahead)
      BY <1>2, <2>8, <2>9, <2>14 DEF Goal
    <2> QED BY <2>8, <2>10, <2>15, <2>16, <2>17, <2>18
  <1> QED BY <1>7, <1>8

\* A quad thing drawn at two places next to each other.
LEMMA DrawnTwice ==
    ASSUME Unforced, Shape, KnownGoes, Sprites, Own(table), Len(The.at) = 2, The.at # <<>>,
           NEW alpha, NEW ahead,
           NEW d, d = Sprite(table, 1, The.at[1], alpha, ahead),
           NEW e, e = Sprite(d.table, 1, The.at[2], alpha, ahead)
    PROVE  /\ Own(e.table)
           /\ OnPath(d.shown, 1, alpha, ahead) /\ OnPath(e.shown, 2, alpha, ahead)
           /\ d.turn = <<Old, Old>> /\ e.turn = <<Old, Old>>
  <1>1. 1 \in Things /\ Old = 3 /\ 0 \in 0..SharedFor
    BY PoseConstants DEF Things, Old
  <1>2. /\ keeper = "quad"
        /\ \E p \in Int, q \in Int : p = The.at[1] /\ q = The.at[2] /\ p # Nowhere /\ q # Nowhere /\ p # q
    <2>1. IsDrawing(The.at)
      BY <1>1, DrawingsAre DEF Shape, Lives, The
    <2>2. keeper \in {"quad", "camera"} /\ The.at[1] \in Places /\ The.at[2] = The.at[1] + 1
      BY <2>1 DEF IsDrawing
    <2>3. Places \subseteq Int /\ \A p \in Places : p + 1 \in Int /\ p # p + 1 /\ p # -1 /\ p + 1 # -1
      BY PoseConstants DEF Places
    <2> QED BY <2>2, <2>3 DEF Sprites, Nowhere
  <1>3. PICK p \in Int, q \in Int : p = The.at[1] /\ q = The.at[2] /\ p # Nowhere /\ q # Nowhere /\ p # q
    BY <1>2
  <1>4. table \in Tables
    BY DEF Own
  <1>5. PICK i : i = QuadSlot(table, 1)
    OBVIOUS
  <1>6. i = SlotFor(table, 1)
    BY <1>2, <1>5 DEF SlotFor
  <1>7. i \in Rows \cup {0} /\ (i # 0 => table[i].key = 1 \/ Vacant(table[i]))
    BY <1>1, <1>4, <1>5, QuadSlotIs
  <1>8. CASE i = 0
    <2>1. d = [table |-> table, shown |-> 2 * p, turn |-> <<Old, Old>>]
      BY <1>1, <1>3, <1>4, <1>6, <1>8, SpriteIs
    <2>2. d.table = table /\ d.shown = 2 * p /\ d.turn = <<Old, Old>>
      BY <2>1
    <2>3. e = [table |-> table, shown |-> 2 * q, turn |-> <<Old, Old>>]
      BY <1>1, <1>3, <1>4, <1>6, <1>8, <2>2, SpriteIs
    <2> QED BY <1>3, <2>2, <2>3 DEF OnPath
  <1>9. CASE i # 0
    <2>1. i \in Rows /\ i \in Nat
      BY <1>7, <1>9, RowsAre
    <2>2. PICK h \in Histories : h = table[i]
      BY <1>4, <2>1 DEF Tables
    <2>3. (h.key = 1 \/ Vacant(h)) /\ Sound(h)
      BY <1>7, <1>9, <2>1, <2>2 DEF Own
    <2>4. PICK x : x = Turned(Posed(h, 1, p), p # Nowhere /\ Rolls(h, 1))
      OBVIOUS
    <2>5. x = Pose(table, 1, p)
      BY <1>6, <2>2, <2>4 DEF Pose
    <2>6. d = [table |-> [table EXCEPT ![i] = x],
               shown |-> IF x.valid THEN Between(x.prev, x.cur, alpha, ahead) ELSE 2 * p,
               turn |-> IF x.valid /\ keeper = "pose" THEN x.turn ELSE <<Old, Old>>]
      BY <1>1, <1>3, <1>4, <1>6, <1>9, <2>5, SpriteIs
    <2>7. /\ d.table = [table EXCEPT ![i] = x]
          /\ d.shown = IF x.valid THEN Between(x.prev, x.cur, alpha, ahead) ELSE 2 * p
          /\ d.turn = <<Old, Old>>
      <3>1. PICK t0 : t0 = [table EXCEPT ![i] = x]
        OBVIOUS
      <3>2. PICK q0 : q0 = IF x.valid THEN Between(x.prev, x.cur, alpha, ahead) ELSE 2 * p
        OBVIOUS
      <3>3. PICK u0 : u0 = IF x.valid /\ keeper = "pose" THEN x.turn ELSE <<Old, Old>>
        OBVIOUS
      <3>4. d = [table |-> t0, shown |-> q0, turn |-> u0]
        BY <2>6, <3>1, <3>2, <3>3
      <3>5. d.table = t0 /\ d.shown = q0 /\ d.turn = u0
        BY <3>4
      <3> QED BY <1>2, <3>1, <3>2, <3>3, <3>5
    <2>8. /\ x \in Histories
          /\ x.valid => Goal(x)
          /\ x.key = 1 /\ x.lag = 0 /\ x.script = The.script /\ x.new = The.new /\ x.cur = p
      BY <1>3, <2>3, <2>4, PoseFirst
    <2>9. OnPath(d.shown, 1, alpha, ahead)
      <3>1. CASE x.valid
        BY <2>7, <2>8, <3>1, GoalIsOnPath
      <3>2. CASE ~x.valid
        BY <1>3, <2>7, <3>2 DEF OnPath
      <3> QED BY <3>1, <3>2
    <2>10. PICK tb : tb = d.table
      OBVIOUS
    <2>11. tb \in Tables /\ tb[i] = x /\ \A j \in Rows : j # i => tb[j] = table[j]
      BY <1>4, <2>1, <2>7, <2>8, <2>10 DEF Tables
    <2>12. QuadSlot(tb, 1) = i
      <3>1. PICK k : k = QuadSlot(tb, 1)
        OBVIOUS
      <3>2. /\ k \in Rows \cup {0}
            /\ k # 0 => /\ tb[k].key = 1 \/ Vacant(tb[k])
                        /\ \A j \in Rows : tb[j].key = 1 \/ Vacant(tb[j]) => k <= j
            /\ k = 0 => \A j \in Rows : tb[j].key # 1
        BY <1>1, <2>11, <3>1, QuadSlotIs
      <3>3. k # 0 /\ k <= i
        BY <2>1, <2>8, <2>11, <3>2
      <3>4. k # i => i <= k
        BY <1>1, <1>4, <1>5, <1>9, <2>11, <3>2, <3>3, QuadSlotIs
      <3>5. k \in Nat
        <4>1. k \in Rows
          BY <3>2, <3>3
        <4>2. Rows \subseteq Nat
          BY RowsAre
        <4> QED BY <4>1, <4>2
      <3> QED BY <2>1, <3>1, <3>3, <3>4, <3>5
    <2>13. i = SlotFor(tb, 1)
      BY <1>2, <2>12 DEF SlotFor
    <2>14. PICK y : y = Pose(tb, 1, q)
      OBVIOUS
    <2>15. y = [x EXCEPT !.valid = FALSE, !.cur = q, !.shared = 0]
      <3>1. ~Begins(x, 1)
        BY <2>8 DEF Begins, The
      <3>2. ~Rolls(x, 1)
        BY <2>8 DEF Rolls
      <3>3. Posed(x, 1, q) = Again(x, q)
        BY <1>3, <3>1, <3>2 DEF Posed
      <3>4. Again(x, q) = [x EXCEPT !.valid = FALSE, !.cur = q, !.shared = 0]
        BY <1>3, <2>8 DEF Again
      <3>5. PICK z : z = Posed(x, 1, q)
        OBVIOUS
      <3>6. y = z
        BY <1>2, <2>11, <2>13, <2>14, <3>5 DEF Pose, Turned
      <3> QED BY <3>3, <3>4, <3>5, <3>6
    <2>16. /\ y \in Histories /\ ~y.valid
           /\ y.key = 1 /\ y.lag = 0 /\ y.script = The.script /\ y.new = The.new /\ y.shared = 0
      BY <1>1, <2>8, <2>15 DEF Histories
    <2>17. e = [table |-> [tb EXCEPT ![i] = y],
                shown |-> IF y.valid THEN Between(y.prev, y.cur, alpha, ahead) ELSE 2 * q,
                turn |-> IF y.valid /\ keeper = "pose" THEN y.turn ELSE <<Old, Old>>]
      BY <1>1, <1>3, <1>9, <2>10, <2>11, <2>13, <2>14, SpriteIs
    <2>18. e.table = [tb EXCEPT ![i] = y] /\ e.shown = 2 * q /\ e.turn = <<Old, Old>>
      <3>1. PICK t0 : t0 = [tb EXCEPT ![i] = y]
        OBVIOUS
      <3>2. PICK q0 : q0 = IF y.valid THEN Between(y.prev, y.cur, alpha, ahead) ELSE 2 * q
        OBVIOUS
      <3>3. PICK u0 : u0 = IF y.valid /\ keeper = "pose" THEN y.turn ELSE <<Old, Old>>
        OBVIOUS
      <3>4. e = [table |-> t0, shown |-> q0, turn |-> u0]
        BY <2>17, <3>1, <3>2, <3>3
      <3>5. e.table = t0 /\ e.shown = q0 /\ e.turn = u0
        BY <3>4
      <3> QED BY <2>16, <3>1, <3>2, <3>3, <3>5
    <2>19. Sound(y)
      BY <1>2, <2>16 DEF Sound, Keeps, DrawnNow
    <2>20. PICK new : new = e.table
      OBVIOUS
    <2>21. new \in Tables /\ new[i] = y /\ \A j \in Rows : j # i => new[j] = table[j]
      BY <2>1, <2>11, <2>16, <2>18, <2>20 DEF Tables
    <2>22. Own(new)
      BY <1>2, <2>19, <2>21 DEF Own
    <2>23. OnPath(e.shown, 2, alpha, ahead)
      BY <1>3, <2>18 DEF OnPath
    <2> QED BY <2>7, <2>9, <2>18, <2>20, <2>22, <2>23
  <1> QED BY <1>8, <1>9

\* What is shown of thing 1 is on its way.
Shows(shown, turns, lead, alpha, ahead) ==
    /\ \A k \in DOMAIN shown :
          IF lead # 0 THEN shown[k] = 2 * The.at[k] + lead * alpha
          ELSE OnPath(shown[k], k, alpha, ahead)
    /\ \A k \in DOMAIN turns : turns[k] \in {<<1, 0>>, <<Old, Old>>}
    /\ keeper = "pose" /\ The.known /\ Near(The.was[1], The.at[1]) =>
          shown[1] = Between(The.was[1], The.at[1], alpha, ahead)

LeadNow(s) == IF LeadOn(s) THEN s.velocity ELSE 0

LEMMA OwnDrawnIs ==
    ASSUME Unforced, Shape, KnownGoes, Sprites, Own(table),
           NEW s \in SwitchesNow, NEW alpha \in Alphas,
           NEW own, own = OwnDrawn(s, alpha)
    PROVE  /\ Own(own.table)
           /\ Shows(own.shown, own.turns, LeadNow(s), AlphaOf(s, alpha), Ahead(s))
           /\ own = [table |-> own.table, shown |-> own.shown, turns |-> own.turns]
  <1>1. 1 \in Things
    BY PoseConstants DEF Things
  <1>2. IsDrawing(The.at)
    BY <1>1, DrawingsAre DEF Shape, Lives, The
  <1>3. alpha \in Int /\ s.velocity \in {0, 1}
    BY PoseConstants DEF SwitchesNow, Switches
  <1>4. keeper = "pose" => ~Unkept(s) /\ ~LeadOn(s)
    BY DEF Shape, Unkept, LeadOn
  <1>5. CASE Unkept(s) \/ The.at = <<>>
    <2>1. PICK f : f = [k \in DOMAIN The.at |->
             2 * The.at[k] + IF LeadOn(s) THEN Lead(s, alpha) ELSE 0]
      OBVIOUS
    <2>2. own = [table |-> table, turns |-> <<>>, shown |-> f]
      BY <1>5, <2>1 DEF OwnDrawn, The
    <2>3. own.table = table /\ own.turns = <<>> /\ own.shown = f
      BY <2>2
    <2>4. LeadOn(s) => s.playing /\ AlphaOf(s, alpha) = alpha
      BY DEF LeadOn, AlphaOf
    <2>5. ASSUME NEW k \in DOMAIN f
          PROVE  IF LeadNow(s) # 0 THEN f[k] = 2 * The.at[k] + LeadNow(s) * AlphaOf(s, alpha)
                 ELSE OnPath(f[k], k, AlphaOf(s, alpha), Ahead(s))
      <3>1. PICK c \in Int : c = 2 * The.at[k]
        <4>1. k \in DOMAIN The.at /\ The.at \in Seq(Int)
          BY <1>2, <2>1, <2>5 DEF IsDrawing
        <4> QED BY <4>1
      <3>2. f[k] = c + IF LeadOn(s) THEN Lead(s, alpha) ELSE 0
        BY <2>1, <2>5, <3>1
      <3>3. CASE LeadOn(s)
        <4>1. PICK v \in Int : v = s.velocity
          BY <1>3
        <4>2. f[k] = c + v * alpha
          BY <3>2, <3>3, <4>1 DEF Lead
        <4>3. LeadNow(s) = v
          BY <3>3, <4>1 DEF LeadNow
        <4>4. v = 0 => f[k] = c
          BY <1>3, <3>1, <4>2
        <4> QED BY <2>4, <3>1, <3>3, <4>2, <4>3, <4>4 DEF OnPath
      <3>4. CASE ~LeadOn(s)
        <4>1. f[k] = c
          BY <3>1, <3>2, <3>4
        <4>2. LeadNow(s) = 0
          BY <3>4 DEF LeadNow
        <4> QED BY <3>1, <4>1, <4>2 DEF OnPath
      <3> QED BY <3>3, <3>4
    <2>6. ~(keeper = "pose" /\ The.known)
      BY <1>4, <1>5 DEF KnownGoes
    <2>7. \A k \in DOMAIN <<>> : <<>>[k] \in {<<1, 0>>, <<Old, Old>>}
      OBVIOUS
    <2>8. Shows(f, <<>>, LeadNow(s), AlphaOf(s, alpha), Ahead(s))
      BY <2>5, <2>6, <2>7 DEF Shows
    <2> QED BY <2>2, <2>3, <2>8
  <1>6. CASE ~Unkept(s) /\ The.at # <<>>
    <2>1. LeadNow(s) = 0
      BY <1>6 DEF LeadNow, Unkept
    <2>2. PICK t : t = AlphaOf(s, alpha)
      OBVIOUS
    <2>3. PICK b : b = Ahead(s)
      OBVIOUS
    <2>4. own = Draws(table, 1, t, b)
      BY <1>6, <2>2, <2>3 DEF OwnDrawn, The
    <2>5. CASE Len(The.at) = 1
      <3>1. PICK d : d = Sprite(table, 1, The.at[1], t, b)
        OBVIOUS
      <3>2. own = [table |-> d.table, shown |-> <<d.shown>>, turns |-> <<d.turn>>]
        BY <2>4, <2>5, <3>1, DrawsOne DEF The
      <3>3. /\ Own(d.table)
            /\ OnPath(d.shown, 1, t, b)
            /\ d.turn \in {<<1, 0>>, <<Old, Old>>}
            /\ keeper = "pose" /\ The.known /\ Near(The.was[1], The.at[1]) =>
                 d.shown = Between(The.was[1], The.at[1], t, b)
        BY <1>6, <2>5, <3>1, DrawnOnce
      <3>4. PICK q : q = d.shown
        OBVIOUS
      <3>5. PICK u : u = d.turn
        OBVIOUS
      <3>6. Shows(<<q>>, <<u>>, 0, t, b)
        BY <3>3, <3>4, <3>5 DEF Shows
      <3> QED BY <2>1, <2>2, <2>3, <3>2, <3>3, <3>4, <3>5, <3>6
    <2>6. CASE Len(The.at) = 2
      <3>1. PICK d : d = Sprite(table, 1, The.at[1], t, b)
        OBVIOUS
      <3>2. PICK e : e = Sprite(d.table, 1, The.at[2], t, b)
        OBVIOUS
      <3>3. own = [table |-> e.table, shown |-> <<d.shown, e.shown>>, turns |-> <<d.turn, e.turn>>]
        BY <2>4, <2>6, <3>1, <3>2, DrawsTwo DEF The
      <3>4. /\ Own(e.table)
            /\ OnPath(d.shown, 1, t, b) /\ OnPath(e.shown, 2, t, b)
            /\ d.turn = <<Old, Old>> /\ e.turn = <<Old, Old>>
        BY <1>6, <2>6, <3>1, <3>2, DrawnTwice
      <3>5. keeper # "pose"
        BY <1>2, <1>6, <2>6 DEF IsDrawing
      <3>6. PICK q : q = d.shown
        OBVIOUS
      <3>7. PICK r : r = e.shown
        OBVIOUS
      <3>8. PICK u : u = <<Old, Old>>
        OBVIOUS
      <3>9. Shows(<<q, r>>, <<u, u>>, 0, t, b)
        BY <3>4, <3>5, <3>6, <3>7, <3>8 DEF Shows
      <3> QED BY <2>1, <2>2, <2>3, <3>3, <3>4, <3>6, <3>7, <3>8, <3>9
    <2> QED BY <1>2, <1>6, <2>5, <2>6 DEF IsDrawing
  <1> QED BY <1>5, <1>6 DEF The

\* The others drawn after it leave it what it has.
LEMMA OwnStays ==
    ASSUME NEW tb, NEW new, Own(tb), Spares(tb, new)
    PROVE  Own(new)
  <1>1. \A i \in Rows : Sound(new[i])
    BY DEF Own, Spares, Sound
  <1>2. ASSUME keeper = "pose", The.known
        PROVE  \E i \in Rows : Followed(new[i])
    <2>1. PICK i \in Rows : Followed(tb[i])
      BY <1>2 DEF Own
    <2>2. Mine(tb[i])
      BY <2>1 DEF Followed, Mine, Old
    <2> QED BY <2>1, <2>2 DEF Spares
  <1> QED BY <1>1, <1>2 DEF Own, Spares

\* Where a thing may be shown is on the path of the property.
LEMMA PathIs ==
    ASSUME Unforced, Shape, NEW q, NEW k, k \in DOMAIN The.at, OnPath(q, k, glance.alpha, glance.ahead)
    PROVE  q \in Path(k)
  BY DEF OnPath, Path, The

-------------------------------------------------------------------------------
(* Steps. *)

\* Nothing is shown until the next presentation.
LEMMA NothingShown ==
    ASSUME glance' \in {Unseen, Moving}
    PROVE  OwnMotion' /\ SteadyMotion'
  <1>1. glance'.shown = <<>> /\ glance'.turns = <<>>
    BY DEF Unseen, Moving
  <1>2. OwnMotion'
    BY <1>1 DEF OwnMotion
  <1>3. SteadyMotion'
    BY <1>1 DEF SteadyMotion
  <1> QED BY <1>2, <1>3

\* What is said of a history is said of the same history when thing 1 stays.
LEMMA SoundStays ==
    ASSUME world'[1] = world[1], keeper' = keeper
    PROVE  /\ \A h : Sound(h)' <=> Sound(h)
           /\ \A h : Followed(h)' <=> Followed(h)
  <1>1. ASSUME NEW h PROVE Sound(h)' <=> Sound(h)
    BY DEF Sound, Mine, Keeps, DrawnNow, DrawnLast, OnItsWay, Begins, Trusted, The
  <1>2. ASSUME NEW h PROVE Followed(h)' <=> Followed(h)
    BY DEF Followed, The
  <1> QED BY <1>1, <1>2

LEMMA OwnNext ==
    ASSUME world'[1] = world[1], keeper' = keeper, Own(table')
    PROVE  Own(table)'
  <1>1. Rows' = Rows /\ Tables' = Tables
    BY DEF Rows, Tables, Histories
  <1>2. The' = The
    BY DEF The
  <1> QED BY <1>1, <1>2, SoundStays DEF Own

LEMMA OwnOf ==
    ASSUME Sprites
    PROVE  Shape /\ Own(table) <=> Shape /\ Alone /\ Drawn
  BY DEF Own, Shape, Alone, Drawn, Sound, Sprites

LEMMA OwnOfNext ==
    ASSUME Sprites'
    PROVE  Shape' /\ Own(table)' <=> Shape' /\ Alone' /\ Drawn'
  BY DEF Own, Shape, Alone, Drawn, Sound, Sprites

\* A presentation of sprites or quads.
LEMMA SpritesShown ==
    ASSUME Unforced, PoseInv, Sprites, Present
    PROVE  PoseHolds'
  <1>1. PICK s \in SwitchesNow, alpha \in Alphas, absolute \in Absolutes :
          LET drawn == Shown(s, alpha, absolute)
          IN  /\ table' = drawn.table
              /\ glance' = [shown |-> drawn.shown, turns |-> drawn.turns,
                            alpha |-> AlphaOf(s, alpha), ahead |-> Ahead(s),
                            lead |-> IF LeadOn(s) THEN s.velocity ELSE 0]
    BY DEF Present
  <1>2. world' = world /\ keeper' = keeper /\ kind' = kind
    BY DEF Present
  <1>3. Shape /\ KnownGoes /\ Own(table)
    BY OwnOf DEF PoseInv
  <1>4. PICK own : own = OwnDrawn(s, alpha)
    OBVIOUS
  <1>5. /\ Own(own.table)
        /\ Shows(own.shown, own.turns, LeadNow(s), AlphaOf(s, alpha), Ahead(s))
        /\ own = [table |-> own.table, shown |-> own.shown, turns |-> own.turns]
    BY <1>3, <1>4, OwnDrawnIs
  <1>6. PICK tb : tb = OthersDrawn(own.table, AlphaOf(s, alpha))
    OBVIOUS
  <1>7. Spares(own.table, tb)
    BY <1>3, <1>5, <1>6, OthersSpare DEF Own
  <1>8. Shown(s, alpha, absolute) = [own EXCEPT !.table = tb]
    <2>1. Shown(s, alpha, absolute) = DrawnAll(s, alpha)
      BY DEF Shown, Sprites
    <2> QED BY <1>4, <1>6, <2>1 DEF DrawnAll
  <1>9. PICK t, f, u : own = [table |-> t, shown |-> f, turns |-> u]
    BY <1>5
  <1>10. own.shown = f /\ own.turns = u
    BY <1>9
  <1>11. Shown(s, alpha, absolute) = [table |-> tb, shown |-> f, turns |-> u]
    BY <1>8, <1>9
  <1>12. PICK z \in Int : z = AlphaOf(s, alpha) /\ z >= 0
    BY PoseConstants DEF AlphaOf
  <1>13. /\ table' = tb
         /\ glance' = [shown |-> f, turns |-> u, alpha |-> z, ahead |-> Ahead(s), lead |-> LeadNow(s)]
    BY <1>1, <1>11, <1>12 DEF LeadNow
  <1>14. /\ glance'.shown = f /\ glance'.turns = u /\ glance'.alpha = z
         /\ glance'.ahead = Ahead(s) /\ glance'.lead = LeadNow(s)
    BY <1>13
  <1>15. glance' # Moving
    BY <1>12, <1>14 DEF Moving, Unseen
  <1>16. Own(tb)
    BY <1>5, <1>7, OwnStays
  <1>17. Own(table)'
    BY <1>2, <1>13, <1>16, OwnNext
  <1>18. Shape'
    <2>1. Tables' = Tables /\ Lives' = Lives
      BY <1>2 DEF Tables, Rows, Histories, Lives, Drawings, PlacesOfTick
    <2>2. table' \in Tables
      BY <1>13, <1>16 DEF Own
    <2> QED BY <1>2, <1>3, <1>15, <2>1, <2>2 DEF Shape
  <1>19. Alone' /\ Drawn'
    <2>1. Sprites'
      BY <1>2 DEF Sprites
    <2> QED BY <1>17, <1>18, <2>1, OwnOfNext
  <1>20. KnownGoes'
    BY <1>2, <1>3 DEF KnownGoes, The
  <1>21. Tracks' /\ Filmed'
    BY <1>2 DEF Tracks, Filmed, Sprites
  <1>22. Shows(f, u, LeadNow(s), z, Ahead(s))
    BY <1>5, <1>10, <1>12
  <1>23. OwnMotion'
    <2>1. ASSUME NEW k \in DOMAIN f
          PROVE  f[k] \in (IF glance'.lead # 0
                        THEN {2 * world'[1].at[k] + glance'.lead * glance'.alpha} ELSE Path(k)')
      <3>1. IF LeadNow(s) # 0 THEN f[k] = 2 * The.at[k] + LeadNow(s) * z
            ELSE OnPath(f[k], k, z, Ahead(s))
        BY <1>22 DEF Shows
      <3>2. LeadNow(s) = 0 => f[k] \in Path(k)'
        BY <1>2, <1>14, <3>1 DEF Path, OnPath, The
      <3> QED BY <1>2, <1>14, <3>1, <3>2 DEF The
    <2>2. \A k \in DOMAIN u : u[k] \in {<<1, 0>>, <<Old, Old>>}
      BY <1>22 DEF Shows
    <2>3. keeper' # "enemy" /\ keeper' # "camera"
      BY <1>2 DEF Sprites
    <2> QED BY <1>14, <2>1, <2>2, <2>3 DEF OwnMotion
  <1>24. SteadyMotion'
    <2>1. keeper = "pose" /\ The.known /\ Near(The.was[1], The.at[1]) =>
            f[1] = Between(The.was[1], The.at[1], z, Ahead(s))
      BY <1>22 DEF Shows
    <2> QED BY <1>2, <1>14, <2>1 DEF SteadyMotion, The, Sprites
  <1> QED BY <1>18, <1>19, <1>20, <1>21, <1>23, <1>24 DEF PoseHolds, PoseInv

\* Enemies and options: what is of thing 1 after a capture.
OnFrames == keeper \in {"enemy", "option"}
Held(tb) ==
    /\ tb \in Tables
    /\ \A i, j \in Rows : tb[i].key = 1 /\ tb[j].key = 1 => i = j
    /\ \A i \in Rows : tb[i].key = 1 => Settled(tb[i])
    /\ The.known => \E i \in Rows : tb[i].key = 1 /\ tb[i].prev = The.was[1]
    /\ keeper = "option" /\ The.at # <<>> => tb[1].key = 1

\* and before it: to be remembered from the last tick, or from none.
Awaited(tb) ==
    /\ tb \in Tables
    /\ \A i, j \in Rows : tb[i].key = 1 /\ tb[j].key = 1 => i = j
    /\ \A i \in Rows : tb[i].key = 1 =>
          IF The.was # <<>> THEN tb[i].lag = 1 /\ tb[i].cur = The.was[1]
          ELSE tb[i].lag > 0 /\ (The.at # <<>> => tb[i].lag > 1)
    /\ The.known => \E i \in Rows : tb[i].key = 1

\* The place of a thing in the list as of the last capture.
LEMMA ThingPlace ==
    ASSUME Unforced, Shape, OnFrames, The.at # <<>>
    PROVE  The.at[1] \in Int /\ The.at[1] \in Places
  <1>1. 1 \in Things
    BY PoseConstants DEF Things
  <1>2. IsDrawing(The.at)
    BY <1>1, DrawingsAre DEF Shape, Lives, The
  <1> QED BY <1>2, PoseConstants DEF IsDrawing, OnFrames, Places

\* The others leave an enemy what it holds.
LEMMA HeldStays ==
    ASSUME NEW tb, NEW new, Held(tb), Spares(tb, new), keeper = "enemy", KnownGoes
    PROVE  Held(new)
  <1>1. new \in Tables /\ \A i \in Rows : /\ new[i].key = 1 => tb[i].key = 1
                                          /\ Mine(tb[i]) \/ Mine(new[i]) => new[i] = tb[i]
    BY DEF Spares
  <1>2. ASSUME NEW i \in Rows, new[i].key = 1
        PROVE  Settled(new[i])
    <2>1. tb[i].key = 1 /\ Settled(tb[i])
      BY <1>1, <1>2 DEF Held
    <2>2. new[i].lag \in 0..3
      BY <1>1 DEF Tables, Histories, Old
    <2>3. CASE The.at # <<>>
      <3>1. Mine(tb[i])
        BY <2>1, <2>3 DEF Settled, Mine, Old
      <3> QED BY <1>1, <2>1, <3>1
    <2>4. CASE The.at = <<>> /\ Mine(new[i])
      BY <1>1, <2>1, <2>4
    <2>5. CASE The.at = <<>> /\ ~Mine(new[i])
      BY <1>2, <2>5 DEF Settled, Mine, Old
    <2> QED BY <2>3, <2>4, <2>5
  <1>3. ASSUME NEW i \in Rows, tb[i].key = 1, The.at # <<>>
        PROVE  new[i] = tb[i]
    <2>1. Mine(tb[i])
      BY <1>3 DEF Held, Settled, Mine, Old
    <2> QED BY <1>1, <2>1
  <1>4. \A i, j \in Rows : new[i].key = 1 /\ new[j].key = 1 => i = j
    BY <1>1 DEF Held
  <1>5. ASSUME The.known
        PROVE  \E i \in Rows : new[i].key = 1 /\ new[i].prev = The.was[1]
    <2>1. PICK i \in Rows : tb[i].key = 1 /\ tb[i].prev = The.was[1]
      BY <1>5 DEF Held
    <2>2. The.at # <<>>
      BY <1>5 DEF KnownGoes
    <2> QED BY <1>3, <2>1, <2>2
  <1> QED BY <1>1, <1>2, <1>4, <1>5 DEF Held

\* An enemy that is captured, or found in its place.
LEMMA EnemyHeld ==
    ASSUME Unforced, Shape, KnownGoes, keeper = "enemy", NEW tb, NEW capture \in BOOLEAN,
           IF capture THEN Awaited(tb) ELSE Held(tb)
    PROVE  Held(TrackedAll(tb, capture))
  <1>1. 1 \in Things /\ Old = 3
    BY PoseConstants DEF Things, Old
  <1>2. tb \in Tables /\ \A i, j \in Rows : tb[i].key = 1 /\ tb[j].key = 1 => i = j
    BY DEF Held, Awaited
  <1>3. PICK x \in Tables : /\ x = IF world[1].at = <<>> THEN tb ELSE Tracked(tb, 1, capture)
                            /\ Spares(x, TrackedAll(tb, capture))
    BY <1>2, TrackedAllIs
  <1>4. \A i \in Rows : tb[i].lag \in 0..3
    BY <1>1, <1>2 DEF Tables, Histories
  <1>5. Held(x)
    <2>1. CASE The.at = <<>>
      <3>1. x = tb
        BY <1>3, <2>1 DEF The
      <3>2. \A i \in Rows : tb[i].key = 1 => tb[i].lag > 0
        BY <1>4, <2>1 DEF Held, Awaited, Settled
      <3>3. ~The.known
        BY <2>1 DEF KnownGoes
      <3> QED BY <1>2, <2>1, <3>1, <3>2, <3>3 DEF Held, Settled
    <2>2. CASE The.at # <<>>
      <3>1. PICK p \in Int : p = The.at[1]
        BY <2>2, ThingPlace DEF OnFrames
      <3>2. PICK i : i = OwnSlot(tb, 1)
        OBVIOUS
      <3>3. /\ i \in Rows \cup {0}
            /\ i # 0 => tb[i].key = 1 \/ \A j \in Rows : tb[j].key # 1
            /\ (\E j \in Rows : tb[j].key = 1) => i # 0 /\ tb[i].key = 1
        BY <1>1, <1>2, <3>2, OwnSlotIs
      <3>4. x = Tracked(tb, 1, capture)
        BY <1>3, <2>2 DEF The
      <3>5. CASE i = 0
        <4>1. x = tb
          BY <3>2, <3>4, <3>5 DEF Tracked
        <4>2. \A j \in Rows : tb[j].key # 1
          BY <3>3, <3>5
        <4>3. ~The.known
          BY <4>2 DEF Held, Awaited
        <4> QED BY <1>2, <4>1, <4>2, <4>3 DEF Held
      <3>6. CASE i # 0 /\ ~capture /\ tb[i].key = 1
        <4>1. x = tb
          BY <3>2, <3>4, <3>6 DEF Tracked
        <4> QED BY <3>6, <4>1
      <3>7. CASE i # 0 /\ ~capture /\ tb[i].key # 1
        <4>1. x = [tb EXCEPT ![i] = [tb[i] EXCEPT !.key = 1, !.lag = 0, !.cur = p, !.prev = p]]
          BY <3>1, <3>2, <3>4, <3>7 DEF Tracked, The
        <4>2. i \in Rows /\ tb[i] \in Histories
          BY <1>2, <3>3, <3>7 DEF Tables
        <4>3. PICK y : y = [tb[i] EXCEPT !.key = 1, !.lag = 0, !.cur = p, !.prev = p]
          OBVIOUS
        <4>4. y.key = 1 /\ y.lag = 0 /\ y.cur = p /\ y.prev = p
          BY <4>2, <4>3 DEF Histories
        <4>5. x[i] = y /\ \A j \in Rows : j # i => x[j] = tb[j]
          BY <1>2, <4>1, <4>2, <4>3 DEF Tables
        <4>6. \A j \in Rows : tb[j].key # 1
          BY <3>3, <3>7
        <4>7. ~The.known
          BY <3>7, <4>6 DEF Held
        <4>8. \A j \in Rows : x[j].key = 1 => j = i
          BY <4>5, <4>6
        <4>9. Settled(y)
          BY <2>2, <3>1, <4>4 DEF Settled
        <4> QED BY <4>5, <4>7, <4>8, <4>9 DEF Held
      <3>8. CASE i # 0 /\ capture
        <4>1. i \in Rows /\ tb[i] \in Histories
          BY <1>2, <3>3, <3>8 DEF Tables
        <4>2. PICK h : h = tb[i]
          OBVIOUS
        <4>3. PICK q : q = IF h.key = 1 /\ h.lag = 1 THEN h.cur ELSE p
          OBVIOUS
        <4>4. x = [tb EXCEPT ![i] = [h EXCEPT !.key = 1, !.lag = 0, !.cur = p, !.prev = q]]
          BY <3>1, <3>2, <3>4, <3>8, <4>2, <4>3 DEF Tracked, The
        <4>5. PICK y : y = [h EXCEPT !.key = 1, !.lag = 0, !.cur = p, !.prev = q]
          OBVIOUS
        <4>6. y.key = 1 /\ y.lag = 0 /\ y.cur = p /\ y.prev = q
          BY <4>1, <4>2, <4>5 DEF Histories
        <4>7. x[i] = y /\ \A j \in Rows : j # i => x[j] = tb[j]
          BY <1>2, <4>1, <4>4, <4>5 DEF Tables
        <4>8. \A j \in Rows : tb[j].key = 1 => j = i
          BY <1>2, <3>3, <4>1
        <4>9. h.key = 1 => IF The.was # <<>> THEN h.lag = 1 /\ h.cur = The.was[1] ELSE h.lag > 1
          BY <2>2, <3>8, <4>1, <4>2 DEF Awaited
        <4>10. h.key = 1 /\ h.lag = 1 => The.was # <<>> /\ h.cur = The.was[1]
          BY <4>9
        <4>11. Settled(y)
          BY <2>2, <3>1, <4>3, <4>6, <4>10 DEF Settled
        <4>12. The.known => y.prev = The.was[1]
          <5> SUFFICES ASSUME The.known PROVE q = The.was[1]
            BY <4>6
          <5>1. h.key = 1
            BY <3>3, <3>8, <4>2 DEF Awaited
          <5>2. The.was # <<>>
            BY DEF KnownGoes
          <5> QED BY <4>3, <4>9, <5>1, <5>2
        <4>13. \A j \in Rows : x[j].key = 1 => j = i
          BY <4>7, <4>8
        <4> QED BY <4>1, <4>6, <4>7, <4>11, <4>12, <4>13 DEF Held
      <3> QED BY <3>5, <3>6, <3>7, <3>8
    <2> QED BY <2>1, <2>2
  <1> QED BY <1>3, <1>5, HeldStays

\* The same of an option, which has its slot to itself.
LEMMA OptionHeld ==
    ASSUME Unforced, Shape, KnownGoes, keeper = "option", NEW tb, NEW capture \in BOOLEAN,
           IF capture THEN Awaited(tb) ELSE Held(tb)
    PROVE  Held(<<OptionKept(tb[1], capture)>>)
  <1>1. Rows = {1} /\ Old = 3 /\ 1 \in 0..Count /\ 0 \in 0..Old
    BY PoseConstants DEF Rows, Old
  <1>2. tb \in Tables /\ tb[1] \in Histories
    BY <1>1 DEF Held, Awaited, Tables
  <1>3. PICK h : h = tb[1]
    OBVIOUS
  <1>4. PICK x : x = OptionKept(h, capture)
    OBVIOUS
  <1>5. ASSUME NEW y, y \in Histories, y.key = 1 => Settled(y),
               The.known => y.key = 1 /\ y.prev = The.was[1], The.at # <<>> => y.key = 1
        PROVE  Held(<<y>>)
    <2>1. <<y>> \in Tables
      BY <1>1, <1>5 DEF Tables
    <2> QED BY <1>1, <1>5, <2>1 DEF Held
  <1>6. CASE The.at = <<>>
    <2>1. x = Blank
      BY <1>4, <1>6 DEF OptionKept, The
    <2>2. x \in Histories
      BY <2>1, BlankIs
    <2>3. x.key = 0 /\ ~The.known
      BY <1>6, <2>1 DEF Blank, KnownGoes
    <2> QED BY <1>3, <1>4, <1>5, <1>6, <2>2, <2>3
  <1>7. CASE The.at # <<>> /\ ~capture
    <2>1. h.key = 1 /\ Settled(h) /\ (The.known => h.prev = The.was[1])
      BY <1>1, <1>3, <1>7 DEF Held
    <2>2. h.lag = 0
      BY <1>7, <2>1 DEF Settled
    <2>3. x = h
      BY <1>4, <1>7, <2>1, <2>2 DEF OptionKept, The
    <2> QED BY <1>2, <1>3, <1>4, <1>5, <2>1, <2>3
  <1>8. CASE The.at # <<>> /\ capture
    <2>1. PICK p \in Int : p = The.at[1]
      BY <1>8, ThingPlace DEF OnFrames
    <2>2. PICK q : q = IF h.key = 1 /\ h.lag = 1 THEN h.cur ELSE p
      OBVIOUS
    <2>3. x = [h EXCEPT !.key = 1, !.lag = 0, !.cur = p, !.prev = q]
      BY <1>4, <1>8, <2>1, <2>2 DEF OptionKept, The
    <2>4. q \in Int
      BY <1>2, <1>3, <2>1, <2>2 DEF Histories
    <2>5. x \in Histories /\ x.key = 1 /\ x.lag = 0 /\ x.cur = p /\ x.prev = q
      BY <1>1, <1>2, <1>3, <2>1, <2>3, <2>4 DEF Histories
    <2>6. h.key = 1 => IF The.was # <<>> THEN h.lag = 1 /\ h.cur = The.was[1] ELSE h.lag > 1
      BY <1>1, <1>3, <1>8 DEF Awaited
    <2>7. h.key = 1 /\ h.lag = 1 => The.was # <<>> /\ h.cur = The.was[1]
      BY <2>6
    <2>8. Settled(x)
      BY <1>8, <2>1, <2>2, <2>5, <2>7 DEF Settled
    <2>9. The.known => x.prev = The.was[1]
      <3> SUFFICES ASSUME The.known PROVE q = The.was[1]
        BY <2>5
      <3>1. h.key = 1 /\ The.was # <<>>
        BY <1>1, <1>3, <1>8 DEF Awaited, KnownGoes
      <3> QED BY <2>2, <2>6, <3>1
    <2> QED BY <1>3, <1>4, <1>5, <2>5, <2>8, <2>9
  <1> QED BY <1>6, <1>7, <1>8

LEMMA CapturedHeld ==
    ASSUME Unforced, Shape, KnownGoes, OnFrames, NEW tb, NEW capture \in BOOLEAN,
           IF capture THEN Awaited(tb) ELSE Held(tb)
    PROVE  Held(Captured(tb, capture))
  <1>1. CASE keeper = "enemy"
    <2>1. Captured(tb, capture) = TrackedAll(tb, capture)
      BY <1>1 DEF Captured
    <2> QED BY <1>1, <2>1, EnemyHeld
  <1>2. CASE keeper = "option"
    <2>1. Captured(tb, capture) = <<OptionKept(tb[1], capture)>>
      BY <1>2 DEF Captured
    <2> QED BY <1>2, <2>1, OptionHeld
  <1> QED BY <1>1, <1>2 DEF OnFrames

LEMMA HeldOf ==
    ASSUME PoseInv, OnFrames, glance # Moving
    PROVE  Held(table)
  BY DEF PoseInv, Shape, Alone, Tracks, Held, OnFrames

LEMMA HeldNext ==
    ASSUME world'[1] = world[1], keeper' = keeper, Held(table'), OnFrames,
           The.was # <<>> => The.at # <<>>, glance' # Moving
    PROVE  Alone' /\ Tracks'
  <1>1. Rows' = Rows
    BY DEF Rows
  <1>2. The' = The
    BY DEF The
  <1>3. ASSUME NEW h PROVE Settled(h)' <=> Settled(h)
    BY DEF Settled, The
  <1>4. Alone'
    BY <1>1 DEF Held, Alone
  <1>5. Tracks'
    BY <1>1, <1>2, <1>3 DEF Held, Tracks
  <1> QED BY <1>4, <1>5

\* A presentation of enemies or options.
LEMMA PlacedIsOnPath ==
    ASSUME Unforced, Shape, KnownGoes, OnFrames, The.at # <<>>, NEW h \in Histories, Settled(h),
           NEW alpha \in Int, NEW ahead, ahead = FALSE
    PROVE  /\ OnPath(Placed(h, alpha), 1, alpha, ahead)
           /\ Placed(h, alpha) \in Int
           /\ The.known /\ h.prev = The.was[1] /\ Near(The.was[1], The.at[1]) =>
                 Placed(h, alpha) = Between(The.was[1], The.at[1], alpha, ahead)
  <1>1. h.cur = The.at[1] /\ (h.prev = The.at[1] \/ (The.was # <<>> /\ h.prev = The.was[1]))
    BY DEF Settled
  <1>2. PICK p \in Int, q \in Int : p = h.prev /\ q = h.cur
    BY DEF Histories
  <1>3. 1 \in Things
    BY PoseConstants DEF Things
  <1>4. Placed(h, alpha) = IF Near(p, q) THEN 2 * p + (q - p) * alpha ELSE 2 * q
    BY <1>2 DEF Placed, Between
  <1>5. Placed(h, alpha) \in Int
    BY <1>4
  <1>6. CASE ~Near(p, q) \/ p = q
    <2>1. Placed(h, alpha) = 2 * q
      BY <1>4, <1>6
    <2>2. OnPath(Placed(h, alpha), 1, alpha, ahead)
      BY <1>1, <1>2, <2>1 DEF OnPath
    <2>3. The.known /\ h.prev = The.was[1] /\ Near(The.was[1], The.at[1]) =>
                 Placed(h, alpha) = Between(The.was[1], The.at[1], alpha, ahead)
      BY <1>1, <1>2, <1>4 DEF Between
    <2> QED BY <1>5, <2>2, <2>3
  <1>7. CASE Near(p, q) /\ p # q
    <2>1. The.was # <<>> /\ p = The.was[1] /\ q = The.at[1] /\ Near(The.was[1], The.at[1])
      BY <1>1, <1>2, <1>7
    <2>2. Placed(h, alpha) = Between(The.was[1], The.at[1], alpha, ahead)
      BY <1>4, <1>7, <2>1 DEF Between
    <2>3. IsDrawing(The.was)
      BY <1>3, DrawingsAre DEF Shape, Lives, The
    <2>4. 1 \in DOMAIN The.was /\ The.was[1] \in Places
      BY <2>1, <2>3 DEF IsDrawing, OnFrames
    <2> QED BY <1>5, <2>1, <2>2, <2>4 DEF OnPath
  <1> QED BY <1>6, <1>7

LEMMA FramesShown ==
    ASSUME Unforced, PoseInv, OnFrames, Present
    PROVE  PoseHolds'
  <1>1. PICK s \in SwitchesNow, alpha \in Alphas, absolute \in Absolutes :
          LET drawn == Shown(s, alpha, absolute)
          IN  /\ table' = drawn.table
              /\ glance' = [shown |-> drawn.shown, turns |-> drawn.turns,
                            alpha |-> AlphaOf(s, alpha), ahead |-> Ahead(s),
                            lead |-> IF LeadOn(s) THEN s.velocity ELSE 0]
    BY DEF Present
  <1>2. world' = world /\ keeper' = keeper /\ kind' = kind /\ glance # Moving
    BY DEF Present
  <1>3. Shape /\ KnownGoes /\ Held(table) /\ kind = "field" /\ (The.was # <<>> => The.at # <<>>)
    BY <1>2, HeldOf DEF PoseInv, Shape, OnFrames, Tracks
  <1>4. PICK tb : tb = Captured(table, FALSE)
    OBVIOUS
  <1>5. Held(tb)
    <2>1. PICK b \in BOOLEAN : b = FALSE
      OBVIOUS
    <2> QED BY <1>3, <1>4, <2>1, CapturedHeld
  <1>6. alpha \in Int /\ alpha >= 0 /\ 1 \in Things
    BY PoseConstants DEF Things
  <1>7. PICK ahead : ahead = Ahead(s)
    OBVIOUS
  <1>8. ahead = FALSE /\ ~LeadOn(s) /\ AlphaOf(s, alpha) = alpha
    <2>1. ~s.predict /\ ~s.projectilesSub /\ ~s.playerSub
      BY <1>3 DEF SwitchesNow, OnFrames
    <2>2. ~Ahead(s)
      BY <2>1 DEF Ahead, AnySub
    <2>3. Ahead(s) \in BOOLEAN
      BY DEF Ahead, Playfield, AnySub, SwitchesNow, Switches
    <2> QED BY <1>3, <1>7, <2>2, <2>3 DEF LeadOn, AlphaOf, OnFrames
  <1>9. PICK R : R = IF OwnSlot(tb, 1) # 0 /\ tb[OwnSlot(tb, 1)].key = 1
                     THEN Placed(tb[OwnSlot(tb, 1)], alpha) ELSE 2 * The.at[1]
    OBVIOUS
  <1>10. PICK f : f = IF The.at = <<>> THEN <<>>
                      ELSE IF keeper = "enemy" THEN Around(R, absolute)
                      ELSE <<Placed(tb[1], alpha)>>
    OBVIOUS
  <1>11. Shown(s, alpha, absolute) = [table |-> tb, shown |-> f, turns |-> <<>>]
    <2>1. CASE The.at = <<>>
      BY <1>4, <1>10, <2>1 DEF Shown, OnFrames, The
    <2>2. CASE The.at # <<>> /\ keeper = "enemy"
      BY <1>4, <1>9, <1>10, <2>2 DEF Shown, The
    <2>3. CASE The.at # <<>> /\ keeper = "option"
      BY <1>4, <1>10, <2>3 DEF Shown, The
    <2> QED BY <2>1, <2>2, <2>3 DEF OnFrames
  <1>12. /\ table' = tb
         /\ glance' = [shown |-> f, turns |-> <<>>, alpha |-> alpha, ahead |-> ahead, lead |-> 0]
    BY <1>1, <1>7, <1>8, <1>11
  <1>13. /\ glance'.shown = f /\ glance'.turns = <<>> /\ glance'.alpha = alpha
         /\ glance'.ahead = ahead /\ glance'.lead = 0
    BY <1>12
  <1>14. glance' # Moving
    BY <1>6, <1>13 DEF Moving, Unseen
  <1>15. Alone' /\ Tracks'
    BY <1>2, <1>3, <1>5, <1>12, <1>14, HeldNext
  <1>16. Shape'
    <2>1. Tables' = Tables /\ Lives' = Lives
      BY <1>2 DEF Tables, Rows, Histories, Lives, Drawings, PlacesOfTick
    <2>2. table' \in Tables
      BY <1>5, <1>12 DEF Held
    <2> QED BY <1>2, <1>3, <1>14, <2>1, <2>2 DEF Shape
  <1>17. KnownGoes'
    BY <1>2, <1>3 DEF KnownGoes, The
  <1>18. Drawn' /\ Filmed'
    BY <1>2 DEF Drawn, Filmed, OnFrames
  <1>19. CASE The.at = <<>>
    <2>1. f = <<>> /\ ~The.known
      BY <1>3, <1>10, <1>19 DEF KnownGoes
    <2>2. OwnMotion'
      BY <1>13, <2>1 DEF OwnMotion
    <2>3. SteadyMotion'
      BY <1>13, <2>1 DEF SteadyMotion
    <2> QED BY <1>15, <1>16, <1>17, <1>18, <2>2, <2>3 DEF PoseHolds, PoseInv
  <1>20. CASE The.at # <<>>
    <2>1. PICK p \in Int : p = The.at[1]
      BY <1>3, <1>20, ThingPlace
    <2>2. \/ \E i \in Rows : tb[i].key = 1 /\ R = Placed(tb[i], alpha)
          \/ R = 2 * The.at[1] /\ \A j \in Rows : tb[j].key # 1
          \/ keeper # "enemy"
      <3>1. CASE keeper # "enemy"
        BY <3>1
      <3>2. CASE keeper = "enemy"
        <4>1. /\ OwnSlot(tb, 1) \in Rows \cup {0}
              /\ (\E j \in Rows : tb[j].key = 1) =>
                    OwnSlot(tb, 1) # 0 /\ tb[OwnSlot(tb, 1)].key = 1
          BY <1>5, <1>6, OwnSlotIs DEF Held
        <4>2. CASE \E j \in Rows : tb[j].key = 1
          <5>1. OwnSlot(tb, 1) \in Rows /\ R = Placed(tb[OwnSlot(tb, 1)], alpha)
                  /\ tb[OwnSlot(tb, 1)].key = 1
            BY <1>9, <4>1, <4>2
          <5> QED BY <5>1
        <4>3. CASE \A j \in Rows : tb[j].key # 1
          <5>1. R = 2 * The.at[1]
            BY <1>9, <4>1, <4>3
          <5> QED BY <4>3, <5>1
        <4> QED BY <4>2, <4>3
      <3> QED BY <3>1, <3>2
    <2>3. ASSUME NEW i \in Rows, tb[i].key = 1
          PROVE  /\ OnPath(Placed(tb[i], alpha), 1, alpha, ahead) /\ Placed(tb[i], alpha) \in Int
                 /\ The.known /\ Near(The.was[1], The.at[1]) =>
                       Placed(tb[i], alpha) = Between(The.was[1], The.at[1], alpha, ahead)
      <3>1. tb[i] \in Histories /\ Settled(tb[i])
        BY <1>5, <2>3 DEF Held, Tables
      <3>2. The.known => tb[i].prev = The.was[1]
        BY <1>5, <2>3 DEF Held
      <3>3. /\ OnPath(Placed(tb[i], alpha), 1, alpha, ahead)
            /\ Placed(tb[i], alpha) \in Int
            /\ The.known /\ tb[i].prev = The.was[1] /\ Near(The.was[1], The.at[1]) =>
                 Placed(tb[i], alpha) = Between(The.was[1], The.at[1], alpha, ahead)
        BY <1>3, <1>6, <1>8, <1>20, <3>1, PlacedIsOnPath
      <3> QED BY <3>2, <3>3
    <2>4. CASE keeper = "enemy"
      <3>1. R \in Int /\ OnPath(R, 1, alpha, ahead)
            /\ (The.known /\ Near(The.was[1], The.at[1]) => R = Between(The.was[1], The.at[1], alpha, ahead))
        <4>1. CASE \E i \in Rows : tb[i].key = 1 /\ R = Placed(tb[i], alpha)
          BY <2>3, <4>1
        <4>2. CASE R = 2 * The.at[1] /\ \A j \in Rows : tb[j].key # 1
          <5>1. ~The.known
            BY <1>5, <4>2 DEF Held
          <5> QED BY <2>1, <4>2, <5>1 DEF OnPath
        <4> QED BY <2>2, <2>4, <4>1, <4>2
      <3>2. f = Around(R, absolute) /\ absolute \in BOOLEAN
        BY <1>10, <1>20, <2>4 DEF Absolutes
      <3>3. R \in Path(1)'
        BY <1>2, <1>13, <3>1 DEF OnPath, Path, The
      <3>4. OwnMotion'
        <4>1. keeper' = "enemy"
          BY <1>2, <2>4
        <4>2. Around(R, absolute)' = Around(R, absolute)
          BY DEF Around, AtPoint, AtOffsets, Share
        <4>3. \A k \in DOMAIN <<>> : <<>>[k] \in {<<1, 0>>, <<Old, Old>>}
          OBVIOUS
        <4> QED BY <1>13, <3>2, <3>3, <4>1, <4>2, <4>3 DEF OwnMotion
      <3>5. f[1] = R
        <4>1. AtPoint(R)[1] = R
          BY DEF AtPoint, Offsets
        <4>2. Share(1) = 0
          BY DEF Share, Parents
        <4>3. AtOffsets(R)[1] = R
          BY <3>1, <4>2 DEF AtOffsets, Offsets
        <4> QED BY <3>2, <4>1, <4>3 DEF Around
      <3>6. SteadyMotion'
        BY <1>2, <1>13, <3>1, <3>5 DEF SteadyMotion, The
      <3> QED BY <1>15, <1>16, <1>17, <1>18, <3>4, <3>6 DEF PoseHolds, PoseInv
    <2>5. CASE keeper = "option"
      <3>1. 1 \in Rows /\ tb[1].key = 1
        BY <1>5, <1>20, <2>5, RowsAre DEF Held
      <3>2. PICK q : q = Placed(tb[1], alpha)
        OBVIOUS
      <3>3. /\ OnPath(q, 1, alpha, ahead)
            /\ The.known /\ Near(The.was[1], The.at[1]) => q = Between(The.was[1], The.at[1], alpha, ahead)
        BY <2>3, <3>1, <3>2
      <3>4. f = <<q>>
        BY <1>10, <1>20, <2>5, <3>2
      <3>5. q \in Path(1)'
        BY <1>2, <1>13, <3>3 DEF OnPath, Path, The
      <3>6. OwnMotion'
        <4>1. keeper' # "enemy" /\ keeper' # "camera"
          BY <1>2, <2>5
        <4>2. \A k \in DOMAIN <<>> : <<>>[k] \in {<<1, 0>>, <<Old, Old>>}
          OBVIOUS
        <4>3. \A k \in DOMAIN f : k = 1 /\ f[k] = q
          BY <3>4
        <4> QED BY <1>13, <3>5, <4>1, <4>2, <4>3 DEF OwnMotion
      <3>7. f[1] = q
        BY <3>4
      <3>8. SteadyMotion'
        BY <1>2, <1>13, <3>3, <3>7 DEF SteadyMotion, The
      <3> QED BY <1>15, <1>16, <1>17, <1>18, <3>6, <3>8 DEF PoseHolds, PoseInv
    <2> QED BY <2>4, <2>5 DEF OnFrames
  <1> QED BY <1>19, <1>20

\* A presentation of the background camera.
LEMMA CameraShown ==
    ASSUME Unforced, PoseInv, keeper = "camera", Present
    PROVE  PoseHolds'
  <1>1. PICK s \in SwitchesNow, alpha \in Alphas, absolute \in Absolutes :
          LET drawn == Shown(s, alpha, absolute)
          IN  /\ table' = drawn.table
              /\ glance' = [shown |-> drawn.shown, turns |-> drawn.turns,
                            alpha |-> AlphaOf(s, alpha), ahead |-> Ahead(s),
                            lead |-> IF LeadOn(s) THEN s.velocity ELSE 0]
    BY DEF Present
  <1>2. world' = world /\ keeper' = keeper /\ kind' = kind /\ glance # Moving
    BY DEF Present
  <1>3. Shape /\ KnownGoes /\ 1 \in Things
    BY PoseConstants DEF PoseInv, Things
  <1>4. PICK z \in Int : z = AlphaOf(s, alpha) /\ z >= 0
    BY PoseConstants DEF AlphaOf
  <1>5. PICK ahead : ahead = Ahead(s)
    OBVIOUS
  <1>6. PICK lead : lead = IF LeadOn(s) THEN s.velocity ELSE 0
    OBVIOUS
  <1>7. PICK h : h = table[1]
    OBVIOUS
  <1>8. PICK q : q = CameraAt(h, The.at[Len(The.at)], z, ahead)
    OBVIOUS
  <1>9. PICK f : f = IF The.at = <<>> THEN <<>> ELSE <<q>>
    OBVIOUS
  <1>10. Captured(table, FALSE) = table
    BY DEF Captured
  <1>11. Shown(s, alpha, absolute) = [table |-> table, shown |-> f, turns |-> <<>>]
    <2>1. CASE The.at = <<>>
      BY <1>9, <1>10, <2>1 DEF Shown, The
    <2>2. CASE The.at # <<>>
      BY <1>4, <1>5, <1>7, <1>8, <1>9, <1>10, <2>2 DEF Shown, The
    <2> QED BY <2>1, <2>2
  <1>12. /\ table' = table
         /\ glance' = [shown |-> f, turns |-> <<>>, alpha |-> z, ahead |-> ahead, lead |-> lead]
    BY <1>1, <1>4, <1>5, <1>6, <1>11
  <1>13. /\ glance'.shown = f /\ glance'.turns = <<>> /\ glance'.alpha = z
         /\ glance'.ahead = ahead
    BY <1>12
  <1>14. glance' # Moving
    BY <1>4, <1>13 DEF Moving, Unseen
  <1>15. Shape' /\ KnownGoes' /\ Alone' /\ Tracks' /\ Drawn'
    <2>1. Tables' = Tables /\ Lives' = Lives /\ Rows' = Rows
      BY <1>2 DEF Tables, Rows, Histories, Lives, Drawings, PlacesOfTick
    <2>2. Shape'
      BY <1>2, <1>3, <1>12, <1>14, <2>1 DEF Shape
    <2>3. KnownGoes' /\ Alone'
      BY <1>2, <1>3, <1>12, <2>1 DEF KnownGoes, Alone, PoseInv, The
    <2> QED BY <1>2, <2>2, <2>3 DEF Tracks, Drawn
  <1>16. Filmed'
    <2>1. OnItsWay(table[1])' <=> OnItsWay(table[1])
      BY <1>2, <1>12 DEF OnItsWay, The
    <2> QED BY <1>2, <1>12, <1>14, <2>1 DEF Filmed, PoseInv, The
  <1>17. The.at # <<>> =>
            /\ h.key = 1 /\ h.lag = 0 /\ h.cur = The.at[1] /\ (h.valid => OnItsWay(h))
            /\ The.known /\ Near(The.was[1], The.at[1]) => h.valid
    BY <1>2, <1>7 DEF PoseInv, Filmed
  <1>18. \A k \in DOMAIN <<>> : <<>>[k] \in {<<1, 0>>, <<Old, Old>>}
    OBVIOUS
  <1>19. CASE The.at = <<>>
    <2>1. f = <<>> /\ ~The.known
      BY <1>3, <1>9, <1>19 DEF KnownGoes
    <2>2. OwnMotion' /\ SteadyMotion'
      BY <1>13, <2>1 DEF OwnMotion, SteadyMotion
    <2> QED BY <1>15, <1>16, <2>2 DEF PoseHolds, PoseInv
  <1>20. CASE The.at # <<>>
    <2>1. IsDrawing(The.at)
      BY <1>3, DrawingsAre DEF Shape, Lives, The
    <2>2. f = <<q>>
      BY <1>9, <1>20
    <2>3. CASE Len(The.at) = 1
      <3>1. q = IF h.valid THEN Between(h.prev, h.cur, z, ahead) ELSE 2 * The.at[1]
        BY <1>8, <1>17, <1>20, <2>3 DEF CameraAt
      <3>2. h.valid => h.prev = The.was[1] /\ The.was # <<>> /\ Near(The.was[1], The.at[1])
        BY <1>17, <1>20 DEF OnItsWay
      <3>3. OnPath(q, 1, z, ahead)
        <4>1. CASE h.valid
          <5>1. Goal(h)
            BY <1>17, <1>20, <3>2, <4>1 DEF Goal
          <5> QED BY <1>3, <3>1, <4>1, <5>1, GoalIsOnPath
        <4>2. CASE ~h.valid
          BY <3>1, <4>2 DEF OnPath
        <4> QED BY <4>1, <4>2
      <3>4. q \in Path(Len(The.at))'
        BY <1>2, <1>13, <2>3, <3>3 DEF OnPath, Path, The
      <3>5. OwnMotion'
        <4>1. f[1] = q /\ f # <<>>
          BY <2>2
        <4>2. keeper' = "camera" /\ The' = The
          BY <1>2 DEF The
        <4> QED BY <1>13, <1>18, <3>4, <4>1, <4>2 DEF OwnMotion, The
      <3>6. The.known /\ Near(The.was[1], The.at[1]) => q = Between(The.was[1], The.at[1], z, ahead)
        BY <1>17, <1>20, <3>1, <3>2
      <3>7. SteadyMotion'
        BY <1>2, <1>13, <2>2, <3>6 DEF SteadyMotion, The
      <3> QED BY <1>15, <1>16, <3>5, <3>7 DEF PoseHolds, PoseInv
    <2>4. CASE Len(The.at) = 2
      <3>1. q = 2 * The.at[2]
        <4>1. The.at[1] \in Int /\ The.at[2] # The.at[1]
          BY <1>20, <2>1, <2>4, PoseConstants DEF IsDrawing, Places
        <4> QED BY <1>8, <1>17, <1>20, <2>4, <4>1 DEF CameraAt
      <3>2. q \in Path(Len(The.at))'
        BY <1>2, <2>4, <3>1 DEF Path, The
      <3>3. OwnMotion'
        <4>1. f[1] = q /\ f # <<>>
          BY <2>2
        <4>2. keeper' = "camera" /\ The' = The
          BY <1>2 DEF The
        <4> QED BY <1>13, <1>18, <3>2, <4>1, <4>2 DEF OwnMotion, The
      <3>4. SteadyMotion'
        <4>1. Len(world'[1].at) # 1
          BY <1>2, <2>4 DEF The
        <4> QED BY <4>1 DEF SteadyMotion
      <3> QED BY <1>15, <1>16, <3>3, <3>4 DEF PoseHolds, PoseInv
    <2> QED BY <1>20, <2>1, <2>3, <2>4 DEF IsDrawing
  <1> QED BY <1>19, <1>20

\* The keeper's own part of a frame tick.
LEMMA RecordedIs ==
    ASSUME Unforced, PoseInv, FrameRecorded
    PROVE  PoseHolds'
  <1>1. /\ glance = Moving /\ glance' = Unseen
        /\ world' = world /\ keeper' = keeper /\ kind' = kind
        /\ table' = Captured(TickLater(Counts), TRUE)
    BY DEF FrameRecorded, Unforced
  <1>2. Shape /\ KnownGoes /\ Alone /\ Tracks /\ Filmed
    BY DEF PoseInv
  <1>3. keeper \notin {"pose", "quad"} /\ kind = "field" /\ glance' # Moving
    BY <1>1, <1>2 DEF Shape, Moving, Unseen
  <1>4. DOMAIN table = Rows /\ \A i \in Rows : table[i] \in Histories
    BY <1>2 DEF Shape, Tables
  <1>5. KnownGoes' /\ Drawn'
    BY <1>1, <1>2, <1>3 DEF KnownGoes, Drawn, The
  <1>6. ASSUME table' \in Tables PROVE Shape'
    <2>1. Tables' = Tables /\ Lives' = Lives
      BY <1>1 DEF Tables, Rows, Histories, Lives, Drawings, PlacesOfTick
    <2> QED BY <1>1, <1>2, <1>3, <1>6, <2>1 DEF Shape
  <1>7. OwnMotion' /\ SteadyMotion'
    BY <1>1, NothingShown
  <1>8. CASE OnFrames
    <2>1. Counts = TRUE
      BY <1>8 DEF Counts, OnFrames
    <2>2. PICK tb : tb = TickLater(Counts)
      OBVIOUS
    <2>3. tb = [i \in Rows |-> Aged(table[i])]
      BY <1>4, <2>1, <2>2 DEF TickLater
    <2>4. \A i \in Rows : tb[i] \in Histories /\ tb[i].key = table[i].key
                          /\ (table[i].lag < 2 => tb[i].lag = table[i].lag + 1 /\ tb[i].cur = table[i].cur)
                          /\ (table[i].lag >= 2 => tb[i].lag = 3)
      BY <1>4, <2>3, AgedIs DEF Old
    <2>5. \A i \in Rows : table[i].lag \in 0..3
      BY <1>4 DEF Histories, Old
    <2>6. Awaited(tb)
      <3>1. tb \in Tables
        BY <2>3, <2>4 DEF Tables
      <3>2. \A i, j \in Rows : tb[i].key = 1 /\ tb[j].key = 1 => i = j
        BY <1>2, <1>8, <2>4 DEF Alone, OnFrames
      <3>3. ASSUME NEW i \in Rows, tb[i].key = 1
            PROVE  IF The.was # <<>> THEN tb[i].lag = 1 /\ tb[i].cur = The.was[1]
                   ELSE tb[i].lag > 0 /\ (The.at # <<>> => tb[i].lag > 1)
        <4>1. LeftBehind(table[i])
          BY <1>1, <1>2, <1>8, <2>4, <3>3 DEF Tracks, OnFrames
        <4> QED BY <2>4, <2>5, <4>1 DEF LeftBehind
      <3>4. The.known => \E i \in Rows : tb[i].key = 1
        BY <1>1, <1>2, <1>8, <2>4 DEF Tracks, OnFrames
      <3> QED BY <3>1, <3>2, <3>3, <3>4 DEF Awaited
    <2>7. Held(table')
      <3>1. PICK b \in BOOLEAN : b = TRUE
        OBVIOUS
      <3>2. Held(Captured(tb, b))
        BY <1>2, <1>8, <2>6, <3>1, CapturedHeld
      <3> QED BY <1>1, <2>2, <3>1, <3>2
    <2>8. The.was # <<>> => The.at # <<>>
      BY <1>2, <1>8 DEF Tracks, OnFrames
    <2>9. Alone' /\ Tracks'
      BY <1>1, <1>3, <1>8, <2>7, <2>8, HeldNext
    <2>10. Filmed'
      BY <1>1, <1>8 DEF Filmed, OnFrames
    <2> QED BY <1>5, <1>6, <1>7, <2>7, <2>9, <2>10 DEF PoseHolds, PoseInv, Held
  <1>9. CASE keeper = "camera"
    <2>1. Counts = FALSE /\ Rows = {1} /\ Rows' = {1} /\ 1 \in 0..Count /\ 0 \in 0..Old
      BY <1>1, <1>9, PoseConstants DEF Counts, Rows, Old
    <2>2. TickLater(Counts) = table
      <3>1. table = [i \in DOMAIN table |-> table[i]]
        BY <1>2 DEF Shape, Tables
      <3>2. TickLater(Counts) = [i \in DOMAIN table |-> table[i]]
        BY <2>1 DEF TickLater
      <3> QED BY <3>1, <3>2
    <2>3. PICK h \in Histories : h = table[1]
      BY <1>4, <2>1
    <2>4. PICK x : x = CameraKept(h)
      OBVIOUS
    <2>5. table' = <<x>>
      BY <1>1, <1>9, <2>2, <2>3, <2>4 DEF Captured
    <2>6. table'[1] = x
      BY <2>5
    <2>7. /\ h.key = 1 => h.lag > 0 /\ (The.at # <<>> /\ h.lag = 1 => The.was # <<>> /\ h.cur = The.was[1])
          /\ The.known => h.key = 1 /\ h.lag = 1
      BY <1>1, <1>2, <1>9, <2>3 DEF Filmed
    <2>8. OnItsWay(table[1])' <=> The.was # <<>> /\ x.prev = The.was[1] /\ Near(x.prev, x.cur)
      BY <1>1, <1>9, <2>6 DEF OnItsWay, The
    <2>9. The' = The
      BY <1>1 DEF The
    <2>10. ASSUME x \in Histories
           PROVE  Shape' /\ Alone' /\ Tracks'
      <3>1. table' \in Tables
        BY <2>1, <2>5, <2>10 DEF Tables
      <3>2. Alone'
        BY <2>1 DEF Alone
      <3>3. Tracks'
        BY <1>1, <1>9 DEF Tracks
      <3> QED BY <1>6, <3>1, <3>2, <3>3
    <2>11. CASE The.at = <<>>
      <3>1. x = h
        BY <2>4, <2>11 DEF CameraKept, The
      <3>2. Filmed'
        BY <1>3, <2>6, <2>7, <2>9, <2>11, <3>1 DEF Filmed
      <3> QED BY <1>5, <1>7, <2>3, <2>10, <3>1, <3>2 DEF PoseHolds, PoseInv
    <2>12. CASE The.at # <<>>
      <3>1. IsDrawing(The.at)
        <4>1. 1 \in Things
          BY PoseConstants DEF Things
        <4> QED BY <1>2, <4>1, DrawingsAre DEF Shape, Lives, The
      <3>2. PICK p \in Int : p = The.at[1]
        BY <2>12, <3>1, PoseConstants DEF IsDrawing, Places, Nowhere
      <3>3. PICK v \in BOOLEAN : v = (h.key = 1 /\ h.lag = 1 /\ Near(h.cur, p))
        BY DEF Near
      <3>4. x = [h EXCEPT !.key = 1, !.prev = h.cur, !.cur = p, !.lag = 0, !.valid = v]
        BY <2>4, <2>12, <3>2, <3>3 DEF CameraKept, The
      <3>5. x \in Histories /\ x.key = 1 /\ x.lag = 0 /\ x.cur = p /\ x.prev = h.cur /\ x.valid = v
        BY <2>1, <3>4 DEF Histories
      <3>6. v => The.was # <<>> /\ h.cur = The.was[1] /\ Near(h.cur, p)
        BY <2>7, <2>12, <3>3
      <3>7. The.known /\ Near(The.was[1], p) => v
        <4> SUFFICES ASSUME The.known, Near(The.was[1], p) PROVE v
          OBVIOUS
        <4>1. h.key = 1 /\ h.lag = 1 /\ h.cur = The.was[1]
          BY <2>7, <2>12
        <4> QED BY <3>3, <4>1
      <3>8. Filmed'
        BY <1>3, <2>6, <2>8, <2>9, <2>12, <3>2, <3>5, <3>6, <3>7 DEF Filmed
      <3> QED BY <1>5, <1>7, <2>10, <3>5, <3>8 DEF PoseHolds, PoseInv
    <2> QED BY <2>11, <2>12
  <1> QED BY <1>2, <1>3, <1>8, <1>9 DEF Shape, Keepers, OnFrames

\* Others that leave take nothing with them.
LEMMA LeftIs ==
    ASSUME Unforced, PoseInv, OthersLeave
    PROVE  PoseHolds'
  <1>1. PICK gone \in SUBSET (Things \ {1}) :
           world' = [a \in Things |-> IF a \in gone THEN Absent ELSE world[a]]
    BY DEF OthersLeave
  <1>2. keeper' = keeper /\ kind' = kind /\ table' = table /\ glance' = glance
        /\ glance \in {Moving, Unseen}
    BY DEF OthersLeave
  <1>3. 1 \in Things
    BY PoseConstants DEF Things
  <1>4. world'[1] = world[1] /\ The' = The
    BY <1>1, <1>3 DEF The
  <1>5. Rows' = Rows /\ Tables' = Tables /\ Lives' = Lives
    BY <1>2 DEF Tables, Rows, Histories, Lives, Drawings, PlacesOfTick
  <1>6. Absent \in Lives
    BY DEF Absent, Life, Lives, Drawings
  <1>7. Shape'
    <2>1. world' \in [Things -> Lives]
      BY <1>1, <1>6 DEF PoseInv, Shape
    <2> QED BY <1>2, <1>5, <2>1 DEF PoseInv, Shape
  <1>8. Alone' /\ KnownGoes'
    BY <1>2, <1>4, <1>5 DEF PoseInv, Alone, KnownGoes
  <1>9. Drawn'
    <2>1. \A h : (Keeps(h)' <=> Keeps(h)) /\ (Followed(h)' <=> Followed(h))
      <3>1. ASSUME NEW h PROVE Keeps(h)' <=> Keeps(h)
        BY <1>2, <1>4 DEF Keeps, DrawnNow, DrawnLast, OnItsWay, Begins, Trusted, The
      <3> QED BY <1>2, <1>4, <3>1, SoundStays
    <2> QED BY <1>2, <1>4, <1>5, <2>1 DEF PoseInv, Drawn, Mine
  <1>10. Tracks'
    <2>1. \A h : (LeftBehind(h)' <=> LeftBehind(h)) /\ (Settled(h)' <=> Settled(h))
      BY <1>4 DEF LeftBehind, Settled
    <2> QED BY <1>2, <1>4, <1>5, <2>1 DEF PoseInv, Tracks
  <1>11. Filmed'
    <2>1. \A h : OnItsWay(h)' <=> OnItsWay(h)
      BY <1>2, <1>4 DEF OnItsWay
    <2> QED BY <1>2, <1>4, <2>1 DEF PoseInv, Filmed
  <1>12. OwnMotion' /\ SteadyMotion'
    BY <1>2, NothingShown
  <1> QED BY <1>7, <1>8, <1>9, <1>10, <1>11, <1>12 DEF PoseHolds, PoseInv

\* A frame of the game: thing 1 goes on, is another, or is not there any more.
Went(at) ==
    /\ The.at # <<>> /\ at \in PlacesOfTick
    /\ The' = Life(The.script, FALSE, at, The.at, Remembered)
Turnover(script, new, at) ==
    /\ at \in PlacesOfTick /\ script \in {1, 2} /\ new \in BOOLEAN
    /\ The' = Life(script, new, at, <<>>, FALSE)
    /\ The.at # <<>> =>
        /\ new /\ keeper \in {"pose", "quad"}
        /\ script = The.script => keeper = "pose" \/ ~The.new
Fades == The' = Absent

\* What becomes of the table: it gets older, and a VM that is started loses its own.
Older(i) ==
    \/ table'[i] = IF Counts THEN table[i] ELSE Aged(table[i])
    \/ keeper = "pose" /\ table'[i] = Blank

LEMMA MovesAre ==
    ASSUME Unforced, Shape, GameFrame
    PROVE  /\ keeper' = keeper /\ kind' = kind /\ world' \in [Things -> Lives]
           /\ glance # Moving /\ glance' = IF keeper \in {"pose", "quad"} THEN Unseen ELSE Moving
           /\ table' \in Tables
           /\ \/ Fades /\ \A i \in Rows : table'[i] = IF Counts THEN table[i] ELSE Aged(table[i])
              \/ \E at \in PlacesOfTick :
                   Went(at) /\ \A i \in Rows : table'[i] = IF Counts THEN table[i] ELSE Aged(table[i])
              \/ \E at \in PlacesOfTick, script \in {1, 2}, new \in BOOLEAN :
                   /\ Turnover(script, new, at)
                   /\ \A i \in Rows : Older(i) /\ (keeper = "pose" /\ new /\ table[i].key = 1 =>
                                                     table'[i] = Blank)
  <1>1. keeper' = keeper /\ kind' = kind /\ Moves
        /\ glance # Moving /\ glance' = IF keeper \in {"pose", "quad"} THEN Unseen ELSE Moving
    BY DEF GameFrame
  <1>2. 1 \in Things /\ world \in [Things -> Lives] /\ DOMAIN table = Rows
    BY PoseConstants DEF Things, Shape, Tables
  <1>3. Blank \in Histories /\ \A h \in Histories : Aged(h) \in Histories
    BY AgedIs, BlankIs
  <1>4. /\ TickLater(~Counts) \in Tables
        /\ \A i \in Rows : TickLater(~Counts)[i] = IF Counts THEN table[i] ELSE Aged(table[i])
    <2>1. \A i \in Rows : (IF Counts THEN table[i] ELSE Aged(table[i])) \in Histories
      BY <1>3 DEF Shape, Tables
    <2>2. TickLater(~Counts) = [i \in Rows |-> IF Counts THEN table[i] ELSE Aged(table[i])]
      BY <1>2 DEF TickLater
    <2> QED BY <2>1, <2>2 DEF Tables
  <1>5. PlacesOfTick \subseteq Drawings /\ The.at \in Drawings /\ The.script \in {1, 2}
        /\ <<>> \in Drawings
    BY <1>2 DEF Drawings, The, Lives
  <1>6. CASE world' = [world EXCEPT ![1] = Absent] /\ table' = TickLater(~Counts)
    <2>1. Absent \in Lives
      BY DEF Absent, Life, Lives, Drawings
    <2>2. world' \in [Things -> Lives] /\ Fades
      BY <1>2, <1>6, <2>1 DEF Fades, The
    <2> QED BY <1>1, <1>4, <1>6, <2>2
  <1>7. CASE \E at \in PlacesOfTick : GoesOn(at) /\ table' = TickLater(~Counts)
    <2>1. PICK at \in PlacesOfTick : GoesOn(at) /\ table' = TickLater(~Counts)
      BY <1>7
    <2>2. PICK known \in BOOLEAN : known = Remembered
      BY DEF Remembered
    <2>3. PICK life : life = Life(The.script, FALSE, at, The.at, known)
      OBVIOUS
    <2>4. world' = [world EXCEPT ![1] = life] /\ The.at # <<>>
      BY <1>2, <2>1, <2>2, <2>3 DEF GoesOn, The
    <2>5. life \in Lives
      BY <1>5, <2>3 DEF Life, Lives
    <2>6. world' \in [Things -> Lives] /\ The' = life
      BY <1>2, <2>4, <2>5 DEF The
    <2>7. Went(at)
      BY <2>2, <2>3, <2>4, <2>6 DEF Went
    <2> QED BY <1>1, <1>4, <2>1, <2>6, <2>7
  <1>8. CASE \E at \in PlacesOfTick, script \in {1, 2}, new \in BOOLEAN :
               /\ TakesOver(script, new, at)
               /\ table' = [i \in DOMAIN table |->
                     IF keeper = "pose" /\ new /\ table[i].key = 1 THEN Blank
                     ELSE TickLater(~Counts)[i]]
    <2>1. PICK at \in PlacesOfTick, script \in {1, 2}, new \in BOOLEAN :
               /\ TakesOver(script, new, at)
               /\ table' = [i \in DOMAIN table |->
                     IF keeper = "pose" /\ new /\ table[i].key = 1 THEN Blank
                     ELSE TickLater(~Counts)[i]]
      BY <1>8
    <2>2. PICK life : life = Life(script, new, at, <<>>, FALSE)
      OBVIOUS
    <2>3. world' = [world EXCEPT ![1] = life]
      BY <2>1, <2>2 DEF TakesOver
    <2>4. life \in Lives
      BY <1>5, <2>2 DEF Life, Lives
    <2>5. world' \in [Things -> Lives] /\ The' = life
      BY <1>2, <2>3, <2>4 DEF The
    <2>6. The.at # <<>> =>
            /\ new /\ keeper \in {"pose", "quad"}
            /\ script = The.script => keeper = "pose" \/ ~The.new
      <3> SUFFICES ASSUME The.at # <<>>
                   PROVE  /\ new /\ keeper \in {"pose", "quad"}
                          /\ script = The.script => keeper = "pose" \/ ~The.new
        OBVIOUS
      <3>1. /\ new /\ ~(script = The.script /\ Unnoticed)
            /\ script # The.script => keeper \in {"pose", "quad"}
        BY <2>1 DEF TakesOver, The, Unforced
      <3> QED BY <3>1 DEF Unnoticed, The, Shape, Keepers
    <2>7. Turnover(script, new, at)
      BY <2>2, <2>5, <2>6 DEF Turnover
    <2>8. \A i \in Rows :
             table'[i] = IF keeper = "pose" /\ new /\ table[i].key = 1 THEN Blank
                         ELSE IF Counts THEN table[i] ELSE Aged(table[i])
      BY <1>2, <1>4, <2>1
    <2>9. table' \in Tables
      <3>1. \A i \in Rows : TickLater(~Counts)[i] \in Histories
        BY <1>4 DEF Tables
      <3>2. table' = [i \in Rows |-> IF keeper = "pose" /\ new /\ table[i].key = 1 THEN Blank
                                     ELSE TickLater(~Counts)[i]]
        BY <1>2, <2>1
      <3>3. \A i \in Rows : (IF keeper = "pose" /\ new /\ table[i].key = 1 THEN Blank
                              ELSE TickLater(~Counts)[i]) \in Histories
        BY <1>3, <3>1
      <3> QED BY <3>2, <3>3 DEF Tables
    <2> QED BY <1>1, <2>5, <2>7, <2>8, <2>9 DEF Older
  <1> QED BY <1>1, <1>6, <1>7, <1>8 DEF Moves

\* What was drawn in this tick was drawn in the last one a tick later.
LEMMA SoundAged ==
    ASSUME Unforced, Shape, Sprites, NEW h \in Histories, Sound(h), keeper' = keeper,
           NEW at \in PlacesOfTick, NEW script \in {1, 2}, NEW new \in BOOLEAN,
           Fades \/ Went(at)
             \/ (Turnover(script, new, at) /\ ~(keeper = "pose" /\ new /\ h.key = 1)),
           NEW x, x = Aged(h)
    PROVE  Sound(x)'
  <1>2. /\ x \in Histories /\ x.key = h.key
        /\ h.lag < 2 => /\ x.lag = h.lag + 1 /\ x.cur = h.cur
                        /\ x.script = h.script /\ x.new = h.new
                        /\ x.shared = Capped(h.shared, SharedFor)
                        /\ x.turn[2] = Capped(h.turn[2], Old)
        /\ h.lag >= 2 => x.lag = 3
    BY AgedIs DEF Old
  <1>3. h.lag \in 0..3
    BY DEF Histories, Old
  <1>5. SUFFICES ASSUME x.key = 1, x.lag # 3
                 PROVE  (x.lag = 0 => DrawnNow(x)') /\ (x.lag = 1 => DrawnLast(x)')
    BY DEF Sound, Mine, Keeps, Old
  <1>6. x.lag # 0
    BY <1>2, <1>3
  <1>7. SUFFICES ASSUME x.lag = 1 PROVE DrawnLast(x)'
    BY <1>6
  <1>8. h.key = 1 /\ h.lag = 0
    BY <1>2, <1>3, <1>5, <1>7
  <1>9. DrawnNow(h)
    BY <1>8 DEF Sound, Mine, Keeps, Old
  <1>10. CASE Fades
    <2>1. The'.at = <<>>
      BY <1>10 DEF Fades, Absent, Life
    <2> QED BY <2>1 DEF DrawnLast
  <1>11. CASE Went(at)
    <2>1. The'.at = at /\ The'.was = The.at /\ The.at # <<>>
      BY <1>11 DEF Went, Life
    <2>2. IsDrawing(The.at)
      <3>1. 1 \in Things
        BY PoseConstants DEF Things
      <3> QED BY <3>1, DrawingsAre DEF Shape, Lives, The
    <2>3. keeper = "pose" => x.turn[2] = 1
      <3> SUFFICES ASSUME keeper = "pose" PROVE x.turn[2] = 1
        OBVIOUS
      <3>1. h.turn[2] = 0
        BY <1>9 DEF DrawnNow
      <3> QED BY <1>2, <1>8, <3>1 DEF Capped, Old
    <2>4. CASE Len(The.at) = 1
      <3>1. x.cur = The.at[1]
        BY <1>2, <1>8, <1>9, <2>4 DEF DrawnNow
      <3> QED BY <2>1, <2>3, <3>1 DEF DrawnLast
    <2>5. CASE Len(The.at) = 2
      <3>1. keeper = "quad"
        BY <2>1, <2>2, <2>5 DEF IsDrawing, Sprites
      <3>2. h.shared = 0
        BY <1>9, <2>5 DEF DrawnNow
      <3>3. x.shared # SharedFor
        BY <1>2, <1>8, <3>2, PoseConstants DEF Capped, Unforced
      <3>4. ~Trusted(x)'
        BY <3>1, <3>3 DEF Trusted
      <3> QED BY <3>4 DEF DrawnLast
    <2> QED BY <2>1, <2>2, <2>4, <2>5 DEF IsDrawing
  <1>12. CASE Turnover(script, new, at) /\ ~(keeper = "pose" /\ new /\ h.key = 1)
    <2>1. The.at # <<>> /\ h.script = The.script /\ h.new = The.new
      BY <1>9 DEF DrawnNow
    <2>2. new /\ (script = The.script => ~The.new)
      BY <1>8, <1>12, <2>1 DEF Turnover
    <2>3. The'.script = script /\ The'.new = new
      BY <1>12 DEF Turnover, Life
    <2>4. x.script = The.script /\ x.new = The.new
      BY <1>2, <1>8, <2>1
    <2>5. Begins(x, 1)'
      BY <2>2, <2>3, <2>4 DEF Begins, The
    <2> QED BY <2>5 DEF DrawnLast
  <1> QED BY <1>10, <1>11, <1>12

LEMMA SpritesMove ==
    ASSUME Unforced, PoseInv, Sprites, GameFrame
    PROVE  PoseHolds'
  <1>1. Shape /\ KnownGoes /\ Alone /\ (\A i \in Rows : Sound(table[i]))
        /\ (keeper = "pose" /\ The.known => \E i \in Rows : Followed(table[i]))
    BY DEF PoseInv, Drawn, Sprites, Sound
  <1>2. Counts = FALSE
    BY DEF Counts, Sprites
  <1>3. /\ keeper' = keeper /\ kind' = kind /\ world' \in [Things -> Lives]
        /\ glance # Moving /\ glance' = Unseen
        /\ table' \in Tables
        /\ \/ Fades /\ \A i \in Rows : table'[i] = Aged(table[i])
           \/ \E at \in PlacesOfTick :
                Went(at) /\ \A i \in Rows : table'[i] = Aged(table[i])
           \/ \E at \in PlacesOfTick, script \in {1, 2}, new \in BOOLEAN :
                /\ Turnover(script, new, at)
                /\ \A i \in Rows : Older(i) /\ (keeper = "pose" /\ new /\ table[i].key = 1 =>
                                                  table'[i] = Blank)
    BY <1>1, <1>2, MovesAre DEF Sprites
  <1>4. Rows' = Rows /\ Tables' = Tables /\ Lives' = Lives /\ Sprites' /\ glance' # Moving
    BY <1>3 DEF Tables, Rows, Histories, Lives, Drawings, PlacesOfTick, Sprites, Unseen, Moving
  <1>5. Shape'
    BY <1>1, <1>3, <1>4 DEF Shape
  <1>6. \A i \in Rows : table[i] \in Histories
    BY <1>1 DEF Shape, Tables
  <1>7. \A i \in Rows : table'[i] = Aged(table[i]) \/ (keeper = "pose" /\ table'[i] = Blank)
    BY <1>2, <1>3 DEF Older
  <1>8. \A i \in Rows : table'[i].key = 1 => table[i].key = 1 /\ table'[i] = Aged(table[i])
    BY <1>6, <1>7, AgedIs DEF Blank
  <1>9. Alone'
    BY <1>1, <1>3, <1>4, <1>8 DEF Alone
  <1>10. PICK at0 \in PlacesOfTick : TRUE
    <2>1. <<0>> \in PlacesOfTick
      BY PoseConstants DEF PlacesOfTick, Places
    <2> QED BY <2>1
  <1>11. ASSUME NEW i \in Rows, table'[i] = Aged(table[i])
         PROVE  \E at \in PlacesOfTick, script \in {1, 2}, new \in BOOLEAN :
                   Fades \/ Went(at)
                     \/ (Turnover(script, new, at) /\ ~(keeper = "pose" /\ new /\ table[i].key = 1))
    <2>1. keeper = "pose" /\ table[i].key = 1 => table'[i] # Blank
      <3>1. Aged(table[i]).key = table[i].key
        BY <1>6, AgedIs
      <3> QED BY <1>11, <3>1 DEF Blank
    <2> QED BY <1>3, <1>10, <2>1
  <1>12. ASSUME NEW i \in Rows
         PROVE  Sound(table[i])'
    <2>1. CASE table'[i] = Aged(table[i])
      <3>1. PICK h \in Histories : h = table[i]
        BY <1>6
      <3>2. PICK x : x = table'[i]
        OBVIOUS
      <3>3. Sound(h) /\ x = Aged(h)
        BY <1>1, <2>1, <3>1, <3>2
      <3>4. PICK at \in PlacesOfTick, script \in {1, 2}, new \in BOOLEAN :
                   Fades \/ Went(at)
                     \/ (Turnover(script, new, at) /\ ~(keeper = "pose" /\ new /\ h.key = 1))
        BY <1>11, <2>1, <3>1
      <3>5. Sound(x)'
        BY <1>1, <1>3, <3>3, <3>4, SoundAged
      <3> QED BY <3>2, <3>5 DEF Sound, Mine, Keeps
    <2>2. CASE table'[i] = Blank
      BY <2>2 DEF Sound, Mine, Blank
    <2> QED BY <1>7, <2>1, <2>2
  <1>13. ASSUME keeper' = "pose", The'.known
         PROVE  \E i \in Rows : Followed(table[i])'
    <2>1. \E at \in PlacesOfTick : Went(at) /\ \A i \in Rows : table'[i] = Aged(table[i])
      BY <1>3, <1>13 DEF Fades, Turnover, Absent, Life
    <2>2. PICK at \in PlacesOfTick : Went(at)
      BY <2>1
    <2>3. The'.script = The.script /\ The'.was = The.at /\ Remembered /\ The.at # <<>>
      BY <1>13, <2>2 DEF Went, Life
    <2>4. PICK i \in Rows : table[i].key = 1 /\ table[i].lag = 0
      BY <1>1, <2>3 DEF Remembered, Shape, Tables
    <2>5. DrawnNow(table[i])
      BY <1>1, <2>4 DEF Sound, Mine, Keeps, Old
    <2>6. Len(The.at) = 1
      <3>1. 1 \in Things
        BY PoseConstants DEF Things
      <3>2. IsDrawing(The.at)
        BY <1>1, <3>1, DrawingsAre DEF Shape, Lives, The
      <3> QED BY <1>3, <1>13, <2>3, <3>2 DEF IsDrawing
    <2>7. table[i].script = The.script /\ table[i].cur = The.at[1]
      BY <2>5, <2>6 DEF DrawnNow
    <2>8. /\ Aged(table[i]).key = 1 /\ Aged(table[i]).lag = 1
          /\ Aged(table[i]).cur = The.at[1] /\ Aged(table[i]).script = The.script
      BY <1>6, <2>4, <2>7, AgedIs
    <2>9. /\ table'[i].key = 1 /\ table'[i].lag = 1
          /\ table'[i].cur = The.at[1] /\ table'[i].script = The.script
      BY <2>1, <2>8
    <2> QED BY <2>3, <2>9 DEF Followed
  <1>14. Drawn'
    BY <1>4, <1>12, <1>13 DEF Drawn, Sound
  <1>15. KnownGoes'
    <2> SUFFICES ASSUME The'.known PROVE The'.at # <<>> /\ The'.was # <<>> /\ ~The'.new
      BY DEF KnownGoes
    <2>1. PICK at \in PlacesOfTick : Went(at)
      BY <1>3 DEF Fades, Turnover, Absent, Life
    <2>2. at # <<>>
      BY DEF PlacesOfTick
    <2> QED BY <2>1, <2>2 DEF Went, Life
  <1>16. Tracks' /\ Filmed'
    BY <1>3 DEF Tracks, Filmed, Sprites
  <1>17. OwnMotion' /\ SteadyMotion'
    BY <1>3, NothingShown
  <1> QED BY <1>5, <1>9, <1>14, <1>15, <1>16, <1>17 DEF PoseHolds, PoseInv

LEMMA FramesMove ==
    ASSUME Unforced, PoseInv, OnFrames, GameFrame
    PROVE  PoseHolds'
  <1>1. Shape /\ KnownGoes /\ Alone /\ Tracks /\ keeper # "pose" /\ keeper # "quad"
    BY DEF PoseInv, OnFrames
  <1>2. Counts = TRUE
    BY DEF Counts, OnFrames
  <1>3. /\ keeper' = keeper /\ kind' = kind /\ world' \in [Things -> Lives]
        /\ glance # Moving /\ glance' = Moving
        /\ table' \in Tables
        /\ \A i \in Rows : table'[i] = table[i]
        /\ \/ Fades
           \/ \E at \in PlacesOfTick : Went(at)
           \/ \E at \in PlacesOfTick, script \in {1, 2}, new \in BOOLEAN : Turnover(script, new, at)
    BY <1>1, <1>2, MovesAre DEF Older
  <1>4. Rows' = Rows /\ Tables' = Tables /\ Lives' = Lives
    BY <1>3 DEF Tables, Rows, Histories, Lives, Drawings, PlacesOfTick
  <1>5. Shape'
    BY <1>1, <1>3, <1>4 DEF Shape
  <1>6. Alone'
    BY <1>1, <1>3, <1>4 DEF Alone
  <1>7. Drawn' /\ Filmed'
    BY <1>3 DEF Drawn, Filmed, OnFrames
  <1>8. OwnMotion' /\ SteadyMotion'
    BY <1>3, NothingShown
  <1>9. /\ \A i \in Rows : table[i].key = 1 => Settled(table[i])
        /\ DOMAIN table = Rows /\ <<>> \notin PlacesOfTick
    BY <1>1, <1>3 DEF Tracks, OnFrames, Shape, Tables, PlacesOfTick
  <1>10. KnownGoes' /\ (The'.was # <<>> => The'.at # <<>>)
         /\ (\A i \in Rows : table'[i].key = 1 => LeftBehind(table[i])')
         /\ (The'.known => \E i \in Rows : table'[i].key = 1)
    <2>1. CASE Fades
      <3>1. The'.at = <<>> /\ The'.was = <<>> /\ ~The'.known
        BY <2>1 DEF Fades, Absent, Life
      <3> QED BY <3>1 DEF KnownGoes, LeftBehind
    <2>2. CASE \E at \in PlacesOfTick : Went(at)
      <3>1. PICK at \in PlacesOfTick : Went(at)
        BY <2>2
      <3>2. /\ The'.at = at /\ The'.was = The.at /\ The.at # <<>> /\ ~The'.new
            /\ (The'.known => Remembered)
        BY <3>1 DEF Went, Life
      <3>3. \A i \in Rows : table'[i].key = 1 => table'[i].lag = 0 /\ table'[i].cur = The.at[1]
        BY <1>3, <1>9, <3>2 DEF Settled
      <3>4. The'.known => \E i \in Rows : table'[i].key = 1
        BY <1>3, <1>9, <3>2 DEF Remembered
      <3> QED BY <1>9, <3>2, <3>3, <3>4 DEF KnownGoes, LeftBehind
    <2>3. CASE \E at \in PlacesOfTick, script \in {1, 2}, new \in BOOLEAN : Turnover(script, new, at)
      <3>1. PICK at \in PlacesOfTick, script \in {1, 2}, new \in BOOLEAN : Turnover(script, new, at)
        BY <2>3
      <3>2. The'.at = at /\ The'.was = <<>> /\ ~The'.known
        BY <3>1 DEF Turnover, Life
      <3>3. The.at = <<>>
        BY <1>1, <3>1 DEF Turnover
      <3>4. \A i \in Rows : table'[i].key = 1 => table'[i].lag > 0
        BY <1>3, <1>9, <3>3 DEF Settled
      <3> QED BY <3>2, <3>4 DEF KnownGoes, LeftBehind
    <2> QED BY <1>3, <2>1, <2>2, <2>3
  <1>11. Tracks'
    BY <1>3, <1>4, <1>10 DEF Tracks
  <1> QED BY <1>5, <1>6, <1>7, <1>8, <1>10, <1>11 DEF PoseHolds, PoseInv

LEMMA CameraMoves ==
    ASSUME Unforced, PoseInv, keeper = "camera", GameFrame
    PROVE  PoseHolds'
  <1>1. Shape /\ KnownGoes /\ Filmed /\ Rows = {1}
    BY DEF PoseInv, Rows
  <1>2. Counts = FALSE
    BY DEF Counts
  <1>3. /\ keeper' = keeper /\ kind' = kind /\ world' \in [Things -> Lives]
        /\ glance # Moving /\ glance' = Moving
        /\ table' \in Tables
        /\ \A i \in Rows : table'[i] = Aged(table[i])
        /\ \/ Fades
           \/ \E at \in PlacesOfTick : Went(at)
           \/ \E at \in PlacesOfTick, script \in {1, 2}, new \in BOOLEAN : Turnover(script, new, at)
    BY <1>1, <1>2, MovesAre DEF Older
  <1>4. Rows' = Rows /\ Tables' = Tables /\ Lives' = Lives
    BY <1>3 DEF Tables, Rows, Histories, Lives, Drawings, PlacesOfTick
  <1>5. Shape'
    BY <1>1, <1>3, <1>4 DEF Shape
  <1>6. Alone'
    BY <1>1, <1>4 DEF Alone
  <1>7. Drawn' /\ Tracks'
    BY <1>3 DEF Drawn, Tracks
  <1>8. OwnMotion' /\ SteadyMotion'
    BY <1>3, NothingShown
  <1>9. PICK h \in Histories : h = table[1]
    BY <1>1 DEF Shape, Tables
  <1>10. PICK x : x = Aged(h)
    OBVIOUS
  <1>11. /\ x.key = h.key
         /\ h.lag < 2 => x.lag = h.lag + 1 /\ x.cur = h.cur
         /\ h.lag >= 2 => x.lag = 3
         /\ h.lag \in 0..3
         /\ table'[1] = x
    BY <1>1, <1>3, <1>9, <1>10, AgedIs DEF Old, Histories
  <1>12. /\ The.at = <<>> => (h.key = 1 => h.lag > 0)
         /\ The.at # <<>> => h.key = 1 /\ h.lag = 0 /\ h.cur = The.at[1]
    BY <1>1, <1>3, <1>9 DEF Filmed
  <1>13. /\ x.key = 1 => x.lag > 0
         /\ The.at = <<>> => (x.key = 1 => x.lag > 1)
         /\ The.at # <<>> => x.key = 1 /\ x.lag = 1 /\ x.cur = The.at[1]
    BY <1>11, <1>12
  <1>14. KnownGoes' /\ (The'.known => The.at # <<>>)
         /\ (The'.at # <<>> /\ The.at # <<>> => The'.was = The.at)
    <2>1. CASE Fades
      <3>1. The'.at = <<>> /\ ~The'.known
        BY <2>1 DEF Fades, Absent, Life
      <3> QED BY <3>1 DEF KnownGoes
    <2>2. CASE \E at \in PlacesOfTick : Went(at)
      <3>1. PICK at \in PlacesOfTick : Went(at)
        BY <2>2
      <3>2. The'.at = at /\ The'.was = The.at /\ The.at # <<>> /\ ~The'.new /\ at # <<>>
        BY <3>1 DEF Went, Life, PlacesOfTick
      <3> QED BY <3>2 DEF KnownGoes
    <2>3. CASE \E at \in PlacesOfTick, script \in {1, 2}, new \in BOOLEAN : Turnover(script, new, at)
      <3>1. PICK at \in PlacesOfTick, script \in {1, 2}, new \in BOOLEAN : Turnover(script, new, at)
        BY <2>3
      <3>2. ~The'.known
        BY <3>1 DEF Turnover, Life
      <3>3. The.at = <<>>
        BY <3>1 DEF Turnover
      <3> QED BY <3>2, <3>3 DEF KnownGoes
    <2> QED BY <1>3, <2>1, <2>2, <2>3
  <1>15. Filmed'
    BY <1>3, <1>11, <1>13, <1>14 DEF Filmed
  <1> QED BY <1>5, <1>6, <1>7, <1>8, <1>14, <1>15 DEF PoseHolds, PoseInv

LEMMA PoseStarts ==
    ASSUME PoseInit, Unforced
    PROVE  PoseHolds
  <1>1. 1 \in Things /\ DOMAIN table = Rows /\ glance = Unseen /\ keeper \in Keepers /\ kind \in Kinds
    BY PoseConstants DEF PoseInit, Rows, Things, Kinds
  <1>2. table \in Tables /\ \A i \in Rows : table[i] = Blank
    BY BlankIs DEF PoseInit, Tables, Rows
  <1>3. world \in [Things -> Lives] /\ The = Absent
    <2>1. Absent \in Lives
      BY DEF Absent, Life, Lives, Drawings
    <2>2. Life(1, FALSE, <<0>>, <<>>, FALSE) \in Lives
      <3>1. <<0>> \in Drawings
        BY PoseConstants DEF Drawings, PlacesOfTick, Places
      <3> QED BY <3>1 DEF Life, Lives, Drawings
    <2> QED BY <1>1, <2>1, <2>2 DEF PoseInit, The
  <1>4. keeper # "quad" => kind = "field"
    BY DEF PoseInit
  <1>5. glance # Moving /\ glance.shown = <<>> /\ glance.turns = <<>>
    BY <1>1 DEF Unseen, Moving
  <1>6. The.at = <<>> /\ The.was = <<>> /\ ~The.known
    BY <1>3 DEF Absent, Life
  <1>7. \A i \in Rows : table[i].key = 0
    BY <1>2 DEF Blank
  <1>8. Shape /\ Alone /\ KnownGoes
    BY <1>1, <1>2, <1>3, <1>4, <1>5, <1>6, <1>7 DEF Shape, Alone, KnownGoes
  <1>9. Drawn /\ Tracks
    BY <1>5, <1>6, <1>7 DEF Drawn, Mine, Tracks
  <1>10. Filmed
    BY <1>5, <1>6, <1>7, RowsAre DEF Filmed
  <1>11. OwnMotion /\ SteadyMotion
    BY <1>5 DEF OwnMotion, SteadyMotion
  <1> QED BY <1>8, <1>9, <1>10, <1>11 DEF PoseHolds, PoseInv

LEMMA PoseHoldsStill ==
    ASSUME PoseHolds, UNCHANGED poseVars
    PROVE  PoseHolds'
  <1>1. world' = world /\ keeper' = keeper /\ kind' = kind /\ table' = table /\ glance' = glance
    BY DEF poseVars
  <1>2. Rows' = Rows /\ Tables' = Tables /\ Lives' = Lives /\ The' = The
    BY <1>1 DEF Tables, Rows, Histories, Lives, Drawings, PlacesOfTick, The
  <1>3. \A h : /\ Keeps(h)' <=> Keeps(h)
               /\ Followed(h)' <=> Followed(h)
               /\ OnItsWay(h)' <=> OnItsWay(h)
    <2>1. ASSUME NEW h PROVE Keeps(h)' <=> Keeps(h)
      BY <1>1 DEF Keeps, DrawnNow, DrawnLast, OnItsWay, Begins, Trusted, The
    <2>2. ASSUME NEW h PROVE OnItsWay(h)' <=> OnItsWay(h)
      BY <1>1 DEF OnItsWay, The
    <2> QED BY <1>1, <2>1, <2>2, SoundStays
  <1>4. \A h : (LeftBehind(h)' <=> LeftBehind(h)) /\ (Settled(h)' <=> Settled(h))
    BY <1>2 DEF LeftBehind, Settled
  <1>5. Shape' /\ Alone' /\ KnownGoes'
    BY <1>1, <1>2 DEF PoseHolds, PoseInv, Shape, Alone, KnownGoes
  <1>6. Drawn'
    BY <1>1, <1>2, <1>3 DEF PoseHolds, PoseInv, Drawn, Mine
  <1>7. Tracks' /\ Filmed'
    BY <1>1, <1>2, <1>3, <1>4 DEF PoseHolds, PoseInv, Tracks, Filmed
  <1>8. OwnMotion'
    <2>1. \A k : Path(k)' = Path(k)
      BY <1>1 DEF Path
    <2>2. \A R, b : Around(R, b)' = Around(R, b)
      BY DEF Around, AtPoint, AtOffsets, Share
    <2> QED BY <1>1, <2>1, <2>2 DEF PoseHolds, OwnMotion
  <1>9. SteadyMotion'
    BY <1>1 DEF PoseHolds, SteadyMotion
  <1> QED BY <1>5, <1>6, <1>7, <1>8, <1>9 DEF PoseHolds, PoseInv

LEMMA PoseHoldsAlways == Unforced => (PoseSpec => []PoseHolds)
  <1> SUFFICES ASSUME Unforced PROVE PoseSpec => []PoseHolds
    OBVIOUS
  <1>1. PoseInit => PoseHolds
    BY PoseStarts
  <1>2. ASSUME PoseHolds, [PoseNext]_poseVars
        PROVE  PoseHolds'
    <2>1. PoseInv
      BY <1>2 DEF PoseHolds
    <2>2. Sprites \/ OnFrames \/ keeper = "camera"
      BY <2>1 DEF PoseInv, Shape, Keepers, Sprites, OnFrames
    <2>3. CASE GameFrame
      BY <1>2, <2>1, <2>2, <2>3, SpritesMove, FramesMove, CameraMoves
    <2>4. CASE OthersLeave
      BY <1>2, <2>1, <2>4, LeftIs
    <2>5. CASE FrameRecorded
      BY <1>2, <2>1, <2>5, RecordedIs
    <2>6. CASE Present
      BY <1>2, <2>1, <2>2, <2>6, SpritesShown, FramesShown, CameraShown
    <2>7. CASE UNCHANGED poseVars
      BY <1>2, <2>7, PoseHoldsStill
    <2> QED BY <1>2, <2>3, <2>4, <2>5, <2>6, <2>7 DEF PoseNext
  <1> QED BY <1>1, <1>2, PTL DEF PoseSpec

\* No thing is drawn on a motion that is not its own, however many things share a
\* table of whatever size, as long as the game gives the signs that the keepers
\* read (fixed_pose, fixed_quad_pose, enemy_interp, th08_camera_tick).
THEOREM OwnWay == Unforced => (PoseSpec => []OwnMotion)
  <1>1. PoseHolds => OwnMotion
    BY DEF PoseHolds
  <1> QED BY <1>1, PoseHoldsAlways, PTL

\* A thing that was remembered and makes an ordinary step is drawn on its way,
\* whatever the others do to the table (track_find, history_slot).
THEOREM SteadyWay == Unforced => (PoseSpec => []SteadyMotion)
  <1>1. PoseHolds => SteadyMotion
    BY DEF PoseHolds
  <1> QED BY <1>1, PoseHoldsAlways, PTL
===============================================================================
