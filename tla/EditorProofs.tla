------------------------------ MODULE EditorProofs -----------------------------
(***************************************************************************)
(* Theorems about what the owner of a shop edits and what its customers    *)
(* are shown of it, as MCOwner composes it: the showcase of recent prints, *)
(* the custom colours, the own materials, the material helper, the form of *)
(* the rates, and the viewer of photos.                                    *)
(***************************************************************************)
EXTENDS MCOwner, Integers, Functions, FiniteSetTheorems, SequenceTheorems,
        WellFoundedInduction, TLAPS

-----------------------------------------------------------------------------
(* Sums: SumFunction by its definition, for what the models add up.        *)

Some(s) == CHOOSE x \in s : TRUE
Less(s) == s \ {Some(s)}

\* The partial sums over the subsets of S, each with one element taken away.
IsSum(g, f, S) == g = [s \in SUBSET S |-> IF s = {} THEN 0 ELSE f[Some(s)] + g[Less(s)]]

Partial(f, S) == CHOOSE g : IsSum(g, f, S)

LEMMA SumOfIs == \A f : SumFunction(f) = Partial(f, DOMAIN f)[DOMAIN f]
  BY DEF SumFunction, SumFunctionOnSet, FoldFunctionOnSet, MapThenFoldSet, Partial, IsSum, Some, Less

LEMMA LessIsLess == \A s : s # {} => Some(s) \in s /\ Less(s) \subseteq s /\ Less(s) # s
  BY DEF Some, Less

\* What adds up over a set adds up over its subsets.
LEMMA SumRestricts ==
  ASSUME NEW f, NEW S, NEW V \in SUBSET S, NEW g, IsSum(g, f, S)
  PROVE  IsSum([s \in SUBSET V |-> g[s]], f, V)
<1> DEFINE h == [s \in SUBSET V |-> g[s]]
<1>1. ASSUME NEW s \in SUBSET V PROVE h[s] = IF s = {} THEN 0 ELSE f[Some(s)] + h[Less(s)]
  <2>1. s # {} => Less(s) \in SUBSET V
    BY LessIsLess
  <2>2. g[s] = IF s = {} THEN 0 ELSE f[Some(s)] + g[Less(s)]
    BY DEF IsSum
  <2>. QED BY <2>1, <2>2
<1>2. h = [s \in SUBSET V |-> IF s = {} THEN 0 ELSE f[Some(s)] + h[Less(s)]]
  BY <1>1
<1>. QED BY <1>2 DEF IsSum

Unique(f, T) == \E g : IsSum(g, f, T) /\ \A h : IsSum(h, f, T) => h = g

LEMMA SumStep ==
  ASSUME NEW f, NEW T, \A U \in SUBSET T : U # T => Unique(f, U)
  PROVE  Unique(f, T)
<1> DEFINE G(U) == Partial(f, U)
           h == [s \in SUBSET T |-> IF s = {} THEN 0 ELSE f[Some(s)] + G(Less(s))[Less(s)]]
<1>1. ASSUME NEW U \in SUBSET T, U # T PROVE IsSum(G(U), f, U) /\ \A k : IsSum(k, f, U) => k = G(U)
  <2>1. Unique(f, U)
    BY <1>1
  <2>. QED BY <2>1 DEF Unique, Partial
<1>2. ASSUME NEW k, NEW W \in SUBSET T, IsSum(k, f, W), NEW U \in SUBSET W, U # T
      PROVE  k[U] = G(U)[U]
  <2>1. IsSum([s \in SUBSET U |-> k[s]], f, U)
    BY <1>2, SumRestricts
  <2>2. [s \in SUBSET U |-> k[s]] = G(U)
    BY <2>1, <1>1, <1>2, U \in SUBSET T
  <2>. QED BY <2>2
<1>3. ASSUME NEW s \in SUBSET T, s # T PROVE h[s] = G(s)[s]
  <2>1. IsSum(G(s), f, s)
    BY <1>1, <1>3
  <2>2. G(s)[s] = IF s = {} THEN 0 ELSE f[Some(s)] + G(s)[Less(s)]
    BY <2>1 DEF IsSum
  <2>3. s # {} => G(s)[Less(s)] = G(Less(s))[Less(s)]
    BY <2>1, <1>2, <1>3, LessIsLess
  <2>. QED BY <2>2, <2>3
<1>4. IsSum(h, f, T)
  <2>1. ASSUME NEW s \in SUBSET T PROVE h[s] = IF s = {} THEN 0 ELSE f[Some(s)] + h[Less(s)]
    <3>1. CASE s = {}
      BY <3>1
    <3>2. CASE s # {}
      <4>1. Less(s) \in SUBSET T /\ Less(s) # T
        BY <3>2, LessIsLess
      <4>2. h[Less(s)] = G(Less(s))[Less(s)]
        BY <4>1, <1>3
      <4>. QED BY <3>2, <4>2
    <3>. QED BY <3>1, <3>2
  <2>2. h = [s \in SUBSET T |-> IF s = {} THEN 0 ELSE f[Some(s)] + h[Less(s)]]
    BY <2>1
  <2>. QED BY <2>2 DEF IsSum
<1>5. ASSUME NEW k, IsSum(k, f, T) PROVE k = h
  <2>1. ASSUME NEW s \in SUBSET T, s # T PROVE k[s] = h[s]
    BY <2>1, <1>2, <1>3, <1>5
  <2>2. T # {} => k[T] = f[Some(T)] + k[Less(T)]
    BY <1>5 DEF IsSum
  <2>3. T # {} => h[T] = f[Some(T)] + h[Less(T)]
    BY <1>4 DEF IsSum
  <2>4. T = {} => k[T] = 0 /\ h[T] = 0
    BY <1>5 DEF IsSum
  <2>5. T # {} => k[Less(T)] = h[Less(T)]
    BY <2>1, LessIsLess
  <2>6. k[T] = h[T]
    BY <2>2, <2>3, <2>4, <2>5
  <2>7. k = [s \in SUBSET T |-> k[s]] /\ h = [s \in SUBSET T |-> h[s]]
    BY <1>5, <1>4 DEF IsSum
  <2>. QED BY <2>1, <2>6, <2>7
<1>. QED BY <1>4, <1>5 DEF Unique

LEMMA PartialIs ==
  ASSUME NEW f, NEW S, IsFiniteSet(S)
  PROVE  IsSum(Partial(f, S), f, S)
<1> DEFINE Bad == {T \in FiniteSubsetsOf(S) : ~Unique(f, T)}
<1>1. FiniteSubsetsOf(S) = SUBSET S
  BY FS_FiniteSubsetsOfFinite
<1>2. Bad = {}
  <2>. SUFFICES ASSUME Bad # {} PROVE FALSE
    OBVIOUS
  <2>1. PICK T \in Bad : \A U \in Bad : ~(<<U, T>> \in StrictSubsetOrdering(S))
    BY FS_StrictSubsetOrderingWellFounded, WFMin
  <2>2. \A U \in SUBSET T : U # T => Unique(f, U)
    BY <2>1, <1>1 DEF StrictSubsetOrdering
  <2>. QED BY <2>1, <2>2, SumStep
<1>3. Unique(f, S)
  BY <1>1, <1>2
<1>. QED BY <1>3 DEF Unique, Partial

\* A sum of members of a set that is closed under addition is one of them.
LEMMA SumIsIn ==
  ASSUME NEW S, IsFiniteSet(S), NEW C, 0 \in C, \A a, b \in C : a + b \in C, NEW f \in [S -> C]
  PROVE  SumFunction(f) \in C
<1> DEFINE g == Partial(f, S)
           Bad == {T \in FiniteSubsetsOf(S) : g[T] \notin C}
<1>1. FiniteSubsetsOf(S) = SUBSET S
  BY FS_FiniteSubsetsOfFinite
<1>2. \A s \in SUBSET S : g[s] = IF s = {} THEN 0 ELSE f[Some(s)] + g[Less(s)]
  <2>1. IsSum(g, f, S)
    BY PartialIs
  <2>. QED BY <2>1 DEF IsSum
<1>3. Bad = {}
  <2>. SUFFICES ASSUME Bad # {} PROVE FALSE
    OBVIOUS
  <2>1. PICK T \in Bad : \A U \in Bad : ~(<<U, T>> \in StrictSubsetOrdering(S))
    BY FS_StrictSubsetOrderingWellFounded, WFMin
  <2>2. \A U \in SUBSET T : U # T => g[U] \in C
    BY <2>1, <1>1 DEF StrictSubsetOrdering
  <2>3. T # {} => f[Some(T)] \in C /\ g[Less(T)] \in C
    BY <2>1, <2>2, <1>1, LessIsLess
  <2>. QED BY <2>1, <2>3, <1>2, <1>1
<1>4. SumFunction(f) = g[S]
  BY SumOfIs
<1>. QED BY <1>1, <1>3, <1>4

LEMMA SumIsNat == ASSUME NEW S, IsFiniteSet(S), NEW f \in [S -> Nat] PROVE SumFunction(f) \in Nat
<1>1. \A a, b \in Nat : a + b \in Nat
  OBVIOUS
<1>2. 0 \in Nat
  OBVIOUS
<1>. QED BY <1>1, <1>2, SumIsIn

LEMMA SumIsZero == ASSUME NEW S, IsFiniteSet(S), NEW f \in [S -> {0}] PROVE SumFunction(f) = 0
<1>1. 0 \in {0} /\ \A a, b \in {0} : a + b \in {0}
  OBVIOUS
<1>2. SumFunction(f) \in {0}
  BY <1>1, SumIsIn
<1>. QED BY <1>2

\* A sum after a change at one place.
LEMMA SumChanges ==
  ASSUME NEW S, IsFiniteSet(S), NEW f \in [S -> Int], NEW r \in S, NEW v \in Int
  PROVE  SumFunction([f EXCEPT ![r] = v]) = SumFunction(f) + v - f[r] /\ SumFunction(f) \in Int
<1> DEFINE e == [f EXCEPT ![r] = v]
           g == Partial(f, S)
           h == Partial(e, S)
           Holds(T) == g[T] \in Int /\ h[T] = g[T] + (IF r \in T THEN v - f[r] ELSE 0)
           Bad == {T \in FiniteSubsetsOf(S) : ~Holds(T)}
<1>1. FiniteSubsetsOf(S) = SUBSET S
  BY FS_FiniteSubsetsOfFinite
<1>2. \A s \in SUBSET S : /\ g[s] = IF s = {} THEN 0 ELSE f[Some(s)] + g[Less(s)]
                          /\ h[s] = IF s = {} THEN 0 ELSE e[Some(s)] + h[Less(s)]
  <2>1. IsSum(g, f, S) /\ IsSum(h, e, S)
    BY PartialIs
  <2>2. \A s \in SUBSET S : g[s] = IF s = {} THEN 0 ELSE f[Some(s)] + g[Less(s)]
    BY <2>1 DEF IsSum
  <2>3. \A s \in SUBSET S : h[s] = IF s = {} THEN 0 ELSE e[Some(s)] + h[Less(s)]
    BY <2>1 DEF IsSum
  <2>. QED BY <2>2, <2>3
<1>3. Bad = {}
  <2>. SUFFICES ASSUME Bad # {} PROVE FALSE
    OBVIOUS
  <2>1. PICK T \in Bad : \A U \in Bad : ~(<<U, T>> \in StrictSubsetOrdering(S))
    BY FS_StrictSubsetOrderingWellFounded, WFMin
  <2>2. \A U \in SUBSET T : U # T => Holds(U)
    BY <2>1, <1>1 DEF StrictSubsetOrdering
  <2>3. CASE T = {}
    <3>1. g[T] = 0 /\ h[T] = 0 /\ r \notin T
      BY <2>1, <2>3, <1>2, <1>1
    <3>2. Holds(T)
      BY <3>1
    <3>. QED BY <3>2, <2>1
  <2>4. CASE T # {}
    <3>1. Some(T) \in S /\ Some(T) \in T /\ Holds(Less(T))
      BY <2>1, <2>2, <2>4, <1>1, LessIsLess
    <3>2. r \in Less(T) <=> r \in T /\ r # Some(T)
      BY DEF Less
    <3>3. e[Some(T)] = IF Some(T) = r THEN v ELSE f[Some(T)]
      BY <3>1
    <3>4. f[Some(T)] \in Int /\ f[r] \in Int
      BY <3>1
    <3>5. g[T] = f[Some(T)] + g[Less(T)] /\ h[T] = e[Some(T)] + h[Less(T)]
      BY <2>1, <2>4, <1>2, <1>1
    <3>6. Holds(T)
      BY <3>1, <3>2, <3>3, <3>4, <3>5
    <3>. QED BY <3>6, <2>1
  <2>. QED BY <2>3, <2>4
<1>4. SumFunction(f) = g[S] /\ SumFunction(e) = h[S]
  BY SumOfIs
<1>. QED BY <1>1, <1>3, <1>4

LEMMA SumOfFour ==
  ASSUME NEW a \in Int, NEW b \in Int, NEW c \in Int, NEW d \in Int
  PROVE  SumFunction(<<a, b, c, d>>) = a + b + c + d
<1>1. IsFiniteSet(1..4)
  BY 1 \in Int, 4 \in Int, FS_Interval
<1>2. SumFunction(<<0, 0, 0, 0>>) = 0
  BY <1>1, SumIsZero, <<0, 0, 0, 0>> \in [1..4 -> {0}]
<1>3. SumFunction(<<a, 0, 0, 0>>) = a
  <2>1. <<0, 0, 0, 0>> \in [1..4 -> Int] /\ <<a, 0, 0, 0>> = [<<0, 0, 0, 0>> EXCEPT ![1] = a]
    OBVIOUS
  <2>. QED BY <1>1, <1>2, <2>1, SumChanges
<1>4. SumFunction(<<a, b, 0, 0>>) = a + b
  <2>1. <<a, 0, 0, 0>> \in [1..4 -> Int] /\ <<a, b, 0, 0>> = [<<a, 0, 0, 0>> EXCEPT ![2] = b]
    OBVIOUS
  <2>2. 2 \in 1..4 /\ <<a, 0, 0, 0>>[2] = 0 /\ b \in Int
    OBVIOUS
  <2>3. SumFunction([<<a, 0, 0, 0>> EXCEPT ![2] = b]) = a + b - <<a, 0, 0, 0>>[2]
    BY <1>1, <1>3, <2>1, <2>2, SumChanges
  <2>. QED BY <2>1, <2>2, <2>3
<1>5. SumFunction(<<a, b, c, 0>>) = a + b + c
  <2>1. <<a, b, 0, 0>> \in [1..4 -> Int] /\ <<a, b, c, 0>> = [<<a, b, 0, 0>> EXCEPT ![3] = c]
    OBVIOUS
  <2>2. 3 \in 1..4 /\ <<a, b, 0, 0>>[3] = 0 /\ c \in Int
    OBVIOUS
  <2>3. SumFunction([<<a, b, 0, 0>> EXCEPT ![3] = c]) = a + b + c - <<a, b, 0, 0>>[3]
    BY <1>1, <1>4, <2>1, <2>2, SumChanges
  <2>. QED BY <2>1, <2>2, <2>3
<1>6. <<a, b, c, 0>> \in [1..4 -> Int] /\ <<a, b, c, d>> = [<<a, b, c, 0>> EXCEPT ![4] = d]
  OBVIOUS
<1>7. 4 \in 1..4 /\ <<a, b, c, 0>>[4] = 0 /\ d \in Int
  OBVIOUS
<1>8. SumFunction([<<a, b, c, 0>> EXCEPT ![4] = d]) = a + b + c + d - <<a, b, c, 0>>[4]
  BY <1>1, <1>5, <1>6, <1>7, SumChanges, SMTT(30)
<1>. QED BY <1>6, <1>7, <1>8

LEMMA Division ==
  ASSUME NEW a \in Int, NEW b \in Nat \ {0}
  PROVE  a \div b \in Int /\ b * (a \div b) <= a /\ a < b * (a \div b) + b
  OBVIOUS

\* A set of numbers has a smallest.
LEMMA Smallest == ASSUME NEW B \in SUBSET Nat, B # {} PROVE \E n \in B : \A m \in 0..(n - 1) : m \notin B
<1>1. PICK n \in B : \A m \in B : ~(<<m, n>> \in OpToRel(<, Nat))
  BY NatLessThanWellFounded, WFMin
<1>2. \A m \in Nat : m < n => <<m, n>> \in OpToRel(<, Nat)
  BY DEF OpToRel
<1>3. ASSUME NEW m \in 0..(n - 1) PROVE m \notin B
  <2>1. m \in Nat /\ m < n
    BY n \in Nat
  <2>. QED BY <1>1, <1>2, <2>1
<1>. QED BY <1>1, <1>3

-----------------------------------------------------------------------------
(* The photo viewer of the showcase.                                       *)

Seen(v) ==
  /\ v \in [zoom : 1..MaxZoom, off : BOOLEAN, late : BOOLEAN]
  /\ v.zoom = 1 /\ v.late = FALSE => v.off = FALSE

\* A frame is due for a photo that is open, a timer for one that was, and a pointer that
\* has panned fast has left its mark.
ViewerInv ==
  /\ openAt \in 0..Pictures - 1 \cup {Null}
  /\ Seen(view)
  /\ panned # Null => dragged
  /\ due = "timer" => openAt = Null
  /\ due = "frame" => openAt # Null
  /\ Viewer!NeverStuck /\ Viewer!NeverBlank /\ Viewer!PanKeepsOpen

LEMMA SeenFirst == Seen(Viewer!RESET)
  BY EditorsAssumption DEF Seen, Viewer!RESET

LEMMA ViewerInit == Viewer!Init => ViewerInv
  BY SeenFirst DEF Viewer!Init, ViewerInv, Viewer!NeverStuck, Viewer!NeverBlank, Viewer!PanKeepsOpen

LEMMA ZoomKeeps == ASSUME Seen(view), NEW zoom \in 1..MaxZoom, Viewer!zoomBy(zoom) PROVE Seen(view')
<1>1. CASE zoom = view.zoom
  BY <1>1 DEF Viewer!zoomBy
<1>2. CASE zoom # view.zoom /\ zoom = 1
  BY <1>2, SeenFirst DEF Viewer!zoomBy
<1>3. CASE zoom # view.zoom /\ zoom # 1
  <2>1. PICK off \in BOOLEAN : view' = [zoom |-> zoom, off |-> off, late |-> FALSE]
    BY <1>3 DEF Viewer!zoomBy
  <2>2. view' \in [zoom : 1..MaxZoom, off : BOOLEAN, late : BOOLEAN] /\ view'.zoom # 1
    BY <1>3, <2>1
  <2>. QED BY <2>2 DEF Seen
<1>. QED BY <1>1, <1>2, <1>3

LEMMA ViewerStep == ViewerInv /\ [Viewer!Next]_viewerVars => ViewerInv'
<1>. SUFFICES ASSUME ViewerInv, [Viewer!Next]_viewerVars PROVE ViewerInv'
  OBVIOUS
<1>. USE DEF ViewerInv, Viewer!NeverStuck, Viewer!NeverBlank, Viewer!PanKeepsOpen
<1>0. Null \notin 0..Pictures - 1
  BY AlertsAssumption
<1>1. ASSUME NEW i \in 0..Pictures - 1, Viewer!View(i) PROVE ViewerInv'
  <2>1. /\ ~dialog /\ Viewer!Set(i) /\ i # Null /\ outcome' = "none" /\ UNCHANGED <<closing, dragged, panned>>
    BY <1>0, <1>1 DEF Viewer!View, Viewer!Hand
  <2>2. CASE i = openAt
    BY <2>1, <2>2 DEF Viewer!Set
  <2>3. CASE i # openAt /\ openAt = Null
    <3>1. /\ openAt' = i /\ dialog' = TRUE /\ due' = "frame" /\ Seen(view')
          /\ outcome' = "none" /\ UNCHANGED <<closing, dragged, panned, faded>>
      BY <2>1, <2>3, SeenFirst DEF Viewer!Set, Viewer!Entered
    <3>. QED BY <1>0, <3>1
  <2>4. CASE i # openAt /\ openAt # Null
    BY <2>1, <2>4, SeenFirst DEF Viewer!Set
  <2>. QED BY <2>2, <2>3, <2>4
<1>2. ASSUME NEW d \in {-1, 1}, Viewer!step(d) PROVE ViewerInv'
  <2>1. (openAt + d + Pictures) % Pictures \in 0..Pictures - 1
    BY <1>0, <1>2, EditorsAssumption DEF Viewer!step
  <2>. QED BY <1>0, <1>2, <2>1, SeenFirst DEF Viewer!step, Viewer!Set, Viewer!Left, Viewer!Entered, Viewer!Hand
<1>3. ASSUME Viewer!Set(Null) PROVE /\ Seen(view') /\ openAt' = Null /\ due' # "frame"
                                     /\ dialog' = dialog /\ (dialog => due' = "timer")
                                     /\ faded' = FALSE /\ scroll' = TRUE
  BY <1>3 DEF Viewer!Set, Viewer!Left
<1>4. CASE Viewer!onCancel
  BY <1>3, <1>4 DEF Viewer!onCancel, Viewer!Hand
<1>41. CASE Viewer!onClose
  <2>1. /\ closing' = FALSE /\ outcome' = "none" /\ UNCHANGED <<dragged, panned>>
        /\ Seen(view') /\ openAt' = Null /\ due' # "frame" /\ dialog' = dialog /\ (dialog => due' = "timer")
        /\ faded' = FALSE /\ scroll' = TRUE
    BY <1>3, <1>41 DEF Viewer!onClose, Viewer!Hand
  <2>. QED BY <2>1
<1>42. CASE Viewer!Escape
  BY <1>42 DEF Viewer!Escape, Viewer!Hand
<1>43. CASE Viewer!Fire
  <2>1. /\ UNCHANGED <<openAt, scroll, view, dragged, panned>> /\ outcome' = "none" /\ due' = "none"
        /\ \/ due = "frame" /\ faded' = TRUE /\ UNCHANGED <<dialog, closing>>
           \/ due = "timer" /\ dialog' = FALSE /\ closing' = (dialog \/ closing) /\ UNCHANGED faded
    BY <1>43 DEF Viewer!Fire, Viewer!Hand
  <2>2. CASE due = "timer"
    BY <2>1, <2>2
  <2>3. CASE due = "frame"
    BY <2>1, <2>3
  <2>. QED BY <2>1, <2>2, <2>3
<1>5. \A zoom \in 1..MaxZoom : Viewer!zoomBy(zoom) => Seen(view')
  BY ZoomKeeps
<1>6. CASE Viewer!onWheel
  BY <1>5, <1>6 DEF Viewer!onWheel, Viewer!Stage, Viewer!Hand
<1>7. CASE Viewer!onClick
  <2>1. /\ UNCHANGED <<closing, dragged, panned>>
        /\ \/ Viewer!Set(Null) /\ outcome' # "torn"
           \/ UNCHANGED <<openAt, dialog, faded, due, scroll, view>> /\ outcome' = "none"
    BY <1>7 DEF Viewer!onClick, Viewer!Hand
  <2>2. /\ UNCHANGED <<closing, dragged, panned>> /\ outcome' # "torn"
        /\ \/ UNCHANGED <<openAt, dialog, faded, due, scroll, view>>
           \/ /\ Seen(view') /\ openAt' = Null /\ due' # "frame" /\ dialog' = dialog /\ (dialog => due' = "timer")
              /\ faded' = FALSE /\ scroll' = TRUE
    BY <1>3, <2>1
  <2>. QED BY <2>2
<1>8. CASE Viewer!onDoubleClick
  BY <1>5, <1>8, EditorsAssumption DEF Viewer!onDoubleClick, Viewer!toggleZoom, Viewer!Stage, Viewer!Hand
<1>9. CASE Viewer!Render \/ Viewer!Leave
  <2>1. CASE Viewer!Render
    BY <2>1 DEF Viewer!Render, Viewer!Stage, Viewer!Hand
  <2>2. CASE Viewer!Leave
    BY <2>2, SeenFirst DEF Viewer!Leave
  <2>. QED BY <1>9, <2>1, <2>2
<1>10. ASSUME NEW f, Viewer!onPointerDown(f) \/ Viewer!Lift(f) PROVE ViewerInv'
  BY <1>10 DEF Viewer!onPointerDown, Viewer!Lift, Viewer!endPointer, Viewer!Stage
<1>11. ASSUME NEW f, Viewer!onPointerMove(f) PROVE ViewerInv'
  <2>1. \/ \E zoom \in 1..MaxZoom : Viewer!zoomBy(zoom) /\ UNCHANGED <<dragged, panned>>
        \/ \E fast \in BOOLEAN : Viewer!Pan(f, fast)
    BY <1>11 DEF Viewer!onPointerMove
  <2>2. /\ Seen(view')
        /\ panned' # Null => dragged'
    BY <1>5, <2>1 DEF Viewer!Pan, Seen
  <2>. QED BY <1>11, <2>2 DEF Viewer!onPointerMove, Viewer!Stage
<1>12. CASE UNCHANGED viewerVars
  BY <1>12 DEF viewerVars
<1>. QED BY <1>1, <1>2, <1>4, <1>41, <1>42, <1>43, <1>6, <1>7, <1>8, <1>9, <1>10, <1>11, <1>12 DEF Viewer!Next

LEMMA ViewerStays == ViewerInv => Viewer!ViewerTrue
<1>1. Seen(view) => Viewer!CentredOut
  BY DEF Seen, Viewer!CentredOut
<1>. QED BY <1>1 DEF ViewerInv, Viewer!ViewerTrue

-----------------------------------------------------------------------------
(* The editor of the material helper.                                      *)

\* A form of the editor: a slot without a need is rated nowhere.
IsSetting(x) ==
  /\ DOMAIN x = {"enabled", "builtIn", "own", "scores"}
  /\ DOMAIN x.own \subseteq {"own1"}
  /\ {"a", "b"} \subseteq DOMAIN x.scores
  /\ \A s \in {"own1"} \ DOMAIN x.own, m \in {"a", "b"} : Helper!Rated(x.scores, m, s) = 0

\* What is stored of it is stored as it is.
Hardened(x) == IsSetting(x) /\ Helper!normalizeMaterialHelper(x) = x

SaveSent ==
  posted # Null =>
    /\ unsaved /\ DOMAIN posted = {"body", "answer"}
    /\ IsSetting(posted.body) /\ \A s \in DOMAIN posted.body.own : posted.body.own[s].label # "blank"
    /\ posted.answer # Null => Hardened(posted.answer) /\ helper = posted.answer

HelperInv ==
  /\ IsSetting(sheet)
  /\ \A s \in reused, m \in {"a", "b"} : Helper!Rated(sheet.scores, m, s) = 0
  /\ SaveSent
  /\ ~unsaved => sheet = Helper!InForce

LEMMA HelperIds == Helper!Ids = {"a", "b"} /\ Helper!NeedIds = {"looks", "own1"}
  BY DEF Helper!Ids, Helper!NeedIds, Helper!Range

\* Hardening what is complete but for ratings.
LEMMA Hardens ==
  ASSUME NEW x, DOMAIN x.own \subseteq {"own1"}, 
         \A s \in {"own1"} \ DOMAIN x.own, m \in {"a", "b"} : Helper!Rated(x.scores, m, s) = 0,
         \A s \in DOMAIN x.own : x.own[s].label # "blank"
  PROVE  Hardened(Helper!normalizeMaterialHelper(x))
<1> DEFINE y == Helper!normalizeMaterialHelper(x)
<1>1. /\ y = [enabled |-> y.enabled, builtIn |-> y.builtIn, own |-> y.own, scores |-> y.scores]
      /\ y.builtIn = [n \in {"looks"} |-> y.builtIn[n]]
      /\ y.own = [s \in DOMAIN x.own |-> x.own[s]]
      /\ y.scores = [m \in {"a", "b"} |-> [n \in {"looks", "own1"} |-> Helper!Rating(x, m, n)]]
  BY HelperIds DEF Helper!normalizeMaterialHelper, Helper!Restrict
<1>2. \A m \in {"a", "b"}, n \in {"looks", "own1"} :
        /\ Helper!Rating(x, m, n) \in 0..3
        /\ n = "own1" /\ n \notin DOMAIN x.own => Helper!Rating(x, m, n) = 0
  BY DEF Helper!Rating, Helper!Rated, Ratings
<1>3. IsSetting(y)
  <2>1. \A s \in {"own1"} \ DOMAIN y.own, m \in {"a", "b"} : Helper!Rated(y.scores, m, s) = 0
    BY <1>1, <1>2 DEF Helper!Rated
  <2>2. DOMAIN y = {"enabled", "builtIn", "own", "scores"} /\ DOMAIN y.own \subseteq {"own1"}
        /\ {"a", "b"} \subseteq DOMAIN y.scores
    BY <1>1
  <2>. QED BY <2>1, <2>2 DEF IsSetting
<1>4. Helper!normalizeMaterialHelper(y) = y
  <2> DEFINE z == Helper!normalizeMaterialHelper(y)
  <2>1. /\ z = [enabled |-> z.enabled, builtIn |-> z.builtIn, own |-> z.own, scores |-> z.scores]
        /\ z.builtIn = [n \in {"looks"} |-> IF n \in DOMAIN y.builtIn THEN y.builtIn[n] ELSE TRUE]
        /\ z.own = [s \in {t \in DOMAIN y.own : y.own[t].label # "blank"} |-> y.own[s]]
        /\ z.scores = [m \in {"a", "b"} |-> [n \in {"looks", "own1"} |-> Helper!Rating(y, m, n)]]
        /\ z.enabled = IF "enabled" \in DOMAIN y THEN y.enabled ELSE TRUE
    BY HelperIds DEF Helper!normalizeMaterialHelper, Helper!Restrict
  <2>2. z.builtIn = y.builtIn
    BY <1>1, <2>1
  <2>3. {t \in DOMAIN y.own : y.own[t].label # "blank"} = DOMAIN x.own
    BY <1>1
  <2>31. z.own = y.own
    BY <1>1, <2>1, <2>3
  <2>4. z.scores = y.scores
    <3>1. \A m \in {"a", "b"}, n \in {"looks", "own1"} : Helper!Rating(y, m, n) = Helper!Rating(x, m, n)
      BY <1>1, <1>2 DEF Helper!Rating
    <3>. QED BY <1>1, <2>1, <3>1
  <2>5. z.enabled = y.enabled
    <3>1. "enabled" \in DOMAIN y
      BY <1>1
    <3>. QED BY <2>1, <3>1
  <2>. QED BY <1>1, <2>1, <2>2, <2>31, <2>4, <2>5
<1>. QED BY <1>3, <1>4 DEF Hardened

LEMMA HelperInit == Helper!Init => HelperInv
<1>. SUFFICES ASSUME Helper!Init PROVE HelperInv
  OBVIOUS
<1>1. IsSetting(Helper!defaultMaterialHelper)
  BY DEF Helper!defaultMaterialHelper, IsSetting, Helper!Rated, Ratings
<1>2. IsSetting(Helper!normalizeMaterialHelper(DamagedRow))
  <2>1. /\ DOMAIN DamagedRow.own = {"own1"} /\ \A s \in DOMAIN DamagedRow.own : DamagedRow.own[s].label # "blank"
    BY DEF DamagedRow
  <2>. QED BY <2>1, Hardens DEF Hardened
<1>3. IsSetting(Helper!InForce)
  BY <1>1, <1>2 DEF Helper!Init, Helper!InForce
<1>4. sheet = Helper!InForce /\ posted = Null /\ reused = {}
  BY DEF Helper!Init
<1>. QED BY <1>3, <1>4 DEF HelperInv, SaveSent

\* What an edit leaves as it was.
LEMMA Edits ==
  ASSUME HelperInv, NEW next, Helper!mutate(next), IsSetting(next),
         \A s \in reused', m \in {"a", "b"} : Helper!Rated(next.scores, m, s) = 0
  PROVE  HelperInv'
<1>1. sheet' = next /\ unsaved' = TRUE /\ UNCHANGED <<helper, posted>>
  BY DEF Helper!mutate
<1>. QED BY <1>1 DEF HelperInv, SaveSent, Hardened, IsSetting

LEMMA Adds == HelperInv /\ Helper!addNeed => HelperInv'
<1>. SUFFICES ASSUME HelperInv, Helper!addNeed PROVE HelperInv'
  OBVIOUS
<1>1. IsSetting(sheet)
  BY DEF HelperInv
<1>2. PICK s \in {"own1"} \ DOMAIN sheet.own :
        /\ Helper!mutate([sheet EXCEPT !.own = [t \in DOMAIN @ \cup {s} |->
                            IF t = s THEN [label |-> "blank", on |-> TRUE] ELSE @[t]]])
        /\ reused' = reused \cup {s}
  BY DEF Helper!addNeed
<1> DEFINE own1 == [t \in DOMAIN sheet.own \cup {s} |-> IF t = s THEN [label |-> "blank", on |-> TRUE] ELSE sheet.own[t]]
           next == [sheet EXCEPT !.own = own1]
<1>3. DOMAIN next = DOMAIN sheet /\ next.scores = sheet.scores /\ next.own = own1
  BY <1>1 DEF IsSetting
<1>4. IsSetting(next)
  BY <1>1, <1>2, <1>3 DEF IsSetting
<1>5. \A t \in reused', m \in {"a", "b"} : Helper!Rated(next.scores, m, t) = 0
  BY <1>1, <1>2, <1>3 DEF IsSetting, HelperInv
<1>6. Helper!mutate(next)
  BY <1>2
<1>. HIDE DEF next
<1>. QED BY <1>4, <1>5, <1>6, Edits

LEMMA Removes == ASSUME HelperInv, NEW s \in DOMAIN sheet.own, Helper!removeNeed(s) PROVE HelperInv'
<1>1. IsSetting(sheet)
  BY DEF HelperInv
<1> DEFINE left == Helper!Restrict(sheet.own, DOMAIN sheet.own \ {s})
           kept == [m \in {"a", "b"} |-> Helper!Restrict(sheet.scores[m], DOMAIN sheet.scores[m] \ {s})]
           next == [sheet EXCEPT !.own = left, !.scores = kept]
<1>2. Helper!mutate(next) /\ reused' = reused \ {s}
  BY HelperIds DEF Helper!removeNeed
<1>3. DOMAIN next = DOMAIN sheet /\ next.scores = kept /\ next.own = left
  BY <1>1 DEF IsSetting
<1>4. DOMAIN left = DOMAIN sheet.own \ {s}
  BY DEF Helper!Restrict
<1>5. \A m \in {"a", "b"} : DOMAIN kept[m] = DOMAIN sheet.scores[m] \ {s}
                            /\ \A n \in DOMAIN kept[m] : kept[m][n] = sheet.scores[m][n]
  BY DEF Helper!Restrict
<1>6. \A m \in {"a", "b"}, n \in {"own1"} \cup reused :
        /\ n = s => Helper!Rated(kept, m, n) = 0
        /\ n # s => Helper!Rated(kept, m, n) = Helper!Rated(sheet.scores, m, n)
  <2>1. DOMAIN kept = {"a", "b"} /\ {"a", "b"} \subseteq DOMAIN sheet.scores
    BY <1>1 DEF IsSetting
  <2>. HIDE DEF kept
  <2>. QED BY <1>5, <2>1 DEF Helper!Rated
<1>7. IsSetting(next)
  <2>1. \A n \in {"own1"} \ DOMAIN left, m \in {"a", "b"} : Helper!Rated(kept, m, n) = 0
    BY <1>1, <1>4, <1>6 DEF IsSetting
  <2>2. DOMAIN left \subseteq {"own1"} /\ DOMAIN kept = {"a", "b"}
    BY <1>1, <1>4 DEF IsSetting
  <2>. QED BY <1>1, <1>3, <2>1, <2>2 DEF IsSetting
<1>8. \A t \in reused', m \in {"a", "b"} : Helper!Rated(next.scores, m, t) = 0
  BY <1>2, <1>3, <1>6 DEF HelperInv
<1>. HIDE DEF next
<1>. QED BY <1>2, <1>7, <1>8, Edits

LEMMA Scores == HelperInv /\ Helper!Score => HelperInv'
<1>. SUFFICES ASSUME HelperInv, Helper!Score PROVE HelperInv'
  OBVIOUS
<1>1. IsSetting(sheet)
  BY DEF HelperInv
<1>2. PICK cell \in {<<"b", "own1">>, <<"a", "looks">>}, score \in {0, 3} :
        /\ IF cell[2] \in {"looks"} THEN sheet.builtIn[cell[2]]
           ELSE cell[2] \in DOMAIN sheet.own /\ sheet.own[cell[2]].on
        /\ Helper!mutate([sheet EXCEPT !.scores[cell[1]] =
             [n \in DOMAIN @ \cup {cell[2]} |-> IF n = cell[2] THEN score ELSE @[n]]])
        /\ reused' = reused \ {cell[2]}
  BY DEF Helper!Score
<1> DEFINE m0 == cell[1]
           n0 == cell[2]
           rated == [n \in DOMAIN sheet.scores[m0] \cup {n0} |-> IF n = n0 THEN score ELSE sheet.scores[m0][n]]
           kept == [sheet.scores EXCEPT ![m0] = rated]
           next == [sheet EXCEPT !.scores = kept]
<1>3. m0 \in {"a", "b"} /\ (n0 = "own1" => n0 \in DOMAIN sheet.own)
  BY <1>2
<1>4. Helper!mutate(next)
  BY <1>2
<1>5. DOMAIN next = DOMAIN sheet /\ next.scores = kept /\ next.own = sheet.own
  BY <1>1 DEF IsSetting
<1>6. DOMAIN kept = DOMAIN sheet.scores /\ kept[m0] = rated
      /\ \A m \in DOMAIN kept \ {m0} : kept[m] = sheet.scores[m]
  BY <1>1, <1>3 DEF IsSetting
<1>7. \A m \in {"a", "b"} : \A n : n # n0 => Helper!Rated(kept, m, n) = Helper!Rated(sheet.scores, m, n)
  BY <1>1, <1>3, <1>6 DEF Helper!Rated, IsSetting
<1>8. IsSetting(next)
  BY <1>1, <1>3, <1>5, <1>6, <1>7 DEF IsSetting
<1>9. \A t \in reused', m \in {"a", "b"} : Helper!Rated(next.scores, m, t) = 0
  BY <1>2, <1>5, <1>7 DEF HelperInv
<1>. HIDE DEF next
<1>. QED BY <1>4, <1>8, <1>9, Edits

LEMMA Switches == HelperInv /\ (Helper!Switch \/ Helper!Rename) => HelperInv'
<1>. SUFFICES ASSUME HelperInv, Helper!Switch \/ Helper!Rename PROVE HelperInv'
  OBVIOUS
<1>1. IsSetting(sheet)
  BY DEF HelperInv
<1>2. UNCHANGED reused
  BY DEF Helper!Switch, Helper!Rename
<1>3. ASSUME NEW next, Helper!mutate(next), DOMAIN next = DOMAIN sheet, next.scores = sheet.scores,
             DOMAIN next.own = DOMAIN sheet.own
      PROVE HelperInv'
  <2>1. IsSetting(next)
    BY <1>1, <1>3 DEF IsSetting
  <2>2. \A s \in reused', m \in {"a", "b"} : Helper!Rated(next.scores, m, s) = 0
    BY <1>2, <1>3 DEF HelperInv
  <2>. QED BY <1>3, <2>1, <2>2, Edits
<1>4. ASSUME NEW enabled, Helper!mutate([sheet EXCEPT !.enabled = enabled]) PROVE HelperInv'
  BY <1>1, <1>3, <1>4 DEF IsSetting
<1>5. ASSUME NEW builtIn, Helper!mutate([sheet EXCEPT !.builtIn = builtIn]) PROVE HelperInv'
  BY <1>1, <1>3, <1>5 DEF IsSetting
<1>6. ASSUME NEW need, NEW s \in DOMAIN sheet.own, Helper!mutate([sheet EXCEPT !.own = [sheet.own EXCEPT ![s] = need]])
      PROVE HelperInv'
  <2>1. DOMAIN [sheet.own EXCEPT ![s] = need] = DOMAIN sheet.own
    OBVIOUS
  <2>. QED BY <1>1, <1>3, <1>6, <2>1 DEF IsSetting
<1>7. CASE Helper!Switch
  <2>1. \/ Helper!mutate([sheet EXCEPT !.enabled = ~sheet.enabled])
        \/ \E n \in {"looks"} : Helper!mutate([sheet EXCEPT !.builtIn = [sheet.builtIn EXCEPT ![n] = ~sheet.builtIn[n]]])
        \/ \E s \in DOMAIN sheet.own :
             Helper!mutate([sheet EXCEPT !.own = [sheet.own EXCEPT ![s] = [sheet.own[s] EXCEPT !.on = ~sheet.own[s].on]]])
    BY <1>7 DEF Helper!Switch
  <2>. QED BY <1>4, <1>5, <1>6, <2>1
<1>8. CASE Helper!Rename
  <2>1. \E s \in DOMAIN sheet.own, label \in {"n1", "blank"} :
          Helper!mutate([sheet EXCEPT !.own = [sheet.own EXCEPT ![s] = [sheet.own[s] EXCEPT !.label = label]]])
    BY <1>8 DEF Helper!Rename
  <2>. QED BY <1>6, <2>1
<1>. QED BY <1>7, <1>8

LEMMA SaveSends == HelperInv /\ (Helper!save \/ Helper!PUT \/ Helper!saveAnswered) => HelperInv'
<1>. SUFFICES ASSUME HelperInv, Helper!save \/ Helper!PUT \/ Helper!saveAnswered PROVE HelperInv'
  OBVIOUS
<1>1. CASE Helper!save
  <2>1. /\ unsaved /\ posted' = [body |-> sheet, answer |-> Null] /\ UNCHANGED <<helper, sheet, unsaved, reused>>
        /\ \A s \in DOMAIN sheet.own : sheet.own[s].label # "blank"
    BY <1>1 DEF Helper!save
  <2>2. SaveSent'
    BY <2>1 DEF SaveSent, HelperInv, IsSetting
  <2>. QED BY <2>1, <2>2 DEF HelperInv, IsSetting
<1>2. CASE Helper!PUT
  <2>1. /\ posted # Null /\ helper' = Helper!normalizeMaterialHelper(posted.body)
        /\ posted' = [posted EXCEPT !.answer = helper'] /\ UNCHANGED <<sheet, unsaved, reused>>
    BY <1>2 DEF Helper!PUT
  <2>2. /\ unsaved /\ DOMAIN posted = {"body", "answer"} /\ IsSetting(posted.body)
        /\ \A s \in DOMAIN posted.body.own : posted.body.own[s].label # "blank"
    BY <2>1 DEF HelperInv, SaveSent
  <2>3. DOMAIN posted' = {"body", "answer"} /\ posted'.body = posted.body /\ posted'.answer = helper'
    BY <2>1, <2>2
  <2>4. Hardened(helper')
    BY <2>1, <2>2, Hardens DEF IsSetting
  <2>5. unsaved'
    BY <2>1, <2>2
  <2>6. SaveSent'
    BY <2>2, <2>3, <2>4, <2>5 DEF SaveSent, Hardened, IsSetting
  <2>. QED BY <2>1, <2>5, <2>6 DEF HelperInv, IsSetting
<1>3. CASE Helper!saveAnswered
  <2>1. /\ posted # Null /\ posted' = Null /\ UNCHANGED helper
        /\ \/ posted.answer # Null /\ sheet' = posted.answer /\ ~unsaved' /\ reused' = {}
           \/ UNCHANGED <<sheet, unsaved, reused>>
    BY <1>3 DEF Helper!saveAnswered, Helper!Answered
  <2>2. CASE posted.answer # Null /\ sheet' = posted.answer /\ ~unsaved' /\ reused' = {}
    <3>1. Hardened(posted.answer) /\ helper = posted.answer
      BY <2>1, <2>2 DEF HelperInv, SaveSent
    <3>2. sheet' = Helper!InForce'
      BY <2>1, <2>2, <3>1 DEF Hardened, Helper!InForce, Helper!normalizeMaterialHelper, Helper!Rating
    <3>. QED BY <2>1, <2>2, <3>1, <3>2 DEF HelperInv, SaveSent, Hardened, IsSetting
  <2>3. CASE UNCHANGED <<sheet, unsaved, reused>>
    <3>1. UNCHANGED Helper!InForce
      BY <2>1 DEF Helper!InForce, Helper!normalizeMaterialHelper, Helper!Rating
    <3>. QED BY <2>1, <2>3, <3>1 DEF HelperInv, SaveSent, IsSetting
  <2>. QED BY <2>1, <2>2, <2>3
<1>. QED BY <1>1, <1>2, <1>3

LEMMA HelperStep == HelperInv /\ [Helper!Next]_helperVars => HelperInv'
<1>. SUFFICES ASSUME HelperInv, [Helper!Next]_helperVars PROVE HelperInv'
  OBVIOUS
<1>1. CASE UNCHANGED <<helper, sheet, unsaved, posted, reused>>
  <2>1. UNCHANGED Helper!InForce
    BY <1>1 DEF Helper!InForce, Helper!normalizeMaterialHelper, Helper!Rating
  <2>. QED BY <1>1, <2>1 DEF HelperInv, SaveSent, Hardened, IsSetting
<1>2. CASE Helper!Editing
  BY <1>2, Adds, Removes, Scores, Switches, SaveSends DEF Helper!Editing
<1>3. Helper!Editing \/ UNCHANGED <<helper, sheet, unsaved, posted, reused>>
  BY DEF Helper!Next, Helper!editorVars, helperVars
<1>. QED BY <1>1, <1>2, <1>3

LEMMA NeedsStay == HelperInv => Helper!NeedsKept
<1>. SUFFICES ASSUME HelperInv PROVE Helper!NeedsKept
  OBVIOUS
<1>1. Helper!StartsUnrated
  BY HelperIds DEF HelperInv, Helper!StartsUnrated
<1>2. ASSUME NEW settings \in Helper!Reads, NEW m \in {"a", "b"}, NEW n \in {"looks"}, helper # Null,
             ~(m \in DOMAIN helper.scores /\ n \in DOMAIN helper.scores[m] /\ helper.scores[m][n] \in 0..3)
      PROVE settings.scores[m][n] = Ratings[m][n]
  <2>1. Helper!Rating(helper, m, n) = Ratings[m][n]
    BY <1>2 DEF Helper!Rating
  <2>2. CASE settings = Helper!defaultMaterialHelper
    BY <2>2 DEF Helper!defaultMaterialHelper
  <2>3. CASE settings = Helper!normalizeMaterialHelper(helper)
    BY <2>1, <2>3, HelperIds DEF Helper!normalizeMaterialHelper
  <2>. QED BY <1>2, <2>2, <2>3 DEF Helper!Reads, Helper!InForce
<1>. QED BY <1>1, <1>2, HelperIds DEF Helper!NeedsKept, Helper!SettledShown, HelperInv

-----------------------------------------------------------------------------
(* The showcase of recent prints and its editor.                           *)

Entry == [id : Photos, named : BOOLEAN]

\* The entries that are kept are a sequence of entries there were.
LEMMA KeptIs ==
  ASSUME NEW E, NEW s \in Seq(E), NEW places
  PROVE  /\ Prints!Kept(s, places) \in Seq(E)
         /\ \A j \in 1..Len(Prints!Kept(s, places)) : \E i \in 1..Len(s) : Prints!Kept(s, places)[j] = s[i]
<1> DEFINE Is(g, n) == g = [m \in 0..n |-> IF m = 0 THEN <<>>
                                           ELSE IF m \in places THEN Append(g[m - 1], s[m]) ELSE g[m - 1]]
           K(n) == CHOOSE g : Is(g, n)
           Some1(t) == t \in Seq(E) /\ \A j \in 1..Len(t) : \E i \in 1..Len(s) : t[j] = s[i]
           Bad == {n \in 0..Len(s) : ~ \E g : Is(g, n) /\ \A m \in 0..n : Some1(g[m])}
<1>1. Bad = {}
  <2>. SUFFICES ASSUME Bad # {} PROVE FALSE
    OBVIOUS
  <2>1. PICK n \in Bad : \A m \in 0..(n - 1) : m \notin Bad
    <3>1. Bad \in SUBSET Nat
      OBVIOUS
    <3>. HIDE DEF Bad
    <3>. QED BY <3>1, Smallest
  <2>2. n \in 0..Len(s) /\ Len(s) \in Nat /\ ~ \E g : Is(g, n) /\ \A m \in 0..n : Some1(g[m])
    <3>. HIDE DEF Is, Some1
    <3>. QED BY <2>1
  <2>3. CASE n = 0
    <3>1. Is([m \in 0..0 |-> <<>>], 0)
      OBVIOUS
    <3>2. Some1(<<>>)
      OBVIOUS
    <3>. HIDE DEF Is, Some1
    <3>3. \A m \in 0..0 : Some1([k \in 0..0 |-> <<>>][m])
      BY <3>2
    <3>. QED BY <2>2, <2>3, <3>1, <3>3
  <2>4. CASE n # 0
    <3>1. n - 1 \in 0..Len(s) /\ n - 1 \in 0..(n - 1) /\ n \in 1..Len(s)
      BY <2>2, <2>4
    <3>2. PICK g : Is(g, n - 1) /\ \A m \in 0..(n - 1) : Some1(g[m])
      BY <2>1, <3>1
    <3> DEFINE top == IF n \in places THEN Append(g[n - 1], s[n]) ELSE g[n - 1]
               h == [m \in 0..n |-> IF m = n THEN top ELSE g[m]]
    <3>. HIDE DEF Some1, Is
    <3>3. Some1(top)
      <4>1. g[n - 1] \in Seq(E) /\ Some1(g[n - 1]) /\ s[n] \in E
        BY <3>1, <3>2 DEF Some1
      <4>2. CASE n \in places
        <5>1. /\ Append(g[n - 1], s[n]) \in Seq(E)
              /\ Len(Append(g[n - 1], s[n])) = Len(g[n - 1]) + 1
              /\ \A j \in 1..Len(g[n - 1]) : Append(g[n - 1], s[n])[j] = g[n - 1][j]
              /\ Append(g[n - 1], s[n])[Len(g[n - 1]) + 1] = s[n]
          BY <4>1
        <5>. HIDE DEF Bad
        <5>2. Len(g[n - 1]) \in Nat
          BY <4>1
        <5>3. ASSUME NEW j \in 1..Len(top) PROVE \E i \in 1..Len(s) : top[j] = s[i]
          <6>1. CASE j = Len(g[n - 1]) + 1
            BY <3>1, <4>2, <5>1, <6>1
          <6>2. CASE j # Len(g[n - 1]) + 1
            <7>1. j \in 1..Len(g[n - 1])
              BY <4>2, <5>1, <5>2, <6>2
            <7>. QED BY <4>1, <4>2, <5>1, <7>1 DEF Some1
          <6>. QED BY <6>1, <6>2
        <5>. QED BY <4>2, <5>1, <5>3 DEF Some1
      <4>3. CASE n \notin places
        BY <4>1, <4>3
      <4>. QED BY <4>2, <4>3
    <3>4. Is(h, n)
      <4>1. ASSUME NEW m \in 0..n
            PROVE  h[m] = IF m = 0 THEN <<>> ELSE IF m \in places THEN Append(h[m - 1], s[m]) ELSE h[m - 1]
        <5>1. n - 1 \in 0..n /\ n - 1 # n
          BY <2>2, <2>4
        <5>2. CASE m = n
          BY <2>4, <5>1, <5>2
        <5>3. CASE m # n
          <6>1. m \in 0..(n - 1) /\ (m # 0 => m - 1 \in 0..n /\ m - 1 # n)
            BY <2>2, <2>4, <5>3
          <6>2. g[m] = IF m = 0 THEN <<>> ELSE IF m \in places THEN Append(g[m - 1], s[m]) ELSE g[m - 1]
            BY <3>2, <6>1 DEF Is
          <6>. QED BY <5>3, <6>1, <6>2
        <5>. QED BY <5>2, <5>3
      <4>2. h = [m \in 0..n |-> h[m]]
        OBVIOUS
      <4>. HIDE DEF h
      <4>. QED BY <4>1, <4>2 DEF Is
    <3>5. ASSUME NEW m \in 0..n PROVE Some1(h[m])
      <4>1. m # n => m \in 0..(n - 1)
        BY <2>2
      <4>. QED BY <3>2, <3>3, <4>1
    <3>. HIDE DEF h
    <3>. QED BY <2>2, <3>4, <3>5
  <2>. QED BY <2>3, <2>4
<1>2. Len(s) \in 0..Len(s) /\ Len(s) \in Nat
  OBVIOUS
<1>. HIDE DEF Is, Some1
<1>3. PICK g : Is(g, Len(s)) /\ \A m \in 0..Len(s) : Some1(g[m])
  BY <1>1, <1>2
<1>4. Is(K(Len(s)), Len(s))
  BY <1>3
<1>. HIDE DEF K
<1>5. Prints!Kept(s, places) = K(Len(s))[Len(s)]
  BY DEF Prints!Kept, K, Is
\* What fulfils the equation is one.
<1>6. \A m \in 0..Len(s) : K(Len(s))[m] = g[m]
  <2> DEFINE Odd == {m \in 0..Len(s) : K(Len(s))[m] # g[m]}
  <2>. SUFFICES ASSUME Odd # {} PROVE FALSE
    OBVIOUS
  <2>1. PICK n \in Odd : \A m \in 0..(n - 1) : m \notin Odd
    <3>1. Odd \in SUBSET Nat
      OBVIOUS
    <3>. HIDE DEF Odd
    <3>. QED BY <3>1, Smallest
  <2>2. n # 0 => n - 1 \in 0..(n - 1) /\ n - 1 \in 0..Len(s)
    BY <1>2
  <2>3. \A m \in 0..Len(s) : g[m] = IF m = 0 THEN <<>> ELSE IF m \in places THEN Append(g[m - 1], s[m]) ELSE g[m - 1]
    BY <1>3 DEF Is
  <2>4. \A m \in 0..Len(s) : K(Len(s))[m] = IF m = 0 THEN <<>> ELSE IF m \in places
                             THEN Append(K(Len(s))[m - 1], s[m]) ELSE K(Len(s))[m - 1]
    BY <1>4 DEF Is
  <2>. QED BY <2>1, <2>2, <2>3, <2>4
<1>. QED BY <1>2, <1>3, <1>5, <1>6 DEF Some1

\* A sequence without one of its members.
LEMMA RemovedIs ==
  ASSUME NEW E, NEW s \in Seq(E), NEW i \in 1..Len(s)
  PROVE  /\ Prints!RemoveAt(s, i) \in Seq(E)
         /\ Len(Prints!RemoveAt(s, i)) = Len(s) - 1
         /\ \A j \in 1..Len(Prints!RemoveAt(s, i)) : \E k \in 1..Len(s) : Prints!RemoveAt(s, i)[j] = s[k]
         /\ \A k \in 1..Len(s) : k # i => \E j \in 1..Len(Prints!RemoveAt(s, i)) : Prints!RemoveAt(s, i)[j] = s[k]
<1> DEFINE n == Len(s)
           u == SubSeq(s, 1, i - 1)
           v == SubSeq(s, i + 1, n)
<1>1. n \in Nat /\ i \in Nat /\ i <= n /\ 1 <= i /\ \A j \in 1..n : s[j] \in E
  OBVIOUS
<1>2. /\ u \in Seq(E) /\ Len(u) = i - 1 /\ \A j \in 1..(i - 1) : u[j] = s[j]
  <2>1. 1 \in Int /\ i - 1 \in Int /\ \A j \in 1..(i - 1) : s[j] \in E
    BY <1>1
  <2>2. /\ SubSeq(s, 1, i - 1) \in Seq(E)
        /\ Len(SubSeq(s, 1, i - 1)) = IF 1 <= i - 1 THEN (i - 1) - 1 + 1 ELSE 0
        /\ \A j \in 1..((i - 1) - 1 + 1) : SubSeq(s, 1, i - 1)[j] = s[1 + j - 1]
    BY <2>1, SubSeqProperties
  <2>. QED BY <1>1, <2>2
<1>3. /\ v \in Seq(E) /\ Len(v) = n - i /\ \A j \in 1..(n - i) : v[j] = s[i + j]
  <2>1. i + 1 \in Int /\ n \in Int /\ \A j \in (i + 1)..n : s[j] \in E
    BY <1>1
  <2>2. /\ SubSeq(s, i + 1, n) \in Seq(E)
        /\ Len(SubSeq(s, i + 1, n)) = IF i + 1 <= n THEN n - (i + 1) + 1 ELSE 0
        /\ \A j \in 1..(n - (i + 1) + 1) : SubSeq(s, i + 1, n)[j] = s[(i + 1) + j - 1]
    BY <2>1, SubSeqProperties
  <2>3. Len(v) = n - i
    BY <1>1, <2>2
  <2>4. ASSUME NEW j \in 1..(n - i) PROVE v[j] = s[i + j]
    <3>1. j \in 1..(n - (i + 1) + 1) /\ (i + 1) + j - 1 = i + j
      BY <1>1
    <3>2. v[j] = s[(i + 1) + j - 1]
      BY <2>2, <3>1
    <3>. QED BY <3>1, <3>2
  <2>. QED BY <2>2, <2>3, <2>4
<1>. HIDE DEF u, v
<1>4. /\ u \o v \in Seq(E) /\ Len(u \o v) = Len(u) + Len(v)
      /\ \A j \in 1..(Len(u) + Len(v)) : (u \o v)[j] = IF j <= Len(u) THEN u[j] ELSE v[j - Len(u)]
  BY <1>2, <1>3, ConcatProperties
<1>5. Prints!RemoveAt(s, i) = u \o v
  BY DEF Prints!RemoveAt, u, v
<1>6. Len(u \o v) = n - 1
  BY <1>1, <1>2, <1>3, <1>4
<1>7. ASSUME NEW j \in 1..(n - 1) PROVE (u \o v)[j] = IF j < i THEN s[j] ELSE s[j + 1]
  <2>1. CASE j < i
    BY <1>1, <1>2, <1>3, <1>4, <2>1
  <2>2. CASE j >= i
    <3>1. j - (i - 1) \in 1..(n - i) /\ i + (j - (i - 1)) = j + 1 /\ ~(j <= i - 1) /\ ~(j < i)
      BY <1>1, <2>2
    <3>2. (u \o v)[j] = v[j - (i - 1)]
      BY <1>1, <1>2, <1>3, <1>4, <3>1
    <3>. QED BY <1>3, <3>1, <3>2
  <2>3. j < i \/ j >= i
    BY <1>1
  <2>. QED BY <2>1, <2>2, <2>3
<1>8. ASSUME NEW k \in 1..n, k # i PROVE \E j \in 1..(n - 1) : (u \o v)[j] = s[k]
  <2>1. CASE k < i
    <3>1. k \in 1..(n - 1)
      BY <1>1, <2>1
    <3>. QED BY <1>7, <2>1, <3>1
  <2>2. CASE k > i
    <3>1. k - 1 \in 1..(n - 1) /\ ~(k - 1 < i) /\ (k - 1) + 1 = k
      BY <1>1, <2>2
    <3>. QED BY <1>7, <3>1
  <2>3. k < i \/ k > i
    BY <1>1, <1>8
  <2>. QED BY <2>1, <2>2, <2>3
<1>9. ASSUME NEW j \in 1..(n - 1) PROVE \E k \in 1..n : (u \o v)[j] = s[k]
  <2>1. j \in 1..n /\ j + 1 \in 1..n
    BY <1>1
  <2>. QED BY <1>7, <2>1
<1>. QED BY <1>4, <1>5, <1>6, <1>8, <1>9

-----------------------------------------------------------------------------
(* The ids of lists.                                                       *)

LEMMA IdsAre == \A s \in Seq(Entry) : Prints!IdsOf(s) = {s[i].id : i \in 1..Len(s)} /\ Prints!IdsOf(s) \subseteq Photos
<1>. TAKE s \in Seq(Entry)
<1>1. DOMAIN s = 1..Len(s) /\ \A i \in 1..Len(s) : s[i] \in Entry
  OBVIOUS
<1>. QED BY <1>1 DEF Prints!IdsOf, Entry

LEMMA NormalIs ==
  ASSUME NEW s \in Seq(Entry)
  PROVE  /\ Prints!normalizeRecentPrints(s) \in Seq(Entry)
         /\ Len(Prints!normalizeRecentPrints(s)) <= MaxListed
         /\ Prints!IdsOf(Prints!normalizeRecentPrints(s)) \subseteq Prints!IdsOf(s)
<1> DEFINE named == Prints!Kept(s, {i \in DOMAIN s : s[i].named})
           n == IF Len(named) > MaxListed THEN MaxListed ELSE Len(named)
           short == SubSeq(named, 1, n)
<1>1. Prints!normalizeRecentPrints(s) = short
  BY DEF Prints!normalizeRecentPrints
<1>2. named \in Seq(Entry) /\ \A j \in 1..Len(named) : \E i \in 1..Len(s) : named[j] = s[i]
  <2>1. \A places : /\ Prints!Kept(s, places) \in Seq(Entry)
                    /\ \A j \in 1..Len(Prints!Kept(s, places)) :
                          \E i \in 1..Len(s) : Prints!Kept(s, places)[j] = s[i]
    BY KeptIs
  <2>. QED BY <2>1
<1>. HIDE DEF named
<1>3. n \in 0..MaxListed /\ n <= Len(named) /\ \A j \in 1..n : named[j] \in Entry
  <2>1. Len(named) \in Nat /\ \A j \in 1..Len(named) : named[j] \in Entry
    BY <1>2
  <2>2. n \in 0..MaxListed /\ n <= Len(named)
    <3>1. \A l \in Nat : (IF l > MaxListed THEN MaxListed ELSE l) \in 0..MaxListed /\ (IF l > MaxListed THEN MaxListed ELSE l) <= l
      BY EditorsAssumption
    <3>2. Len(named) \in Nat
      BY <2>1
    <3>. HIDE DEF n
    <3>. QED BY <3>1, <3>2, Zenon DEF n
  <2>. HIDE DEF n
  <2>. QED BY <2>1, <2>2
<1>. HIDE DEF n
<1>4. /\ short \in Seq(Entry) /\ Len(short) = IF 1 <= n THEN n - 1 + 1 ELSE 0
      /\ \A j \in 1..(n - 1 + 1) : short[j] = named[1 + j - 1]
  <2>1. 1 \in Int /\ n \in Int
    BY <1>3
  <2>. QED BY <1>3, <2>1, SubSeqProperties
<1>. HIDE DEF short
<1>5. Len(short) <= MaxListed
  BY <1>3, <1>4, EditorsAssumption
<1>6. ASSUME NEW j \in 1..Len(short) PROVE \E i \in 1..Len(s) : short[j] = s[i]
  <2>1. j \in 1..Len(named) /\ short[j] = named[j]
    BY <1>2, <1>3, <1>4
  <2>. QED BY <1>2, <2>1
<1>7. Prints!IdsOf(short) \subseteq Prints!IdsOf(s)
  BY <1>4, <1>6, IdsAre
<1>. QED BY <1>1, <1>4, <1>5, <1>7

LEMMA PutOnTop ==
  ASSUME NEW s \in Seq(Entry), NEW e \in Entry
  PROVE  <<e>> \o s \in Seq(Entry) /\ Prints!IdsOf(<<e>> \o s) = {e.id} \cup Prints!IdsOf(s)
<1>1. <<e>> \in Seq(Entry) /\ Len(<<e>>) = 1 /\ <<e>>[1] = e /\ Len(s) \in Nat
  OBVIOUS
<1>2. /\ <<e>> \o s \in Seq(Entry) /\ Len(<<e>> \o s) = 1 + Len(s)
      /\ \A i \in 1..(1 + Len(s)) : (<<e>> \o s)[i] = IF i <= 1 THEN <<e>>[i] ELSE s[i - 1]
  BY <1>1, ConcatProperties
<1> DEFINE t == <<e>> \o s
<1>. HIDE DEF t
<1>3. t \in Seq(Entry) /\ Len(t) = 1 + Len(s) /\ t[1] = e /\ \A i \in 1..Len(s) : t[i + 1] = s[i]
  BY <1>1, <1>2 DEF t
<1>4. ASSUME NEW x PROVE x \in {t[i].id : i \in 1..(1 + Len(s))} <=> x = e.id \/ x \in {s[i].id : i \in 1..Len(s)}
  <2>1. ASSUME NEW i \in 1..(1 + Len(s)), x = t[i].id PROVE x = e.id \/ x \in {s[j].id : j \in 1..Len(s)}
    <3>1. i = 1 \/ (i - 1 \in 1..Len(s) /\ (i - 1) + 1 = i)
      BY <1>1
    <3>. QED BY <1>3, <2>1, <3>1
  <2>2. 1 \in 1..(1 + Len(s)) /\ \A i \in 1..Len(s) : i + 1 \in 1..(1 + Len(s))
    BY <1>1
  <2>. QED BY <1>3, <2>1, <2>2
<1>. QED BY <1>3, <1>4, IdsAre DEF t

LEMMA TakenOut ==
  ASSUME NEW s \in Seq(Entry), NEW i \in 1..Len(s)
  PROVE  /\ Prints!RemoveAt(s, i) \in Seq(Entry)
         /\ Prints!IdsOf(Prints!RemoveAt(s, i)) \subseteq Prints!IdsOf(s)
         /\ Prints!IdsOf(s) \subseteq Prints!IdsOf(Prints!RemoveAt(s, i)) \cup {s[i].id}
<1> DEFINE t == Prints!RemoveAt(s, i)
<1>1. /\ t \in Seq(Entry) /\ \A j \in 1..Len(t) : \E k \in 1..Len(s) : t[j] = s[k]
      /\ \A k \in 1..Len(s) : k # i => \E j \in 1..Len(t) : t[j] = s[k]
  BY RemovedIs
<1>. HIDE DEF t
<1>2. Prints!IdsOf(t) \subseteq Prints!IdsOf(s) /\ Prints!IdsOf(s) \subseteq Prints!IdsOf(t) \cup {s[i].id}
  <2>1. Prints!IdsOf(t) = {t[j].id : j \in 1..Len(t)} /\ Prints!IdsOf(s) = {s[j].id : j \in 1..Len(s)}
    BY <1>1, IdsAre
  <2>2. ASSUME NEW j \in 1..Len(t) PROVE t[j].id \in {s[k].id : k \in 1..Len(s)}
    BY <1>1
  <2>3. ASSUME NEW k \in 1..Len(s), k # i PROVE s[k].id \in {t[j].id : j \in 1..Len(t)}
    BY <1>1, <2>3
  <2>. QED BY <2>1, <2>2, <2>3
<1>. QED BY <1>1, <1>2 DEF t

LEMMA Swapped ==
  ASSUME NEW s \in Seq(Entry), NEW i \in 1..Len(s), i < Len(s)
  PROVE  LET t == [s EXCEPT ![i] = s[i + 1], ![i + 1] = s[i]]
         IN  t \in Seq(Entry) /\ Prints!IdsOf(t) = Prints!IdsOf(s)
<1> DEFINE t == [s EXCEPT ![i] = s[i + 1], ![i + 1] = s[i]]
<1>1. i + 1 \in 1..Len(s) /\ Len(s) \in Nat /\ i # i + 1
  OBVIOUS
<1>2. /\ t \in Seq(Entry) /\ Len(t) = Len(s) /\ t[i] = s[i + 1] /\ t[i + 1] = s[i]
      /\ \A j \in 1..Len(s) : j # i /\ j # i + 1 => t[j] = s[j]
  BY <1>1
<1>. HIDE DEF t
<1>3. ASSUME NEW x PROVE x \in {t[j].id : j \in 1..Len(s)} <=> x \in {s[j].id : j \in 1..Len(s)}
  <2> DEFINE K(j) == IF j = i THEN i + 1 ELSE IF j = i + 1 THEN i ELSE j
  <2>1. ASSUME NEW j \in 1..Len(s) PROVE K(j) \in 1..Len(s) /\ t[j] = s[K(j)] /\ s[j] = t[K(j)]
    BY <1>1, <1>2
  <2>. HIDE DEF K
  <2>2. ASSUME NEW j \in 1..Len(s) PROVE t[j].id \in {s[k].id : k \in 1..Len(s)} /\ s[j].id \in {t[k].id : k \in 1..Len(s)}
    BY <2>1
  <2>. QED BY <2>2
<1>4. Prints!IdsOf(t) = Prints!IdsOf(s)
  BY <1>2, <1>3, IdsAre
<1>. QED BY <1>2, <1>4 DEF t

LEMMA Captioned ==
  ASSUME NEW s \in Seq(Entry), NEW i \in 1..Len(s)
  PROVE  LET t == [s EXCEPT ![i].named = ~s[i].named]
         IN  t \in Seq(Entry) /\ Prints!IdsOf(t) = Prints!IdsOf(s)
<1> DEFINE e == [s[i] EXCEPT !.named = ~s[i].named]
           t == [s EXCEPT ![i] = e]
<1>1. s[i] \in Entry
  OBVIOUS
<1>2. e \in Entry /\ e.id = s[i].id
  BY <1>1 DEF Entry
<1>. HIDE DEF e
<1>3. t \in Seq(Entry) /\ Len(t) = Len(s) /\ \A j \in 1..Len(s) : t[j].id = s[j].id
  BY <1>2, ExceptSeq
<1>. HIDE DEF t
<1>4. Prints!IdsOf(t) = Prints!IdsOf(s)
  <2>1. Prints!IdsOf(t) = {t[j].id : j \in 1..Len(s)} /\ Prints!IdsOf(s) = {s[j].id : j \in 1..Len(s)}
    BY <1>3, IdsAre
  <2>. QED BY <1>3, <2>1
<1>. QED BY <1>3, <1>4 DEF t, e

-----------------------------------------------------------------------------
(* The photos, the list and the editor.                                    *)

Saving == [at : {"read", "save", "prune", "pruned", "failed"}, prints : Seq(Entry), previous : Seq(Entry),
           saved : Seq(Entry), load : Nat]
Posting == [id : Photos, at : {"sent", "stored", "failed"}, load : Nat]

Alive == {p \in Photos : photos[p] \in {"young", "old"}}
Known == {p \in Photos : photos[p] # "none" /\ \A r \in posts : r.id # p}
Fresh == {p \in Photos : photos[p] = "young" /\ p \notin fate.listed}

PrintsTyped ==
  /\ photos \in [Photos -> {"none", "young", "old", "gone"}] /\ saves \in 0..PrintSaves /\ mixed \in BOOLEAN
  /\ list \in Seq(Entry) /\ Len(list) <= MaxListed
  /\ DOMAIN editor = {"load", "items", "dirty", "busy", "stale"}
  /\ editor.items \in Seq(Entry) /\ editor.load \in Nat
  /\ posts \in SUBSET Posting /\ puts \in Seq(Saving)
  /\ DOMAIN fate = {"listed", "removed", "refused", "hasty"}

\* A photo under way is in no list.
PostsOwn ==
  /\ \A r \in posts : /\ r.at = "stored" => photos[r.id] = "young"
                      /\ r.at = "sent" => photos[r.id] = "none"
  /\ \A r, q \in posts : r.id = q.id => r = q
  /\ fate.listed \subseteq Known /\ Prints!IdsOf(editor.items) \subseteq Known
  /\ Prints!IdsOf(list) \subseteq fate.listed /\ fate.hasty \subseteq fate.listed
  /\ \A i \in DOMAIN puts : /\ Prints!IdsOf(puts[i].prints) \subseteq Known
                            /\ Prints!IdsOf(puts[i].previous) \subseteq fate.listed
                            /\ Prints!IdsOf(puts[i].saved) \subseteq fate.listed

\* What a save that overlaps no other has done, at each of its steps.
PutStands(q) ==
  /\ q.load # editor.load => editor.stale
  /\ q.at \in {"read", "save"} =>
       /\ Prints!IdsOf(list) \subseteq Prints!IdsOf(q.prints) \cup fate.removed \cup fate.refused
       /\ Prints!IdsOf(q.prints) \ fate.refused \subseteq Alive
  /\ q.at \in {"prune", "pruned"} => list = q.saved
  /\ q.at = "prune" => Prints!IdsOf(q.prints) \subseteq Prints!IdsOf(q.saved) \cup fate.refused

\* What an editor that is up to date shows.
EditorStands ==
  /\ Prints!IdsOf(editor.items) \ fate.refused \subseteq Alive
  /\ Prints!IdsOf(list) \subseteq Prints!IdsOf(editor.items) \cup fate.removed \cup fate.refused
  /\ \A i \in DOMAIN puts :
       /\ editor.dirty
       /\ Prints!IdsOf(puts[i].prints) \subseteq Prints!IdsOf(editor.items) \cup fate.removed
       /\ Prints!IdsOf(editor.items) \subseteq Prints!IdsOf(puts[i].prints) \cup Fresh
  /\ ~editor.dirty => editor.items = list

ListStands ==
  /\ Len(puts) <= 1
  /\ Prints!IdsOf(list) \ fate.refused \subseteq Alive
  /\ fate.listed \ Prints!IdsOf(list) \subseteq fate.removed \cup fate.refused
  /\ \A i \in DOMAIN puts : PutStands(puts[i])
  /\ ~editor.stale => EditorStands

PrintsInv == PrintsTyped /\ PostsOwn /\ (~mixed => ListStands)

LEMMA NoIds == Prints!IdsOf(<<>>) = {}
  BY DEF Prints!IdsOf

LEMMA PrintsInit == Prints!Init => PrintsInv
<1>. SUFFICES ASSUME Prints!Init PROVE PrintsInv
  OBVIOUS
<1>1. /\ photos = [p \in Photos |-> "none"] /\ list = <<>> /\ posts = {} /\ puts = <<>> /\ saves = 0 /\ mixed = FALSE
      /\ editor = [load |-> 1, items |-> <<>>, dirty |-> FALSE, busy |-> "idle", stale |-> FALSE]
      /\ fate = [listed |-> {}, removed |-> {}, refused |-> {}, hasty |-> {}]
  BY DEF Prints!Init, Prints!Page
<1>2. PrintsTyped
  <2>1. <<>> \in Seq(Entry) /\ <<>> \in Seq(Saving) /\ Len(<<>>) <= MaxListed
    BY EditorsAssumption
  <2>2. /\ DOMAIN editor = {"load", "items", "dirty", "busy", "stale"} /\ editor.items = <<>> /\ editor.load \in Nat
        /\ DOMAIN fate = {"listed", "removed", "refused", "hasty"}
    BY <1>1
  <2>3. photos \in [Photos -> {"none", "young", "old", "gone"}]
    BY <1>1
  <2>4. saves \in 0..PrintSaves /\ posts \in SUBSET Posting
    BY <1>1, EditorsAssumption
  <2>5. mixed \in BOOLEAN
    BY <1>1
  <2>. QED BY <1>1, <2>1, <2>2, <2>3, <2>4, <2>5 DEF PrintsTyped
<1>3. PostsOwn
  BY <1>1, NoIds DEF PostsOwn
<1>4. ListStands
  <2>1. EditorStands
    BY <1>1, NoIds DEF EditorStands
  <2>. QED BY <1>1, <2>1, NoIds DEF ListStands
<1>. QED BY <1>2, <1>3, <1>4 DEF PrintsInv

\* The page is loaded, or edited.
LEMMA LoadKeeps == PrintsInv /\ Prints!Load => PrintsInv'
<1>. SUFFICES ASSUME PrintsInv, Prints!Load PROVE PrintsInv'
  OBVIOUS
<1>1. PICK read \in {list, <<>>} :
        editor' = [load |-> editor.load + 1, items |-> read, dirty |-> FALSE, busy |-> "idle",
                   stale |-> read # list \/ puts # <<>>]
  BY DEF Prints!Load, Prints!Page
<1>2. UNCHANGED <<photos, list, posts, puts, saves, mixed, fate>>
  BY DEF Prints!Load
<1>3. /\ editor'.load = editor.load + 1 /\ editor'.items = read /\ ~editor'.dirty
      /\ DOMAIN editor' = {"load", "items", "dirty", "busy", "stale"}
      /\ editor'.stale <=> read # list \/ puts # <<>>
  BY <1>1
<1>4. PrintsTyped /\ PostsOwn
  BY DEF PrintsInv
<1>5. PrintsTyped'
  <2>1. read \in Seq(Entry)
    <3>1. <<>> \in Seq(Entry) /\ list \in Seq(Entry)
      BY <1>4 DEF PrintsTyped
    <3>. QED BY <3>1
  <2>. QED BY <1>2, <1>3, <1>4, <2>1 DEF PrintsTyped
<1>6. UNCHANGED <<Known, Alive, Fresh>>
  BY <1>2 DEF Known, Alive, Fresh
<1>7. PostsOwn'
  <2>1. Prints!IdsOf(read) \subseteq Known
    BY <1>4, NoIds DEF PostsOwn
  <2>. QED BY <1>2, <1>3, <1>4, <1>6, <2>1 DEF PostsOwn
<1>8. ASSUME ~mixed' PROVE ListStands'
  <2>1. ListStands
    BY <1>2, <1>8 DEF PrintsInv
  <2>2. ASSUME NEW i \in DOMAIN puts PROVE PutStands(puts[i])'
    <3>1. PutStands(puts[i]) /\ editor'.stale
      BY <1>3, <2>1, <2>2 DEF ListStands
    <3>. QED BY <1>2, <1>6, <3>1 DEF PutStands
  <2>3. ~editor'.stale => EditorStands'
    BY <1>2, <1>3, <1>6, <2>1 DEF EditorStands, ListStands
  <2>. QED BY <1>2, <1>6, <2>1, <2>2, <2>3 DEF ListStands
<1>. QED BY <1>5, <1>7, <1>8 DEF PrintsInv

LEMMA EditKeeps ==
  ASSUME PrintsInv, UNCHANGED <<photos, list, posts, puts, saves, mixed>>,
         editor'.items \in Seq(Entry), DOMAIN editor' = DOMAIN editor, editor'.dirty,
         editor'.load = editor.load, editor'.stale = editor.stale,
         DOMAIN fate' = DOMAIN fate, fate.removed \subseteq fate'.removed,
         fate'.listed = fate.listed, fate'.refused = fate.refused, fate'.hasty = fate.hasty,
         Prints!IdsOf(editor'.items) \subseteq Prints!IdsOf(editor.items),
         Prints!IdsOf(editor.items) \subseteq Prints!IdsOf(editor'.items) \cup fate'.removed
  PROVE  PrintsInv'
<1>1. PrintsTyped /\ PostsOwn
  BY DEF PrintsInv
<1>2. PrintsTyped'
  BY <1>1 DEF PrintsTyped
<1>3. UNCHANGED <<Known, Alive, Fresh>>
  BY DEF Known, Alive, Fresh
<1>4. PostsOwn'
  BY <1>1, <1>3 DEF PostsOwn
<1>5. ASSUME ~mixed' PROVE ListStands'
  <2>1. ListStands
    BY <1>5 DEF PrintsInv
  <2>2. ASSUME NEW i \in DOMAIN puts PROVE PutStands(puts[i])'
    <3>1. PutStands(puts[i])
      BY <2>1 DEF ListStands
    <3>. QED BY <1>3, <3>1 DEF PutStands
  <2>3. ~editor'.stale => EditorStands'
    BY <1>3, <2>1 DEF EditorStands, ListStands
  <2>. QED BY <1>3, <2>1, <2>2, <2>3 DEF ListStands
<1>. QED BY <1>2, <1>4, <1>5 DEF PrintsInv

LEMMA Edited == PrintsInv /\ Prints!Edit => PrintsInv'
<1>. SUFFICES ASSUME PrintsInv, Prints!Edit PROVE PrintsInv'
  OBVIOUS
<1>1. /\ editor.items \in Seq(Entry) /\ DOMAIN editor = {"load", "items", "dirty", "busy", "stale"}
      /\ DOMAIN fate = {"listed", "removed", "refused", "hasty"}
  BY DEF PrintsInv, PrintsTyped
<1>2. DOMAIN editor.items = 1..Len(editor.items)
  BY <1>1
<1>3. PICK i \in 1..Len(editor.items) :
        ((Prints!move(i) \/ Prints!Caption(i)) /\ UNCHANGED fate) \/ Prints!Trash(i)
  BY <1>2 DEF Prints!Edit
<1>4. UNCHANGED <<photos, list, posts, puts, saves, mixed>>
  BY DEF Prints!Edit
<1>5. ASSUME NEW items \in Seq(Entry), Prints!mutate(items), UNCHANGED fate,
             Prints!IdsOf(items) = Prints!IdsOf(editor.items)
      PROVE  PrintsInv'
  <2>1. /\ editor'.items = items /\ editor'.dirty /\ DOMAIN editor' = DOMAIN editor
        /\ editor'.load = editor.load /\ editor'.stale = editor.stale
    BY <1>1, <1>5 DEF Prints!mutate
  <2>. QED BY <1>4, <1>5, <2>1, EditKeeps
<1>6. CASE Prints!move(i) /\ UNCHANGED fate
  <2>1. i < Len(editor.items)
    BY <1>6 DEF Prints!move
  <2>. QED BY <1>1, <1>3, <1>5, <1>6, <2>1, Swapped DEF Prints!move
<1>7. CASE Prints!Caption(i) /\ UNCHANGED fate
  BY <1>1, <1>3, <1>5, <1>7, Captioned DEF Prints!Caption
<1>8. CASE Prints!Trash(i)
  <2> DEFINE items == Prints!RemoveAt(editor.items, i)
  <2>1. /\ items \in Seq(Entry) /\ Prints!IdsOf(items) \subseteq Prints!IdsOf(editor.items)
        /\ Prints!IdsOf(editor.items) \subseteq Prints!IdsOf(items) \cup {editor.items[i].id}
    BY <1>1, <1>3, TakenOut
  <2>. HIDE DEF items
  <2>2. /\ editor' = [editor EXCEPT !.items = items, !.dirty = TRUE]
        /\ fate' = [fate EXCEPT !.removed = @ \cup {editor.items[i].id}]
    BY <1>8 DEF Prints!Trash, Prints!mutate, items
  <2>3. /\ editor'.items = items /\ editor'.dirty /\ DOMAIN editor' = DOMAIN editor
        /\ editor'.load = editor.load /\ editor'.stale = editor.stale
        /\ DOMAIN fate' = DOMAIN fate /\ fate'.removed = fate.removed \cup {editor.items[i].id}
        /\ fate'.listed = fate.listed /\ fate'.refused = fate.refused /\ fate'.hasty = fate.hasty
    BY <1>1, <2>2
  <2>. QED BY <1>4, <2>1, <2>3, EditKeeps
<1>. QED BY <1>3, <1>6, <1>7, <1>8

LEMMA AcceptKeeps == PrintsInv /\ Prints!acceptFiles => PrintsInv'
<1>. SUFFICES ASSUME PrintsInv, Prints!acceptFiles PROVE PrintsInv'
  OBVIOUS
<1>1. PICK p \in Photos :
        /\ photos[p] = "none" /\ \A r \in posts : r.id # p
        /\ posts' = posts \cup {[id |-> p, at |-> "sent", load |-> editor.load]}
  BY DEF Prints!acceptFiles
<1>2. editor' = [editor EXCEPT !.busy = "uploading"] /\ UNCHANGED <<photos, list, puts, saves, mixed, fate>>
  BY DEF Prints!acceptFiles
<1>3. PrintsTyped /\ PostsOwn
  BY DEF PrintsInv
<1>4. /\ DOMAIN editor' = DOMAIN editor /\ editor'.items = editor.items /\ editor'.load = editor.load
      /\ (editor'.stale <=> editor.stale) /\ (editor'.dirty <=> editor.dirty)
  BY <1>2, <1>3 DEF PrintsTyped
<1>5. PrintsTyped'
  <2>1. [id |-> p, at |-> "sent", load |-> editor.load] \in Posting
    BY <1>3 DEF PrintsTyped, Posting
  <2>2. posts' \in SUBSET Posting
    BY <1>1, <1>3, <2>1 DEF PrintsTyped
  <2>. QED BY <1>2, <1>3, <1>4, <2>2 DEF PrintsTyped
<1>6. UNCHANGED <<Known, Alive, Fresh>>
  BY <1>1, <1>2 DEF Known, Alive, Fresh
<1>7. PostsOwn'
  <2>1. /\ \A r \in posts' : /\ r.at = "stored" => photos'[r.id] = "young"
                             /\ r.at = "sent" => photos'[r.id] = "none"
        /\ \A r, q \in posts' : r.id = q.id => r = q
    BY <1>1, <1>2, <1>3 DEF PostsOwn
  <2>2. /\ fate'.listed \subseteq Known' /\ Prints!IdsOf(editor'.items) \subseteq Known'
        /\ Prints!IdsOf(list') \subseteq fate'.listed /\ fate'.hasty \subseteq fate'.listed
    BY <1>2, <1>3, <1>4, <1>6 DEF PostsOwn
  <2>3. \A i \in DOMAIN puts' :
          /\ Prints!IdsOf(puts'[i].prints) \subseteq Known'
          /\ Prints!IdsOf(puts'[i].previous) \subseteq fate'.listed
          /\ Prints!IdsOf(puts'[i].saved) \subseteq fate'.listed
    BY <1>2, <1>3, <1>6 DEF PostsOwn
  <2>. QED BY <2>1, <2>2, <2>3, SMTT(30) DEF PostsOwn
<1>8. ASSUME ~mixed' PROVE ListStands'
  <2>1. ListStands
    BY <1>2, <1>8 DEF PrintsInv
  <2>2. ASSUME NEW i \in DOMAIN puts PROVE PutStands(puts[i])'
    <3>1. PutStands(puts[i])
      BY <2>1 DEF ListStands
    <3>. QED BY <1>2, <1>4, <1>6, <3>1 DEF PutStands
  <2>3. ~editor'.stale => EditorStands'
    BY <1>2, <1>4, <1>6, <2>1 DEF EditorStands, ListStands
  <2>. QED BY <1>2, <1>6, <2>1, <2>2, <2>3 DEF ListStands
<1>. QED BY <1>5, <1>7, <1>8 DEF PrintsInv

LEMMA UploadKeeps == ASSUME PrintsInv, NEW r \in posts, Prints!uploadOne(r) PROVE PrintsInv'
<1>1. /\ r.at \in {"stored", "failed"} /\ posts' = posts \ {r}
      /\ UNCHANGED <<photos, list, puts, saves, mixed, fate>>
  BY DEF Prints!uploadOne
<1>2. PrintsTyped /\ PostsOwn
  BY DEF PrintsInv
<1>3. UNCHANGED <<Alive, Fresh>> /\ Known \subseteq Known'
  BY <1>1 DEF Known, Alive, Fresh
<1>4. r.id \in Photos /\ r.id \notin Known
  BY <1>2 DEF PrintsTyped, Posting, Known
<1> DEFINE top == [id |-> r.id, named |-> TRUE]
           New == /\ r.at = "stored" /\ editor'.items = <<top>> \o editor.items /\ editor'.dirty
<1>5. /\ DOMAIN editor' = DOMAIN editor /\ editor'.load = editor.load
      /\ (editor'.stale <=> editor.stale)
      /\ (editor'.items = editor.items /\ (editor'.dirty <=> editor.dirty)) \/ New
  <2>1. DOMAIN editor = {"load", "items", "dirty", "busy", "stale"}
    BY <1>2 DEF PrintsTyped
  <2>2. \/ editor' = editor
        \/ editor' = [editor EXCEPT !.busy = "idle"]
        \/ r.at = "stored" /\ editor' = [editor EXCEPT !.busy = "idle", !.dirty = TRUE, !.items = <<top>> \o editor.items]
    BY <1>1 DEF Prints!uploadOne
  <2>. QED BY <2>1, <2>2
<1>6. top \in Entry /\ top.id = r.id
  BY <1>4 DEF Entry
<1>. HIDE DEF top
<1>7. New => /\ editor'.items \in Seq(Entry) /\ Prints!IdsOf(editor'.items) = {r.id} \cup Prints!IdsOf(editor.items)
             /\ photos[r.id] = "young" /\ r.id \in Known' /\ r.id \in Fresh /\ r.id \in Alive
  <2>. SUFFICES ASSUME New
                PROVE  /\ editor'.items \in Seq(Entry) /\ Prints!IdsOf(editor'.items) = {r.id} \cup Prints!IdsOf(editor.items)
                       /\ photos[r.id] = "young" /\ r.id \in Known' /\ r.id \in Fresh /\ r.id \in Alive
    OBVIOUS
  <2>1. editor.items \in Seq(Entry)
    BY <1>2 DEF PrintsTyped
  <2>2. photos[r.id] = "young"
    BY <1>2 DEF PostsOwn
  <2>3. \A q \in posts' : q.id # r.id
    BY <1>1, <1>2 DEF PostsOwn
  <2>4. r.id \notin fate.listed
    BY <1>2, <1>4 DEF PostsOwn
  <2>5. r.id \in Known' /\ r.id \in Fresh /\ r.id \in Alive
    BY <1>1, <1>4, <2>2, <2>3, <2>4 DEF Known, Fresh, Alive
  <2>. QED BY <1>6, <2>1, <2>2, <2>5, PutOnTop
<1>8. PrintsTyped'
  <2>1. editor'.items \in Seq(Entry)
    BY <1>2, <1>5, <1>7 DEF PrintsTyped
  <2>2. posts' \in SUBSET Posting
    BY <1>1, <1>2 DEF PrintsTyped
  <2>. QED BY <1>1, <1>2, <1>5, <2>1, <2>2 DEF PrintsTyped
<1>9. PostsOwn'
  <2>1. Prints!IdsOf(editor'.items) \subseteq Known'
    BY <1>2, <1>3, <1>5, <1>7 DEF PostsOwn
  <2>. QED BY <1>1, <1>2, <1>3, <2>1 DEF PostsOwn
<1>10. ASSUME ~mixed' PROVE ListStands'
  <2>1. ListStands
    BY <1>1, <1>10 DEF PrintsInv
  <2>2. ASSUME NEW i \in DOMAIN puts PROVE PutStands(puts[i])'
    <3>1. PutStands(puts[i])
      BY <2>1 DEF ListStands
    <3>. QED BY <1>1, <1>3, <1>5, <3>1 DEF PutStands
  <2>3. ASSUME ~editor'.stale PROVE EditorStands'
    <3>1. EditorStands
      BY <1>5, <2>1, <2>3 DEF ListStands
    <3>2. CASE New
      BY <1>1, <1>3, <1>7, <3>1, <3>2 DEF EditorStands
    <3>3. CASE editor'.items = editor.items /\ (editor'.dirty <=> editor.dirty)
      BY <1>1, <1>3, <3>1, <3>3 DEF EditorStands
    <3>. QED BY <1>5, <3>2, <3>3
  <2>. QED BY <1>1, <1>3, <2>1, <2>2, <2>3 DEF ListStands
<1>. QED BY <1>8, <1>9, <1>10 DEF PrintsInv

\* A photo is stored, or refused.
LEMMA PostKeeps == ASSUME PrintsInv, NEW r \in posts, Prints!POST(r) PROVE PrintsInv'
<1>1. /\ r.at = "sent" /\ UNCHANGED <<list, editor, puts, saves, mixed, fate>>
      /\ \/ /\ posts' = (posts \ {r}) \cup {[r EXCEPT !.at = "stored"]}
            /\ photos' = [photos EXCEPT ![r.id] = "young"]
         \/ /\ posts' = (posts \ {r}) \cup {[r EXCEPT !.at = "failed"]}
            /\ UNCHANGED photos
  BY DEF Prints!POST
<1>2. PrintsTyped /\ PostsOwn
  BY DEF PrintsInv
<1>3. /\ r.id \in Photos /\ r.load \in Nat /\ photos[r.id] = "none" /\ r \in Posting
      /\ photos \in [Photos -> {"none", "young", "old", "gone"}]
  BY <1>1, <1>2 DEF PrintsTyped, PostsOwn, Posting
<1>4. PICK q \in Posting :
        /\ q.id = r.id /\ posts' = (posts \ {r}) \cup {q} /\ q.at \in {"stored", "failed"}
        /\ q.at = "stored" => photos' = [photos EXCEPT ![r.id] = "young"]
        /\ q.at = "failed" => photos' = photos
  <2>1. \A then \in {"stored", "failed"} :
          [r EXCEPT !.at = then] \in Posting /\ [r EXCEPT !.at = then].id = r.id /\ [r EXCEPT !.at = then].at = then
    BY <1>3 DEF Posting
  <2>. QED BY <1>1, <2>1
<1>5. /\ photos' \in [Photos -> {"none", "young", "old", "gone"}]
      /\ \A p \in Photos : p # r.id => photos'[p] = photos[p]
      /\ q.at = "stored" => photos'[r.id] = "young"
  BY <1>3, <1>4
<1>6. \A p \in posts : p.id = r.id => p = r
  BY <1>2 DEF PostsOwn
<1>7. Known \subseteq Known' /\ Alive \subseteq Alive' /\ Fresh \subseteq Fresh'
  <2>1. Known \subseteq Known'
    BY <1>4, <1>5 DEF Known
  <2>2. Alive \subseteq Alive'
    BY <1>3, <1>5 DEF Alive
  <2>3. Fresh \subseteq Fresh'
    BY <1>1, <1>3, <1>5 DEF Fresh
  <2>. QED BY <2>1, <2>2, <2>3
<1>8. PrintsTyped'
  <2>1. posts' \in SUBSET Posting
    BY <1>2, <1>4 DEF PrintsTyped
  <2>. QED BY <1>1, <1>2, <1>5, <2>1 DEF PrintsTyped
<1>9. PostsOwn'
  <2>1. ASSUME NEW p \in posts'
        PROVE  /\ p.at = "stored" => photos'[p.id] = "young"
               /\ p.at = "sent" => photos'[p.id] = "none"
    <3>1. CASE p = q
      BY <1>4, <1>5, <3>1
    <3>2. CASE p # q
      <4>1. p \in posts /\ p # r /\ p.id \in Photos
        BY <1>2, <1>4, <2>1, <3>2 DEF PrintsTyped, Posting
      <4>2. photos'[p.id] = photos[p.id]
        BY <1>5, <1>6, <4>1
      <4>. QED BY <1>2, <4>1, <4>2 DEF PostsOwn
    <3>. QED BY <3>1, <3>2
  <2>2. \A p, s \in posts' : p.id = s.id => p = s
    BY <1>2, <1>4, <1>6 DEF PostsOwn
  <2>. QED BY <1>1, <1>2, <1>7, <2>1, <2>2 DEF PostsOwn
<1>10. ASSUME ~mixed' PROVE ListStands'
  <2>1. ListStands
    BY <1>1, <1>10 DEF PrintsInv
  <2>2. ASSUME NEW i \in DOMAIN puts PROVE PutStands(puts[i])'
    <3>1. PutStands(puts[i])
      BY <2>1 DEF ListStands
    <3>. QED BY <1>1, <1>7, <3>1 DEF PutStands
  <2>3. ~editor'.stale => EditorStands'
    BY <1>1, <1>7, <2>1 DEF EditorStands, ListStands
  <2>. QED BY <1>1, <1>7, <2>1, <2>2, <2>3 DEF ListStands
<1>. QED BY <1>8, <1>9, <1>10 DEF PrintsInv

\* A request is dropped, or all of them.
LEMMA SaveKept == PrintsInv /\ Prints!save => PrintsInv'
<1>. SUFFICES ASSUME PrintsInv, Prints!save PROVE PrintsInv'
  OBVIOUS
<1> DEFINE q == [at |-> "read", prints |-> editor.items, previous |-> <<>>, saved |-> <<>>, load |-> editor.load]
<1>1. /\ editor.dirty /\ saves < PrintSaves /\ puts' = Append(puts, q) /\ saves' = saves + 1
      /\ (~mixed' => ~mixed /\ ~editor.stale /\ puts = <<>>)
      /\ editor' = [editor EXCEPT !.busy = "saving"] /\ UNCHANGED <<photos, list, posts, fate>>
  BY DEF Prints!save
<1>2. PrintsTyped /\ PostsOwn
  BY DEF PrintsInv
<1>3. UNCHANGED <<Known, Alive, Fresh>>
  BY <1>1 DEF Known, Alive, Fresh
<1>4. /\ DOMAIN editor' = DOMAIN editor /\ editor'.items = editor.items /\ editor'.load = editor.load
      /\ (editor'.stale <=> editor.stale) /\ (editor'.dirty <=> editor.dirty)
  BY <1>1, <1>2 DEF PrintsTyped
<1>5. q \in Saving /\ q.prints = editor.items /\ q.previous = <<>> /\ q.saved = <<>> /\ q.at = "read" /\ q.load = editor.load
  <2>1. editor.items \in Seq(Entry) /\ editor.load \in Nat /\ <<>> \in Seq(Entry)
    BY <1>2 DEF PrintsTyped
  <2>. QED BY <2>1 DEF Saving
<1>. HIDE DEF q
<1>6. /\ puts' \in Seq(Saving) /\ Len(puts') = Len(puts) + 1 /\ DOMAIN puts' = 1..Len(puts) + 1 /\ DOMAIN puts = 1..Len(puts)
      /\ Len(puts) \in Nat /\ \A i \in 1..Len(puts) : puts'[i] = puts[i]
      /\ puts'[Len(puts) + 1] = q
  <2>1. puts \in Seq(Saving)
    BY <1>2 DEF PrintsTyped
  <2>. QED BY <1>1, <1>5, <2>1, AppendProperties, LenProperties
<1>7. \A i \in DOMAIN puts' : puts'[i] = q \/ (i \in DOMAIN puts /\ puts'[i] = puts[i])
  BY <1>6
<1>8. PrintsTyped'
  <2>1. mixed' \in BOOLEAN
    BY <1>2 DEF PrintsTyped, Prints!save
  <2>2. saves' \in 0..PrintSaves
    BY <1>1, <1>2, EditorsAssumption DEF PrintsTyped
  <2>. QED BY <1>1, <1>2, <1>4, <1>6, <2>1, <2>2 DEF PrintsTyped
<1>9. PostsOwn'
  <2>1. ASSUME NEW i \in DOMAIN puts'
        PROVE  /\ Prints!IdsOf(puts'[i].prints) \subseteq Known'
               /\ Prints!IdsOf(puts'[i].previous) \subseteq fate'.listed
               /\ Prints!IdsOf(puts'[i].saved) \subseteq fate'.listed
    <3>1. CASE puts'[i] = q
      BY <1>1, <1>2, <1>3, <1>5, <3>1, NoIds DEF PostsOwn
    <3>2. CASE i \in DOMAIN puts /\ puts'[i] = puts[i]
      BY <1>1, <1>2, <1>3, <3>2 DEF PostsOwn
    <3>. QED BY <1>7, <3>1, <3>2
  <2>. QED BY <1>1, <1>2, <1>3, <1>4, <2>1 DEF PostsOwn
<1>10. ASSUME ~mixed' PROVE ListStands'
  <2>1. ListStands /\ ~editor.stale /\ puts = <<>>
    BY <1>1, <1>10 DEF PrintsInv
  <2>2. Len(puts) = 0 /\ Len(puts') = 1 /\ DOMAIN puts' = {1} /\ puts'[1] = q
    BY <1>6, <2>1
  <2>3. EditorStands
    BY <2>1 DEF ListStands
  <2>4. PutStands(q)'
    BY <1>1, <1>3, <1>4, <1>5, <2>3 DEF PutStands, EditorStands, q
  <2>5. EditorStands'
    BY <1>1, <1>3, <1>4, <1>5, <2>2, <2>3 DEF EditorStands
  <2>6. PutStands(puts[1])'
    BY <1>1, <1>3, <1>4, <1>5, <2>2, <2>3 DEF PutStands, EditorStands
  <2>. QED BY <1>1, <1>3, <2>1, <2>2, <2>5, <2>6 DEF ListStands
<1>. QED BY <1>8, <1>9, <1>10 DEF PrintsInv

LEMMA AnswerKeeps == ASSUME PrintsInv, NEW i \in DOMAIN puts, Prints!saveAnswered(i) PROVE PrintsInv'
<1>1. /\ puts[i].at \in {"pruned", "failed"} /\ puts' = Prints!RemoveAt(puts, i)
      /\ UNCHANGED <<photos, list, posts, saves, mixed, fate>>
  BY DEF Prints!saveAnswered
<1>2. PrintsTyped /\ PostsOwn
  BY DEF PrintsInv
<1>3. UNCHANGED <<Known, Alive, Fresh>>
  BY <1>1 DEF Known, Alive, Fresh
<1>4. puts \in Seq(Saving) /\ DOMAIN puts = 1..Len(puts) /\ Len(puts) \in Nat /\ puts[i] \in Saving
  BY <1>2 DEF PrintsTyped
<1> DEFINE Taken == /\ puts[i].load = editor.load /\ puts[i].at = "pruned" /\ editor'.items = puts[i].saved
                    /\ ~editor'.dirty
<1>5. /\ DOMAIN editor' = DOMAIN editor /\ editor'.load = editor.load
      /\ (editor'.stale <=> editor.stale)
      /\ (editor'.items = editor.items /\ (editor'.dirty <=> editor.dirty)) \/ Taken
  <2>1. DOMAIN editor = {"load", "items", "dirty", "busy", "stale"}
    BY <1>2 DEF PrintsTyped
  <2>2. \/ editor' = editor
        \/ editor' = [editor EXCEPT !.busy = "idle"]
        \/ /\ puts[i].load = editor.load /\ puts[i].at = "pruned"
           /\ editor' = [editor EXCEPT !.busy = "idle", !.dirty = FALSE, !.items = puts[i].saved]
    BY <1>1 DEF Prints!saveAnswered, Prints!Shown
  <2>. QED BY <2>1, <2>2
<1>6. /\ puts' \in Seq(Saving) /\ Len(puts') = Len(puts) - 1
      /\ \A j \in DOMAIN puts' : \E k \in DOMAIN puts : puts'[j] = puts[k]
  <2>1. /\ puts' \in Seq(Saving) /\ Len(puts') = Len(puts) - 1
        /\ \A j \in 1..Len(puts') : \E k \in 1..Len(puts) : puts'[j] = puts[k]
    <3> DEFINE left == Prints!RemoveAt(puts, i)
    <3>1. i \in 1..Len(puts)
      BY <1>4
    <3>2. /\ left \in Seq(Saving) /\ Len(left) = Len(puts) - 1
          /\ \A j \in 1..Len(left) : \E k \in 1..Len(puts) : left[j] = puts[k]
      BY <1>4, <3>1, RemovedIs
    <3>. HIDE DEF left
    <3>3. puts' = left
      BY <1>1 DEF left
    <3>. QED BY <3>2, <3>3
  <2>2. DOMAIN puts' = 1..Len(puts')
    BY <2>1
  <2>. QED BY <1>4, <2>1, <2>2
<1>7. PrintsTyped'
  <2>1. editor'.items \in Seq(Entry)
    BY <1>2, <1>4, <1>5 DEF PrintsTyped, Saving
  <2>. QED BY <1>1, <1>2, <1>5, <1>6, <2>1 DEF PrintsTyped
<1>8. PostsOwn'
  <2>1. Prints!IdsOf(editor'.items) \subseteq Known'
    BY <1>2, <1>3, <1>5 DEF PostsOwn
  <2>2. ASSUME NEW j \in DOMAIN puts'
        PROVE  /\ Prints!IdsOf(puts'[j].prints) \subseteq Known'
               /\ Prints!IdsOf(puts'[j].previous) \subseteq fate'.listed
               /\ Prints!IdsOf(puts'[j].saved) \subseteq fate'.listed
    <3>1. PICK k \in DOMAIN puts : puts'[j] = puts[k]
      BY <1>6
    <3>. QED BY <1>1, <1>2, <1>3, <3>1 DEF PostsOwn
  <2>. QED BY <1>1, <1>2, <1>3, <2>1, <2>2 DEF PostsOwn
<1>9. ASSUME ~mixed' PROVE ListStands'
  <2>1. ListStands
    BY <1>1, <1>9 DEF PrintsInv
  <2>2. Len(puts') = 0 /\ DOMAIN puts' = {}
    BY <1>4, <1>6, <2>1 DEF ListStands
  <2>3. PutStands(puts[i])
    BY <2>1 DEF ListStands
  <2>4. ASSUME ~editor'.stale PROVE EditorStands'
    <3>1. EditorStands
      BY <1>5, <2>1, <2>4 DEF ListStands
    <3>2. CASE Taken
      <4>1. list = puts[i].saved
        BY <2>3, <3>2 DEF PutStands
      <4>. QED BY <1>1, <1>3, <2>1, <2>2, <3>2, <4>1 DEF EditorStands, ListStands
    <3>3. CASE editor'.items = editor.items /\ (editor'.dirty <=> editor.dirty)
      BY <1>1, <1>3, <2>2, <3>1, <3>3 DEF EditorStands
    <3>. QED BY <1>5, <3>2, <3>3
  <2>. QED BY <1>1, <1>3, <2>1, <2>2, <2>4 DEF ListStands
<1>. QED BY <1>7, <1>8, <1>9 DEF PrintsInv

-----------------------------------------------------------------------------
(* The server's side of a save.                                            *)

LEMMA PutChanges ==
  ASSUME PrintsTyped, NEW i \in DOMAIN puts, NEW q \in Saving, puts' = [puts EXCEPT ![i] = q]
  PROVE  /\ puts' \in Seq(Saving) /\ Len(puts') = Len(puts) /\ DOMAIN puts' = DOMAIN puts /\ puts'[i] = q
         /\ \A j \in DOMAIN puts : j # i => puts'[j] = puts[j]
<1>1. puts \in Seq(Saving) /\ DOMAIN puts = 1..Len(puts) /\ i \in 1..Len(puts)
  BY DEF PrintsTyped
<1> DEFINE t == [puts EXCEPT ![i] = q]
<1>2. t \in Seq(Saving) /\ Len(t) = Len(puts) /\ \A j \in 1..Len(puts) : t[j] = IF j = i THEN q ELSE puts[j]
  BY <1>1, ExceptSeq
<1>3. DOMAIN t = DOMAIN puts
  OBVIOUS
<1>. HIDE DEF t
<1>4. puts' = t
  BY DEF t
<1>. QED BY <1>1, <1>2, <1>3, <1>4

LEMMA ReadKeeps == ASSUME PrintsInv, NEW i \in DOMAIN puts, Prints!ReadPrevious(i) PROVE PrintsInv'
<1>1. PrintsTyped /\ PostsOwn
  BY DEF PrintsInv
<1>2. puts[i] \in Saving
  BY <1>1 DEF PrintsTyped
<1>3. PICK previous \in {list, <<>>} : puts' = [puts EXCEPT ![i].at = "save", ![i].previous = previous]
  BY DEF Prints!ReadPrevious
<1>4. puts[i].at = "read" /\ UNCHANGED <<photos, list, editor, posts, saves, mixed, fate>>
  BY DEF Prints!ReadPrevious
<1>5. UNCHANGED <<Known, Alive, Fresh>>
  BY <1>4 DEF Known, Alive, Fresh
<1> DEFINE q == [puts[i] EXCEPT !.at = "save", !.previous = previous]
<1>6. /\ q \in Saving /\ q.at = "save" /\ q.prints = puts[i].prints /\ q.saved = puts[i].saved
      /\ q.load = puts[i].load /\ q.previous = previous
  <2>1. previous \in Seq(Entry)
    <3>1. list \in Seq(Entry) /\ <<>> \in Seq(Entry)
      BY <1>1 DEF PrintsTyped
    <3>. QED BY <3>1
  <2>. QED BY <1>2, <2>1 DEF Saving
<1>7. puts' = [puts EXCEPT ![i] = q]
  BY <1>3
<1>. HIDE DEF q
<1>8. /\ puts' \in Seq(Saving) /\ Len(puts') = Len(puts) /\ DOMAIN puts' = DOMAIN puts /\ puts'[i] = q
      /\ \A j \in DOMAIN puts : j # i => puts'[j] = puts[j]
  BY <1>1, <1>6, <1>7, PutChanges
<1>9. PrintsTyped'
  BY <1>1, <1>4, <1>8 DEF PrintsTyped
<1>10. PostsOwn'
  <2>1. Prints!IdsOf(previous) \subseteq fate.listed
    BY <1>1, NoIds DEF PostsOwn
  <2>2. ASSUME NEW j \in DOMAIN puts'
        PROVE  /\ Prints!IdsOf(puts'[j].prints) \subseteq Known'
               /\ Prints!IdsOf(puts'[j].previous) \subseteq fate'.listed
               /\ Prints!IdsOf(puts'[j].saved) \subseteq fate'.listed
    BY <1>1, <1>4, <1>5, <1>6, <1>8, <2>1 DEF PostsOwn
  <2>. QED BY <1>1, <1>4, <1>5, <2>2 DEF PostsOwn
<1>11. ASSUME ~mixed' PROVE ListStands'
  <2>1. ListStands
    BY <1>4, <1>11 DEF PrintsInv
  <2>2. ASSUME NEW j \in DOMAIN puts' PROVE PutStands(puts[j])'
    <3>1. PutStands(puts[j]) /\ PutStands(puts[i])
      BY <1>8, <2>1 DEF ListStands
    <3>2. CASE j = i
      BY <1>4, <1>5, <1>6, <1>8, <3>1, <3>2 DEF PutStands
    <3>3. CASE j # i
      BY <1>4, <1>5, <1>8, <3>1, <3>3 DEF PutStands
    <3>. QED BY <3>2, <3>3
  <2>3. \A j \in DOMAIN puts' : PutStands(puts[j])'
    BY <2>2
  <2>4. ASSUME ~editor'.stale PROVE EditorStands'
    <3>1. EditorStands
      BY <1>4, <2>1, <2>4 DEF ListStands
    <3>2. \A j \in DOMAIN puts' : puts'[j].prints = puts[j].prints
      BY <1>6, <1>8
    <3>. QED BY <1>4, <1>5, <1>8, <3>1, <3>2 DEF EditorStands
  <2>. QED BY <1>4, <1>5, <1>8, <2>1, <2>3, <2>4 DEF ListStands
<1>. QED BY <1>9, <1>10, <1>11 DEF PrintsInv

LEMMA SavedKeeps == ASSUME PrintsInv, NEW i \in DOMAIN puts, Prints!saveRecentPrints(i) PROVE PrintsInv'
<1>1. PrintsTyped /\ PostsOwn
  BY DEF PrintsInv
<1>2. puts[i] \in Saving /\ puts[i].prints \in Seq(Entry) /\ DOMAIN fate = {"listed", "removed", "refused", "hasty"}
  <2>1. puts[i] \in Saving /\ DOMAIN fate = {"listed", "removed", "refused", "hasty"}
    BY <1>1 DEF PrintsTyped
  <2>. QED BY <2>1 DEF Saving
<1> DEFINE new == Prints!normalizeRecentPrints(puts[i].prints)
<1>3. new \in Seq(Entry) /\ Len(new) <= MaxListed /\ Prints!IdsOf(new) \subseteq Prints!IdsOf(puts[i].prints)
  BY <1>2, NormalIs
<1>. HIDE DEF new
<1>4. puts[i].at = "save" /\ UNCHANGED <<photos, editor, posts, saves, mixed>>
  BY DEF Prints!saveRecentPrints
<1> DEFINE Done == /\ list' = new
                   /\ puts' = [puts EXCEPT ![i].at = "prune", ![i].saved = new]
                   /\ fate' = [fate EXCEPT !.listed = fate.listed \cup Prints!IdsOf(new),
                                           !.refused = fate.refused \cup (Prints!IdsOf(puts[i].prints) \ Prints!IdsOf(new))]
           Failed == puts' = [puts EXCEPT ![i].at = "failed"] /\ UNCHANGED <<list, fate>>
<1>5. Done \/ Failed
  BY DEF Prints!saveRecentPrints, new
<1>6. /\ DOMAIN fate' = DOMAIN fate /\ fate'.removed = fate.removed /\ fate'.hasty = fate.hasty
      /\ Done => /\ fate'.listed = fate.listed \cup Prints!IdsOf(new)
                 /\ fate'.refused = fate.refused \cup (Prints!IdsOf(puts[i].prints) \ Prints!IdsOf(new))
      /\ Failed => fate' = fate
  BY <1>2, <1>5
<1>7. PICK q \in Saving :
        /\ q.prints = puts[i].prints /\ q.load = puts[i].load /\ q.previous = puts[i].previous
        /\ puts' = [puts EXCEPT ![i] = q]
        /\ (Done /\ q.at = "prune" /\ q.saved = new) \/ (Failed /\ q.at = "failed" /\ q.saved = puts[i].saved)
  <2>1. CASE Done
    <3> DEFINE q == [puts[i] EXCEPT !.at = "prune", !.saved = new]
    <3>1. /\ q \in Saving /\ q.prints = puts[i].prints /\ q.load = puts[i].load /\ q.previous = puts[i].previous
          /\ q.at = "prune" /\ q.saved = new
      BY <1>2, <1>3 DEF Saving
    <3>2. puts' = [puts EXCEPT ![i] = q]
      BY <2>1
    <3>. QED BY <2>1, <3>1, <3>2
  <2>2. CASE Failed
    <3> DEFINE q == [puts[i] EXCEPT !.at = "failed"]
    <3>1. /\ q \in Saving /\ q.prints = puts[i].prints /\ q.load = puts[i].load /\ q.previous = puts[i].previous
          /\ q.at = "failed" /\ q.saved = puts[i].saved
      BY <1>2 DEF Saving
    <3>2. puts' = [puts EXCEPT ![i] = q]
      BY <2>2
    <3>. QED BY <2>2, <3>1, <3>2
  <2>. QED BY <1>5, <2>1, <2>2
<1>8. (Done => list' = new) /\ (Failed => list' = list)
  OBVIOUS
<1>. HIDE DEF Done, Failed
<1>9. /\ puts' \in Seq(Saving) /\ Len(puts') = Len(puts) /\ DOMAIN puts' = DOMAIN puts /\ puts'[i] = q
      /\ \A j \in DOMAIN puts : j # i => puts'[j] = puts[j]
  BY <1>1, <1>7, PutChanges
<1>10. PrintsTyped'
  BY <1>1, <1>3, <1>4, <1>5, <1>6, <1>8, <1>9 DEF PrintsTyped
<1>11. UNCHANGED <<Known, Alive>> /\ fate.listed \subseteq fate'.listed /\ fate.refused \subseteq fate'.refused
  BY <1>4, <1>5, <1>6 DEF Known, Alive
<1>12. PostsOwn'
  <2>1. fate'.listed \subseteq Known' /\ Prints!IdsOf(list') \subseteq fate'.listed /\ fate'.hasty \subseteq fate'.listed
    <3>1. Prints!IdsOf(puts[i].prints) \subseteq Known /\ fate.listed \subseteq Known
          /\ Prints!IdsOf(list) \subseteq fate.listed /\ fate.hasty \subseteq fate.listed
      BY <1>1 DEF PostsOwn
    <3>. QED BY <1>3, <1>5, <1>6, <1>8, <1>11, <3>1
  <2>2. ASSUME NEW j \in DOMAIN puts'
        PROVE  /\ Prints!IdsOf(puts'[j].prints) \subseteq Known'
               /\ Prints!IdsOf(puts'[j].previous) \subseteq fate'.listed
               /\ Prints!IdsOf(puts'[j].saved) \subseteq fate'.listed
    <3>1. /\ Prints!IdsOf(puts[j].prints) \subseteq Known /\ Prints!IdsOf(puts[j].previous) \subseteq fate.listed
          /\ Prints!IdsOf(puts[j].saved) \subseteq fate.listed
      BY <1>1, <1>9 DEF PostsOwn
    <3>2. Prints!IdsOf(q.saved) \subseteq fate'.listed
      BY <1>1, <1>6, <1>7, <1>11 DEF PostsOwn
    <3>3. CASE j = i
      BY <1>7, <1>9, <1>11, <3>1, <3>2, <3>3
    <3>4. CASE j # i
      BY <1>9, <1>11, <3>1, <3>4
    <3>. QED BY <3>3, <3>4
  <2>. QED BY <1>1, <1>4, <1>11, <2>1, <2>2 DEF PostsOwn
<1>13. ASSUME ~mixed' PROVE ListStands'
  <2>1. ListStands
    BY <1>4, <1>13 DEF PrintsInv
  <2>2. /\ \A j \in DOMAIN puts : j = i
        /\ PutStands(puts[i])
    <3>1. DOMAIN puts = 1..Len(puts) /\ Len(puts) \in Nat
      BY <1>1 DEF PrintsTyped
    <3>. QED BY <2>1, <3>1 DEF ListStands
  <2>3. /\ puts[i].load # editor.load => editor.stale
        /\ Prints!IdsOf(list) \subseteq Prints!IdsOf(puts[i].prints) \cup fate.removed \cup fate.refused
        /\ Prints!IdsOf(puts[i].prints) \ fate.refused \subseteq Alive
    BY <1>4, <2>2 DEF PutStands
  <2>4. /\ Prints!IdsOf(list') \ fate'.refused \subseteq Alive'
        /\ fate'.listed \ Prints!IdsOf(list') \subseteq fate'.removed \cup fate'.refused
    <3>1. /\ Prints!IdsOf(list) \ fate.refused \subseteq Alive
          /\ fate.listed \ Prints!IdsOf(list) \subseteq fate.removed \cup fate.refused
      BY <2>1 DEF ListStands
    <3>2. CASE Failed
      BY <1>6, <1>8, <1>11, <3>1, <3>2
    <3>3. CASE Done
      BY <1>3, <1>6, <1>8, <1>11, <2>3, <3>1, <3>3
    <3>. QED BY <1>5, <3>2, <3>3
  <2>5. PutStands(puts[i])'
    <3>1. q.load # editor'.load => editor'.stale
      BY <1>4, <1>7, <2>3
    <3>2. /\ q.at \notin {"read", "save"}
          /\ q.at \in {"prune", "pruned"} => list' = q.saved
          /\ q.at = "prune" => Prints!IdsOf(q.prints) \subseteq Prints!IdsOf(q.saved) \cup fate'.refused
      BY <1>6, <1>7, <1>8
    <3>3. puts'[i] = q
      BY <1>9
    <3>. QED BY <3>1, <3>2, <3>3 DEF PutStands
  <2>6. ASSUME ~editor'.stale PROVE EditorStands'
    <3>1. EditorStands
      BY <1>4, <2>1, <2>6 DEF ListStands
    <3>2. /\ Prints!IdsOf(editor.items) \ fate.refused \subseteq Alive
          /\ Prints!IdsOf(list) \subseteq Prints!IdsOf(editor.items) \cup fate.removed \cup fate.refused
          /\ editor.dirty
          /\ Prints!IdsOf(puts[i].prints) \subseteq Prints!IdsOf(editor.items) \cup fate.removed
          /\ Prints!IdsOf(editor.items) \subseteq Prints!IdsOf(puts[i].prints) \cup Fresh
      BY <3>1 DEF EditorStands
    <3>3. Prints!IdsOf(list') \subseteq Prints!IdsOf(editor.items) \cup fate'.removed \cup fate'.refused
      BY <1>3, <1>5, <1>6, <1>8, <3>2
    <3>4. Fresh \subseteq Prints!IdsOf(puts[i].prints) \cup Fresh'
      BY <1>3, <1>4, <1>5, <1>6 DEF Fresh
    <3>5. \A j \in DOMAIN puts' : puts'[j].prints = puts[i].prints
      BY <1>7, <1>9, <2>2
    <3>. QED BY <1>4, <1>6, <1>11, <3>2, <3>3, <3>4, <3>5 DEF EditorStands
  <2>7. \A j \in DOMAIN puts' : PutStands(puts[j])'
    BY <1>9, <2>2, <2>5
  <2>. QED BY <1>9, <2>1, <2>4, <2>6, <2>7 DEF ListStands
<1>. QED BY <1>10, <1>12, <1>13 DEF PrintsInv

LEMMA DeletedKeeps ==
  ASSUME PrintsInv, NEW i \in DOMAIN puts, puts[i].at = "prune", NEW p \in Prints!Unreferenced(puts[i]),
         photos' = [photos EXCEPT ![p] = "gone"],
         fate' = IF photos[p] = "young" THEN [fate EXCEPT !.hasty = fate.hasty \cup {p}] ELSE fate,
         UNCHANGED <<list, editor, posts, puts, saves, mixed>>
  PROVE  PrintsInv'
<1>1. PrintsTyped /\ PostsOwn
  BY DEF PrintsInv
<1>2. /\ p \in Photos /\ photos[p] \in {"young", "old"} /\ p \notin Prints!IdsOf(puts[i].saved)
      /\ p \in Prints!IdsOf(puts[i].previous) \/ photos[p] = "old"
  BY DEF Prints!Unreferenced
<1>3. photos[p] = "young" => p \in fate.listed
  BY <1>1, <1>2 DEF PostsOwn
<1>4. /\ photos' \in [Photos -> {"none", "young", "old", "gone"}]
      /\ photos'[p] = "gone" /\ \A x \in Photos : x # p => photos'[x] = photos[x]
  BY <1>1, <1>2 DEF PrintsTyped
<1>5. /\ DOMAIN fate' = DOMAIN fate /\ fate'.listed = fate.listed
      /\ fate'.removed = fate.removed /\ fate'.refused = fate.refused
      /\ fate'.hasty \subseteq fate.hasty \cup {p} /\ photos[p] # "young" => fate'.hasty = fate.hasty
  <2>1. DOMAIN fate = {"listed", "removed", "refused", "hasty"}
    BY <1>1 DEF PrintsTyped
  <2>2. CASE photos[p] = "young"
    BY <2>1, <2>2
  <2>3. CASE photos[p] # "young"
    BY <2>1, <2>3
  <2>. QED BY <2>2, <2>3
<1>6. Known' = Known /\ Fresh' = Fresh /\ Alive \ {p} \subseteq Alive'
  <2>1. Known' = Known
    BY <1>2, <1>4 DEF Known
  <2>2. p \notin Fresh /\ p \notin Fresh'
    BY <1>3, <1>4 DEF Fresh
  <2>3. \A x \in Photos : x # p => (x \in Fresh' <=> x \in Fresh)
    BY <1>4, <1>5 DEF Fresh
  <2>4. Alive \ {p} \subseteq Alive'
    BY <1>4 DEF Alive
  <2>5. Fresh \subseteq Photos /\ Fresh' \subseteq Photos
    BY DEF Fresh
  <2>. QED BY <2>1, <2>2, <2>3, <2>4, <2>5
<1>7. PrintsTyped'
  BY <1>1, <1>4, <1>5 DEF PrintsTyped
<1>8. PostsOwn'
  <2>1. ASSUME NEW r \in posts, r.at \in {"stored", "sent"} PROVE photos'[r.id] = photos[r.id]
    <3>1. r.id \in Photos
      BY <1>1 DEF PrintsTyped, Posting
    <3>2. r.id # p
      <4>1. fate.listed \subseteq Known
        BY <1>1 DEF PostsOwn
      <4>2. photos[p] # "young" \/ r.id # p
        BY <1>3, <4>1 DEF Known
      <4>3. /\ r.at = "stored" => photos[r.id] = "young"
            /\ r.at = "sent" => photos[r.id] = "none"
        BY <1>1 DEF PostsOwn
      <4>. QED BY <1>2, <2>1, <4>2, <4>3
    <3>. QED BY <1>4, <3>1, <3>2
  <2>2. fate'.hasty \subseteq fate.listed
    BY <1>1, <1>3, <1>5 DEF PostsOwn
  <2>. QED BY <1>1, <1>5, <1>6, <2>1, <2>2 DEF PostsOwn
<1>9. ASSUME ~mixed' PROVE ListStands'
  <2>1. ListStands
    BY <1>9 DEF PrintsInv
  <2>2. /\ list = puts[i].saved
        /\ Prints!IdsOf(puts[i].prints) \subseteq Prints!IdsOf(puts[i].saved) \cup fate.refused
    BY <2>1 DEF ListStands, PutStands
  <2>3. \A j \in DOMAIN puts : j = i
    <3>1. DOMAIN puts = 1..Len(puts) /\ Len(puts) \in Nat
      BY <1>1 DEF PrintsTyped
    <3>. QED BY <2>1, <3>1 DEF ListStands
  <2>4. Prints!IdsOf(list) \ fate.refused \subseteq Alive'
    BY <1>2, <1>6, <2>1, <2>2 DEF ListStands
  <2>5. ASSUME NEW j \in DOMAIN puts' PROVE PutStands(puts[j])'
    <3>1. PutStands(puts[i]) /\ j = i
      BY <2>1, <2>3 DEF ListStands
    <3>. QED BY <1>5, <3>1 DEF PutStands
  <2>6. ASSUME ~editor'.stale PROVE EditorStands'
    <3>1. EditorStands
      BY <2>1, <2>6 DEF ListStands
    <3>2. Prints!IdsOf(editor.items) \subseteq Prints!IdsOf(puts[i].prints) \cup Fresh
      BY <3>1 DEF EditorStands
    <3>3. p \notin Fresh
      BY <1>3 DEF Fresh
    <3>4. Prints!IdsOf(editor.items) \ fate.refused \subseteq Alive'
      BY <1>2, <1>6, <2>2, <3>1, <3>2, <3>3 DEF EditorStands
    <3>. QED BY <1>5, <1>6, <3>1, <3>4 DEF EditorStands
  <2>. QED BY <1>5, <2>1, <2>4, <2>5, <2>6 DEF ListStands
<1>. QED BY <1>7, <1>8, <1>9 DEF PrintsInv

LEMMA PruneKeeps ==
  ASSUME PrintsInv, NEW i \in DOMAIN puts, Prints!pruneUnreferencedShowcasePhotos(i) PROVE PrintsInv'
<1>1. PrintsTyped /\ PostsOwn
  BY DEF PrintsInv
<1>2. puts[i].at = "prune" /\ UNCHANGED <<list, editor, posts, saves, mixed>>
  BY DEF Prints!pruneUnreferencedShowcasePhotos
<1>3. CASE \E p \in Prints!Unreferenced(puts[i]) :
             /\ photos' = [photos EXCEPT ![p] = "gone"]
             /\ fate' = IF photos[p] = "young" THEN [fate EXCEPT !.hasty = fate.hasty \cup {p}] ELSE fate
             /\ UNCHANGED puts
  BY <1>2, <1>3, DeletedKeeps
<1>4. CASE puts' = [puts EXCEPT ![i].at = "pruned"] /\ UNCHANGED <<photos, fate>>
  <2>1. puts[i] \in Saving
    BY <1>1 DEF PrintsTyped
  <2> DEFINE q == [puts[i] EXCEPT !.at = "pruned"]
  <2>2. /\ q \in Saving /\ q.at = "pruned" /\ q.prints = puts[i].prints /\ q.saved = puts[i].saved
        /\ q.load = puts[i].load /\ q.previous = puts[i].previous
    BY <2>1 DEF Saving
  <2>3. puts' = [puts EXCEPT ![i] = q]
    BY <1>4
  <2>. HIDE DEF q
  <2>4. /\ puts' \in Seq(Saving) /\ Len(puts') = Len(puts) /\ DOMAIN puts' = DOMAIN puts /\ puts'[i] = q
        /\ \A j \in DOMAIN puts : j # i => puts'[j] = puts[j]
    BY <1>1, <2>2, <2>3, PutChanges
  <2>5. UNCHANGED <<Known, Alive, Fresh>>
    BY <1>2, <1>4 DEF Known, Alive, Fresh
  <2>6. PrintsTyped'
    BY <1>1, <1>2, <1>4, <2>4 DEF PrintsTyped
  <2>7. PostsOwn'
    <3>1. ASSUME NEW j \in DOMAIN puts'
          PROVE  /\ Prints!IdsOf(puts'[j].prints) \subseteq Known'
                 /\ Prints!IdsOf(puts'[j].previous) \subseteq fate'.listed
                 /\ Prints!IdsOf(puts'[j].saved) \subseteq fate'.listed
      BY <1>1, <1>4, <2>2, <2>4, <2>5 DEF PostsOwn
    <3>. QED BY <1>1, <1>2, <1>4, <2>5, <3>1 DEF PostsOwn
  <2>8. ASSUME ~mixed' PROVE ListStands'
    <3>1. ListStands
      BY <1>2, <2>8 DEF PrintsInv
    <3>2. ASSUME NEW j \in DOMAIN puts' PROVE PutStands(puts[j])'
      <4>1. PutStands(puts[j]) /\ PutStands(puts[i])
        BY <2>4, <3>1 DEF ListStands
      <4>2. CASE j = i
        BY <1>2, <1>4, <2>2, <2>4, <4>1, <4>2 DEF PutStands
      <4>3. CASE j # i
        BY <1>2, <1>4, <2>4, <2>5, <4>1, <4>3 DEF PutStands
      <4>. QED BY <4>2, <4>3
    <3>3. \A j \in DOMAIN puts' : PutStands(puts[j])'
      BY <3>2
    <3>4. ASSUME ~editor'.stale PROVE EditorStands'
      <4>1. EditorStands
        BY <1>2, <3>1, <3>4 DEF ListStands
      <4>2. \A j \in DOMAIN puts' : puts'[j].prints = puts[j].prints
        BY <2>2, <2>4
      <4>. QED BY <1>2, <1>4, <2>4, <2>5, <4>1, <4>2 DEF EditorStands
    <3>. QED BY <1>2, <1>4, <2>4, <2>5, <3>1, <3>3, <3>4 DEF ListStands
  <2>. QED BY <2>6, <2>7, <2>8 DEF PrintsInv
<1>. QED BY <1>3, <1>4 DEF Prints!pruneUnreferencedShowcasePhotos

\* The server dies: its requests fail, and no photo changes.
LEMMA CrashKeeps == PrintsInv /\ Prints!Crash => PrintsInv'
<1>. SUFFICES ASSUME PrintsInv, Prints!Crash PROVE PrintsInv'
  OBVIOUS
<1>1. PrintsTyped /\ PostsOwn
  BY DEF PrintsInv
<1>2. /\ posts' = {[r EXCEPT !.at = "failed"] : r \in posts}
      /\ puts' = [i \in DOMAIN puts |-> [puts[i] EXCEPT !.at = "failed"]]
      /\ UNCHANGED <<photos, list, editor, saves, mixed, fate>>
  BY DEF Prints!Crash
<1>3. /\ \A r \in posts' : r \in Posting /\ r.at = "failed" /\ \E q \in posts : q.id = r.id
      /\ \A q \in posts : \E r \in posts' : q.id = r.id
      /\ \A r, q \in posts' : r.id = q.id => r = q
  <2>1. posts \subseteq Posting
    BY <1>1 DEF PrintsTyped
  <2>2. \A q \in posts : LET r == [q EXCEPT !.at = "failed"]
                         IN r \in Posting /\ r.at = "failed" /\ r.id = q.id
    BY <2>1 DEF Posting
  <2>3. \A r, q \in posts : r.id = q.id => r = q
    BY <1>1 DEF PostsOwn
  <2>4. \A r \in posts' : r \in Posting /\ r.at = "failed" /\ \E q \in posts : q.id = r.id
    BY <1>2, <2>2
  <2>5. \A q \in posts : \E r \in posts' : q.id = r.id
    BY <1>2, <2>2
  <2>6. \A r, q \in posts' : r.id = q.id => r = q
    <3>1. SUFFICES ASSUME NEW r \in posts', NEW q \in posts', r.id = q.id PROVE r = q
      OBVIOUS
    <3>2. PICK r0 \in posts : r = [r0 EXCEPT !.at = "failed"]
      BY <1>2
    <3>3. PICK q0 \in posts : q = [q0 EXCEPT !.at = "failed"]
      BY <1>2
    <3>4. r0 = q0
      BY <2>2, <2>3, <3>1, <3>2, <3>3
    <3>. QED BY <3>2, <3>3, <3>4
  <2>. QED BY <2>4, <2>5, <2>6
<1>4. /\ puts \in Seq(Saving) /\ DOMAIN puts = 1..Len(puts) /\ Len(puts) \in Nat
      /\ \A i \in DOMAIN puts : puts[i] \in Saving
  BY <1>1 DEF PrintsTyped
<1>5. /\ puts' \in Seq(Saving) /\ Len(puts') = Len(puts) /\ DOMAIN puts' = DOMAIN puts
      /\ \A i \in DOMAIN puts : /\ puts'[i].at = "failed" /\ puts'[i].prints = puts[i].prints
                                /\ puts'[i].previous = puts[i].previous /\ puts'[i].saved = puts[i].saved
                                /\ puts'[i].load = puts[i].load
  <2>1. \A i \in DOMAIN puts : [puts[i] EXCEPT !.at = "failed"] \in Saving
    BY <1>4 DEF Saving
  <2>2. puts' \in [1..Len(puts) -> Saving]
    BY <1>2, <1>4, <2>1
  <2>3. puts' \in Seq(Saving) /\ Len(puts') = Len(puts)
    BY <1>4, <2>2, SeqDef, LenProperties
  <2>4. \A i \in DOMAIN puts : /\ puts'[i].at = "failed" /\ puts'[i].prints = puts[i].prints
                               /\ puts'[i].previous = puts[i].previous /\ puts'[i].saved = puts[i].saved
                               /\ puts'[i].load = puts[i].load
    BY <1>2, <1>4 DEF Saving
  <2>. QED BY <1>2, <2>3, <2>4
<1>6. UNCHANGED <<Alive, Fresh, Known>>
  <2>1. UNCHANGED <<Alive, Fresh>>
    BY <1>2 DEF Alive, Fresh
  <2>2. \A p \in Photos : (\A r \in posts' : r.id # p) <=> (\A r \in posts : r.id # p)
    BY <1>3
  <2>3. Known' = Known
    BY <1>2, <2>2 DEF Known
  <2>. QED BY <2>1, <2>3
<1>7. PrintsTyped'
  BY <1>1, <1>2, <1>3, <1>5 DEF PrintsTyped
<1>8. PostsOwn'
  <2>1. ASSUME NEW j \in DOMAIN puts'
        PROVE  /\ Prints!IdsOf(puts'[j].prints) \subseteq Known'
               /\ Prints!IdsOf(puts'[j].previous) \subseteq fate'.listed
               /\ Prints!IdsOf(puts'[j].saved) \subseteq fate'.listed
    BY <1>1, <1>2, <1>5, <1>6 DEF PostsOwn
  <2>2. \A r \in posts' : /\ r.at = "stored" => photos'[r.id] = "young"
                          /\ r.at = "sent" => photos'[r.id] = "none"
    BY <1>3
  <2>. QED BY <1>1, <1>2, <1>3, <1>6, <2>1, <2>2 DEF PostsOwn
<1>9. ASSUME ~mixed' PROVE ListStands'
  <2>1. ListStands
    BY <1>2, <1>9 DEF PrintsInv
  <2>2. ASSUME NEW j \in DOMAIN puts' PROVE PutStands(puts[j])'
    <3>1. PutStands(puts[j])
      BY <1>5, <2>1 DEF ListStands
    <3>. QED BY <1>2, <1>5, <3>1 DEF PutStands
  <2>3. ASSUME ~editor'.stale PROVE EditorStands'
    <3>1. EditorStands
      BY <1>2, <2>1, <2>3 DEF ListStands
    <3>. QED BY <1>2, <1>5, <1>6, <3>1 DEF EditorStands
  <2>4. \A j \in DOMAIN puts' : PutStands(puts[j])'
    BY <2>2
  <2>. QED BY <1>2, <1>5, <1>6, <2>1, <2>3, <2>4 DEF ListStands
<1>. QED BY <1>7, <1>8, <1>9 DEF PrintsInv

LEMMA HourKeeps == PrintsInv /\ Prints!Hour => PrintsInv'
<1>. SUFFICES ASSUME PrintsInv, Prints!Hour PROVE PrintsInv'
  OBVIOUS
<1>1. PrintsTyped /\ PostsOwn
  BY DEF PrintsInv
<1>2. /\ puts = <<>> /\ posts = {}
      /\ photos' = [p \in Photos |-> IF photos[p] = "young" THEN "old" ELSE photos[p]]
      /\ UNCHANGED <<list, editor, posts, puts, saves, mixed, fate>>
  BY DEF Prints!Hour
<1>3. photos' \in [Photos -> {"none", "young", "old", "gone"}]
  BY <1>1, <1>2 DEF PrintsTyped
<1>4. UNCHANGED <<Alive, Known>> /\ DOMAIN puts = {} /\ DOMAIN puts' = {} /\ Len(puts) = 0
  <2>1. \A p \in Photos : /\ photos'[p] \in {"young", "old"} <=> photos[p] \in {"young", "old"}
                          /\ photos'[p] # "none" <=> photos[p] # "none"
    BY <1>2
  <2>. QED BY <1>2, <2>1 DEF Alive, Known
<1>5. PrintsTyped'
  BY <1>1, <1>2, <1>3 DEF PrintsTyped
<1>6. PostsOwn'
  BY <1>1, <1>2, <1>4 DEF PostsOwn
<1>7. ASSUME ~mixed' PROVE ListStands'
  <2>1. ListStands
    BY <1>2, <1>7 DEF PrintsInv
  <2>2. ASSUME ~editor'.stale PROVE EditorStands'
    <3>1. EditorStands
      BY <1>2, <2>1, <2>2 DEF ListStands
    <3>. QED BY <1>2, <1>4, <3>1 DEF EditorStands
  <2>. QED BY <1>2, <1>4, <2>1, <2>2 DEF ListStands
<1>. QED BY <1>5, <1>6, <1>7 DEF PrintsInv

LEMMA PrintsStep == PrintsInv /\ [Prints!Next]_showcaseVars => PrintsInv'
<1>1. CASE Prints!Next
  BY <1>1, LoadKeeps, Edited, AcceptKeeps, SaveKept, CrashKeeps, HourKeeps, UploadKeeps, PostKeeps,
     AnswerKeeps, ReadKeeps, SavedKeeps, PruneKeeps DEF Prints!Next
<1>2. ASSUME PrintsInv, UNCHANGED showcaseVars PROVE PrintsInv'
  <2>1. UNCHANGED <<photos, list, editor, posts, puts, saves, mixed, fate>>
    BY <1>2 DEF showcaseVars
  <2>2. UNCHANGED <<Alive, Known, Fresh>>
    BY <2>1 DEF Alive, Known, Fresh
  <2>3. PrintsTyped' /\ PostsOwn'
    BY <1>2, <2>1, <2>2 DEF PrintsInv, PrintsTyped, PostsOwn
  <2>4. ListStands => ListStands'
    <3>1. \A j \in DOMAIN puts : PutStands(puts[j]) => PutStands(puts[j])'
      BY <2>1, <2>2 DEF PutStands
    <3>2. EditorStands => EditorStands'
      BY <2>1, <2>2 DEF EditorStands
    <3>. QED BY <2>1, <2>2, <3>1, <3>2 DEF ListStands
  <2>. QED BY <1>2, <2>1, <2>3, <2>4 DEF PrintsInv
<1>. QED BY <1>1, <1>2

LEMMA PrintsStay == PrintsInv => Prints!ShowcaseTrue
<1>. SUFFICES ASSUME PrintsInv PROVE Prints!ShowcaseTrue
  OBVIOUS
<1>1. PrintsTyped /\ PostsOwn
  BY DEF PrintsInv
<1>2. Prints!TypeOK
  BY <1>1 DEF PrintsTyped, Prints!TypeOK
<1>3. Prints!PhotoBehindList
  BY DEF PrintsInv, ListStands, Alive, Prints!PhotoBehindList
<1>4. Prints!NothingLost
  BY DEF PrintsInv, ListStands, Prints!NothingLost
<1>5. Prints!GraceKept
  BY <1>1 DEF PostsOwn, Prints!GraceKept
<1>6. Prints!EditorTrue
  BY DEF PrintsInv, ListStands, EditorStands, Prints!EditorTrue
<1>. QED BY <1>2, <1>3, <1>4, <1>5, <1>6 DEF Prints!ShowcaseTrue

-----------------------------------------------------------------------------
(* The operator's own materials and their profiles.                        *)

Preset == [generic : {Null, "g1"}, density : {Null, 1, 2}]
Attempt == [made : Preset, status : {"PENDING", "ACTIVE", "FAILED", "RETIRED"}]
Telling == [live : Preset \cup {Null}, pending : Preset \cup {Null}, lastError : BOOLEAN, busy : BOOLEAN, version : Int]
Texted == {r \in [name : {Null, "name"}, guide : {Null, "guide"}] : r.guide # Null => r.name # Null}

\* What the server would say now, and what it has said to those who will hear it, unless a
\* poll is lost, or whoever is shown.
NowTold == Material!getSlicerProfilesState(attempts, other)
Heard == {c \in calls : c.at = "answered" /\ c.kind \in {"poll", "preset", "remove"}}
Sure == {shown} \cup {c.body : c \in {d \in Heard : d.kind # "poll"}}
Covered(t) == t.busy \/ t = NowTold \/ \E u \in Sure : u.version > t.version

MaterialTyped ==
  /\ attempts \in Seq(Attempt) /\ other \in BOOLEAN /\ stored \in Texted /\ opened \in Texted
  /\ shown \in Telling /\ box \in [generic : {Null, "g1"}, density : {Null, 1}]
  /\ sent \in 0..MaxSent /\ lost \in 0..MaxLost

CallsTyped ==
  \A c \in calls :
    /\ c.kind \in {"poll", "preset", "remove", "name", "guide"}
    /\ c.at = "sent" /\ c.kind = "preset" => c.body \in Preset
    /\ c.at \in {"sent", "read"} /\ c.kind = "name" => c.body \in {Null, "name"}
    /\ c.at \in {"sent", "read"} /\ c.kind = "guide" => c.body \in {Null, "guide"}
    /\ c.at = "read" => c.kind \in {"name", "guide"} /\ c.row \in Texted
    /\ c \in Heard => c.body \in Telling \/ (c.kind = "preset" /\ c.body = Null)

\* At most one preset is live; the boxes hold nothing that nobody chose; and unless an
\* answer went astray, or is about to, what was said of the slot stands, or is going to
\* be followed by something later.
MaterialStands ==
  /\ \A i, j \in Material!Where(attempts, "ACTIVE") : i = j
  /\ ~touched => box.density = Null
  /\ ~astray /\ (\A c \in Heard : c.kind = "preset" => c.body # Null) =>
       \A t \in {shown} \cup {c.body : c \in Heard} : Covered(t)

MaterialInv == MaterialTyped /\ CallsTyped /\ MaterialStands /\ astray \in BOOLEAN /\ pending \in BOOLEAN

LEMMA Largest ==
  ASSUME NEW n \in Nat, NEW B \in SUBSET (1..n), B # {}
  PROVE  Material!Max(B) \in B /\ \A m \in B : m <= Material!Max(B)
<1>0. B \subseteq Int
  OBVIOUS
<1> DEFINE D == {n - m : m \in B}
<1>1. D \in SUBSET Nat /\ D # {}
  <2>1. \A m \in B : n - m \in Nat
    OBVIOUS
  <2>. QED BY <2>1
<1>2. PICK d \in D : \A m \in 0..(d - 1) : m \notin D
  BY <1>1, Smallest
<1>3. PICK x \in B : d = n - x
  OBVIOUS
<1>4. \A m \in B : x >= m
  <2>1. SUFFICES ASSUME NEW m \in B, m > x PROVE FALSE
    <3>1. \A m \in B : m \in Int /\ x \in Int
      BY <1>0, Zenon
    <3>. QED BY <3>1
  <2>2. n - m \in 0..(d - 1) /\ n - m \in D
    BY <1>3, <2>1
  <2>. QED BY <1>2, <2>2
<1>5. Material!Max(B) \in B /\ \A m \in B : Material!Max(B) >= m
  BY <1>4 DEF Material!Max
<1>. QED BY <1>5

LEMMA WhereAre ==
  ASSUME NEW rows \in Seq(Attempt), NEW s
  PROVE  /\ Material!Where(rows, s) = {i \in 1..Len(rows) : rows[i].status = s}
         /\ Material!Where(rows, s) \in SUBSET (1..Len(rows)) /\ IsFiniteSet(Material!Where(rows, s))
         /\ Material!Where(rows, s) # {} =>
              /\ Material!Max(Material!Where(rows, s)) \in Material!Where(rows, s)
              /\ \A i \in Material!Where(rows, s) : i <= Material!Max(Material!Where(rows, s))
<1> DEFINE W == Material!Where(rows, s)
<1>1. W = {i \in 1..Len(rows) : rows[i].status = s} /\ Len(rows) \in Nat
  BY DEF Material!Where
<1>2. W \in SUBSET (1..Len(rows)) /\ IsFiniteSet(W)
  <2>1. W \in SUBSET (1..Len(rows)) /\ IsFiniteSet(1..Len(rows))
    BY <1>1, FS_Interval
  <2>. QED BY <2>1, FS_Subset
<1>3. W # {} => Material!Max(W) \in W /\ \A i \in W : i <= Material!Max(W)
  BY <1>1, <1>2, Largest
<1>. QED BY <1>1, <1>2, <1>3

LEMMA MaterialCounts == \A S : Material!Cardinality(S) = Cardinality(S)
  BY DEF Material!Cardinality, Cardinality

LEMMA ToldIs ==
  ASSUME NEW rows \in Seq(Attempt), NEW o \in BOOLEAN
  PROVE  LET t == Material!getSlicerProfilesState(rows, o)
             tested == Material!Where(rows, "PENDING")
             steps == 2 * Len(rows) - Cardinality(tested) + Cardinality(Material!Where(rows, "RETIRED"))
         IN /\ t \in Telling
            /\ t.busy <=> o \/ tested # {}
            /\ t.pending # Null => tested # {} /\ t.pending = rows[Material!Max(tested)].made
            /\ t.lastError = Material!failedLater(rows)
            /\ t.version = IF o THEN steps ELSE steps + 1
            /\ steps \in Int
<1> DEFINE t == Material!getSlicerProfilesState(rows, o)
           W(s) == Material!Where(rows, s)
           Made(s) == IF W(s) = {} THEN Null ELSE rows[Material!Max(W(s))].made
           steps == 2 * Len(rows) - Cardinality(W("PENDING")) + Cardinality(W("RETIRED"))
<1>1. \A s : Cardinality(W(s)) \in Nat /\ (W(s) # {} => Material!Max(W(s)) \in 1..Len(rows))
  BY WhereAre, FS_CardinalityType
<1>2. \A s : Made(s) \in Preset \cup {Null}
  <2>1. \A i \in 1..Len(rows) : rows[i].made \in Preset
    <3>1. \A i \in 1..Len(rows) : rows[i] \in Attempt
      OBVIOUS
    <3>. QED BY <3>1 DEF Attempt
  <2>. QED BY <1>1, <2>1
<1>3. t = [live |-> Made("ACTIVE"), pending |-> Made("PENDING"), lastError |-> Material!failedLater(rows),
           busy |-> o \/ W("PENDING") # {}, version |-> IF o THEN steps ELSE steps + 1]
  BY MaterialCounts DEF Material!getSlicerProfilesState
<1>4. steps \in Int
  BY <1>1
<1>5. Material!failedLater(rows) \in BOOLEAN
  BY DEF Material!failedLater
<1>. HIDE DEF t, W, steps
<1>6. /\ t.live = Made("ACTIVE") /\ t.pending = Made("PENDING") /\ t.lastError = Material!failedLater(rows)
      /\ t.busy = (o \/ W("PENDING") # {}) /\ t.version = IF o THEN steps ELSE steps + 1
  BY <1>3
<1>7. t \in Telling
  BY <1>2, <1>3, <1>4, <1>5 DEF Telling
<1>. QED BY <1>4, <1>6, <1>7 DEF t, W, steps

LEMMA MaterialInit == Material!Init => MaterialInv
<1>. SUFFICES ASSUME Material!Init PROVE MaterialInv
  OBVIOUS
<1>1. /\ other = TRUE /\ stored = [name |-> "name", guide |-> "guide"] /\ opened = stored
      /\ shown = NowTold /\ box = [generic |-> Null, density |-> Null] /\ pending = FALSE /\ calls = {}
      /\ sent = 0 /\ lost = 0 /\ astray = FALSE
  BY DEF Material!Init, Material!Boxes, NowTold
<1>2. attempts \in Seq(Attempt) /\ Len(attempts) <= 1
  <2>1. <<>> \in Seq(Attempt) /\ Len(<<>>) = 0
    OBVIOUS
  <2>2. ASSUME NEW f \in {[generic |-> Null, density |-> 2]}, NEW s \in {"ACTIVE", "FAILED"}
        PROVE  <<[made |-> f, status |-> s]>> \in Seq(Attempt) /\ Len(<<[made |-> f, status |-> s]>>) = 1
    <3>1. f \in Preset
      BY DEF Preset
    <3>2. [made |-> f, status |-> s] \in Attempt
      BY <3>1 DEF Attempt
    <3>. QED BY <3>2
  <2>3. CASE attempts = <<>>
    BY <2>1, <2>3
  <2>4. CASE \E f \in {[generic |-> Null, density |-> 2]}, s \in {"ACTIVE", "FAILED"} :
               attempts = <<[made |-> f, status |-> s]>>
    <3>1. PICK f \in {[generic |-> Null, density |-> 2]}, s \in {"ACTIVE", "FAILED"} :
                 attempts = <<[made |-> f, status |-> s]>>
      BY <2>4
    <3>2. attempts \in Seq(Attempt) /\ Len(attempts) = 1
      BY <2>2, <3>1, Zenon
    <3>. QED BY <3>2
  <2>. QED BY <2>3, <2>4 DEF Material!Init
<1>3. shown \in Telling
  BY <1>1, <1>2, ToldIs DEF NowTold
<1>4. stored \in Texted /\ box \in [generic : {Null, "g1"}, density : {Null, 1}] /\ box.density = Null
  BY <1>1, MaterialsAssumption DEF Texted
<1>5. Heard = {} /\ CallsTyped
  BY <1>1 DEF Heard, CallsTyped
<1>6. \A i, j \in Material!Where(attempts, "ACTIVE") : i = j
  BY <1>2, WhereAre
<1>7. MaterialTyped /\ MaterialStands
  BY <1>1, <1>2, <1>3, <1>4, <1>5, <1>6, EditorsAssumption DEF MaterialTyped, MaterialStands, Covered
<1>. QED BY <1>1, <1>5, <1>7 DEF MaterialInv

\* A preset that is stored, or a live one that retires, is a step of the server.
LEMMA StoredIsLater ==
  ASSUME NEW rows \in Seq(Attempt), NEW r \in Attempt, NEW o \in BOOLEAN
  PROVE  /\ Append(rows, r) \in Seq(Attempt)
         /\ Material!getSlicerProfilesState(Append(rows, r), o).version
              > Material!getSlicerProfilesState(rows, o).version
         /\ r.status # "ACTIVE" => Material!Where(Append(rows, r), "ACTIVE") = Material!Where(rows, "ACTIVE")
<1> DEFINE new == Append(rows, r)
           n == Len(rows)
<1>1. /\ new \in Seq(Attempt) /\ Len(new) = n + 1 /\ n \in Nat /\ new[n + 1] = r
      /\ \A i \in 1..n : new[i] = rows[i]
  OBVIOUS
<1>. HIDE DEF new
<1>2. \A s : Material!Where(new, s) = Material!Where(rows, s) \cup (IF r.status = s THEN {n + 1} ELSE {})
  <2>1. TAKE s
  <2>2. /\ Material!Where(new, s) = {i \in 1..(n + 1) : new[i].status = s}
        /\ Material!Where(rows, s) = {i \in 1..n : rows[i].status = s}
    BY <1>1, WhereAre
  <2>3. 1..(n + 1) = (1..n) \cup {n + 1} /\ n + 1 \notin 1..n
    BY <1>1
  <2>. QED BY <1>1, <2>2, <2>3
<1>3. \A s : /\ IsFiniteSet(Material!Where(rows, s)) /\ n + 1 \notin Material!Where(rows, s)
             /\ Cardinality(Material!Where(rows, s)) \in Nat
             /\ Cardinality(Material!Where(new, s))
                  = Cardinality(Material!Where(rows, s)) + (IF r.status = s THEN 1 ELSE 0)
  <2>1. TAKE s
  <2>2. IsFiniteSet(Material!Where(rows, s)) /\ n + 1 \notin Material!Where(rows, s)
    BY <1>1, WhereAre
  <2>3. /\ Cardinality(Material!Where(rows, s)) \in Nat
        /\ Cardinality(Material!Where(rows, s) \cup {n + 1}) = Cardinality(Material!Where(rows, s)) + 1
    BY <2>2, FS_CardinalityType, FS_AddElement
  <2>4. CASE r.status = s
    <3>1. Material!Where(new, s) = Material!Where(rows, s) \cup {n + 1}
      BY <1>2, <2>4
    <3>. QED BY <2>2, <2>3, <2>4, <3>1
  <2>5. CASE r.status # s
    <3>1. Material!Where(new, s) = Material!Where(rows, s)
      BY <1>2, <2>5
    <3>. QED BY <2>2, <2>3, <2>5, <3>1
  <2>. QED BY <2>4, <2>5
<1>4. /\ LET steps == 2 * n - Cardinality(Material!Where(rows, "PENDING")) + Cardinality(Material!Where(rows, "RETIRED"))
         IN Material!getSlicerProfilesState(rows, o).version = IF o THEN steps ELSE steps + 1
      /\ LET steps == 2 * (n + 1) - Cardinality(Material!Where(new, "PENDING")) + Cardinality(Material!Where(new, "RETIRED"))
         IN Material!getSlicerProfilesState(new, o).version = IF o THEN steps ELSE steps + 1
  BY <1>1, ToldIs
<1>5. Material!getSlicerProfilesState(new, o).version > Material!getSlicerProfilesState(rows, o).version
  BY <1>1, <1>3, <1>4
<1>6. r.status # "ACTIVE" => Material!Where(new, "ACTIVE") = Material!Where(rows, "ACTIVE")
  BY <1>2
<1>. QED BY <1>1, <1>5, <1>6 DEF new

Retired(rows) ==
  [i \in DOMAIN rows |-> IF rows[i].status = "ACTIVE" THEN [rows[i] EXCEPT !.status = "RETIRED"] ELSE rows[i]]

LEMMA RetiredIsLater ==
  ASSUME NEW rows \in Seq(Attempt), NEW o \in BOOLEAN
  PROVE  /\ Retired(rows) \in Seq(Attempt) /\ Material!Where(Retired(rows), "ACTIVE") = {}
         /\ \/ Retired(rows) = rows
            \/ Material!getSlicerProfilesState(Retired(rows), o).version
                 > Material!getSlicerProfilesState(rows, o).version
<1> DEFINE new == Retired(rows)
           n == Len(rows)
<1>1. n \in Nat /\ DOMAIN rows = 1..n /\ \A i \in 1..n : rows[i] \in Attempt
  OBVIOUS
<1>2. \A i \in 1..n : /\ new[i] \in Attempt /\ new[i].status # "ACTIVE"
                      /\ rows[i].status = "ACTIVE" => new[i].status = "RETIRED"
                      /\ rows[i].status # "ACTIVE" => new[i] = rows[i]
  BY <1>1 DEF Attempt, Retired
<1>3. new \in [1..n -> Attempt] /\ DOMAIN new = 1..n
  BY <1>1, <1>2 DEF Retired
<1>. HIDE DEF new
<1>4. new \in Seq(Attempt) /\ Len(new) = n
  BY <1>1, <1>3, SeqDef, LenProperties
<1>5. \A s : Material!Where(new, s) = {i \in 1..n : new[i].status = s} /\ Material!Where(rows, s) = {i \in 1..n : rows[i].status = s}
  BY <1>4, WhereAre
<1>6. /\ Material!Where(new, "ACTIVE") = {} /\ Material!Where(new, "PENDING") = Material!Where(rows, "PENDING")
      /\ Material!Where(rows, "RETIRED") \subseteq Material!Where(new, "RETIRED")
      /\ Material!Where(rows, "RETIRED") = Material!Where(new, "RETIRED") => Material!Where(rows, "ACTIVE") = {}
  <2>1. Material!Where(new, "ACTIVE") = {} /\ Material!Where(new, "PENDING") = Material!Where(rows, "PENDING")
    <3>1. \A i \in 1..n : new[i].status # "ACTIVE" /\ (new[i].status = "PENDING" <=> rows[i].status = "PENDING")
      BY <1>2
    <3>. QED BY <1>5, <3>1
  <2>2. Material!Where(rows, "RETIRED") \subseteq Material!Where(new, "RETIRED")
    BY <1>2, <1>5
  <2>3. \A i \in Material!Where(rows, "ACTIVE") :
          i \in Material!Where(new, "RETIRED") /\ i \notin Material!Where(rows, "RETIRED")
    BY <1>2, <1>5
  <2>. QED BY <2>1, <2>2, <2>3
<1>7. CASE Material!Where(rows, "ACTIVE") = {}
  <2>1. \A i \in 1..n : new[i] = rows[i]
    BY <1>2, <1>5, <1>7
  <2>2. new = rows
    BY <1>1, <1>3, <2>1
  <2>. QED BY <1>4, <1>6, <2>2 DEF new
<1>8. CASE Material!Where(rows, "ACTIVE") # {}
  <2>1. /\ IsFiniteSet(Material!Where(new, "RETIRED")) /\ IsFiniteSet(Material!Where(rows, "RETIRED"))
        /\ IsFiniteSet(Material!Where(rows, "PENDING"))
    BY <1>4, WhereAre
  <2>2. /\ Cardinality(Material!Where(new, "RETIRED")) \in Nat /\ Cardinality(Material!Where(rows, "RETIRED")) \in Nat
        /\ Cardinality(Material!Where(rows, "PENDING")) \in Nat
        /\ Cardinality(Material!Where(rows, "RETIRED")) <= Cardinality(Material!Where(new, "RETIRED"))
        /\ Cardinality(Material!Where(rows, "RETIRED")) # Cardinality(Material!Where(new, "RETIRED"))
    BY <1>6, <1>8, <2>1, FS_CardinalityType, FS_Subset
  <2>3. /\ LET steps == 2 * n - Cardinality(Material!Where(rows, "PENDING")) + Cardinality(Material!Where(rows, "RETIRED"))
           IN Material!getSlicerProfilesState(rows, o).version = IF o THEN steps ELSE steps + 1
        /\ LET steps == 2 * n - Cardinality(Material!Where(new, "PENDING")) + Cardinality(Material!Where(new, "RETIRED"))
           IN Material!getSlicerProfilesState(new, o).version = IF o THEN steps ELSE steps + 1
    BY <1>4, ToldIs
  <2>4. Material!getSlicerProfilesState(new, o).version > Material!getSlicerProfilesState(rows, o).version
    BY <1>1, <1>6, <2>2, <2>3
  <2>. QED BY <1>4, <1>6, <2>4 DEF new
<1>. QED BY <1>7, <1>8

\* Where nothing that is shown or answered changes, and no state of the server.
LEMMA NothingTold ==
  ASSUME MaterialStands, UNCHANGED <<attempts, other, shown>>, ~astray' => ~astray /\ Heard' = Heard,
         ~touched' => box'.density = Null
  PROVE  MaterialStands'
<1>1. NowTold' = NowTold
  BY DEF NowTold
<1>2. ~astray' => Heard' = Heard /\ Sure' = Sure
  BY DEF Sure
<1>3. \A i, j \in Material!Where(attempts', "ACTIVE") : i = j
  BY DEF MaterialStands
<1>4. ASSUME ~astray', \A c \in Heard' : c.kind = "preset" => c.body # Null
      PROVE  \A t \in {shown'} \cup {c.body : c \in Heard'} : Covered(t)'
  <2>1. \A t : Covered(t) => Covered(t)'
    BY <1>1, <1>2, <1>4 DEF Covered
  <2>2. \A t \in {shown} \cup {c.body : c \in Heard} : Covered(t)
    BY <1>2, <1>4 DEF MaterialStands
  <2>. QED BY <1>2, <1>4, <2>1, <2>2
<1>. QED BY <1>3, <1>4 DEF MaterialStands

\* Where a call is answered with the state of the server as it is then.
LEMMA Answering ==
  ASSUME MaterialInv, NEW c \in calls, c.at = "sent", c.kind \in {"poll", "remove", "preset"}, NEW b,
         calls' = (calls \ {c}) \cup {[kind |-> c.kind, at |-> "answered", body |-> b]},
         UNCHANGED <<other, shown, box, touched, astray>>,
         b = NowTold' \/ (c.kind = "preset" /\ b = Null),
         \/ attempts' = attempts
         \/ c.kind = "preset" /\ b = Null
         \/ b = NowTold' /\ c.kind # "poll" /\ NowTold'.version > NowTold.version,
         attempts' \in Seq(Attempt),
         \A i, j \in Material!Where(attempts', "ACTIVE") : i = j
  PROVE  CallsTyped' /\ MaterialStands'
<1> DEFINE a == [kind |-> c.kind, at |-> "answered", body |-> b]
<1>1. a.kind = c.kind /\ a.at = "answered" /\ a.body = b
  OBVIOUS
<1>. HIDE DEF a
<1>2. calls' = (calls \ {c}) \cup {a}
  BY DEF a
<1>3. NowTold' \in Telling
  <2>1. other' \in BOOLEAN
    BY DEF MaterialInv, MaterialTyped
  <2>. QED BY <2>1, ToldIs DEF NowTold
<1>4. Heard' = Heard \cup {a}
  BY <1>1, <1>2 DEF Heard
<1>5. CallsTyped'
  <2>1. ASSUME NEW d \in calls', d = a
        PROVE  /\ d.kind \in {"poll", "preset", "remove", "name", "guide"} /\ d.at = "answered"
               /\ d.body \in Telling \/ (d.kind = "preset" /\ d.body = Null)
    BY <1>1, <1>3, <2>1
  <2>2. \A d \in calls' : d = a \/ (d \in calls /\ (d \in Heard' <=> d \in Heard))
    BY <1>1, <1>2 DEF Heard
  <2>3. CallsTyped
    BY DEF MaterialInv
  <2>. QED BY <2>1, <2>2, <2>3 DEF CallsTyped
<1>6. ASSUME ~astray', \A d \in Heard' : d.kind = "preset" => d.body # Null
      PROVE  \A t \in {shown'} \cup {d.body : d \in Heard'} : Covered(t)'
  <2>1. \A t \in {shown} \cup {d.body : d \in Heard} : Covered(t)
    BY <1>4, <1>6 DEF MaterialInv, MaterialStands
  <2>2. b = NowTold'
    BY <1>1, <1>4, <1>6
  <2>3. Sure \subseteq Sure' /\ (c.kind # "poll" => b \in Sure')
    BY <1>1, <1>4 DEF Sure
  <2>4. Covered(b)'
    BY <2>2 DEF Covered
  <2>5. ASSUME NEW t, Covered(t) PROVE Covered(t)'
    <3>1. CASE t.busy
      BY <3>1 DEF Covered
    <3>2. CASE \E u \in Sure : u.version > t.version
      BY <2>3, <3>2 DEF Covered
    <3>3. CASE t = NowTold
      <4>1. CASE attempts' = attempts
        <5>1. NowTold' = NowTold
          BY <4>1 DEF NowTold
        <5>. QED BY <3>3, <5>1 DEF Covered
      <4>2. CASE c.kind = "preset" /\ b = Null
        BY <1>1, <1>4, <1>6, <4>2
      <4>3. CASE c.kind # "poll" /\ NowTold'.version > NowTold.version
        BY <2>2, <2>3, <3>3, <4>3 DEF Covered
      <4>. QED BY <4>1, <4>2, <4>3
    <3>. QED BY <2>5, <3>1, <3>2, <3>3 DEF Covered
  <2>6. {shown'} \cup {d.body : d \in Heard'} = {shown} \cup {d.body : d \in Heard} \cup {b}
    BY <1>1, <1>4
  <2>. QED BY <2>1, <2>4, <2>5, <2>6
<1>7. ~touched' => box'.density = Null
  BY DEF MaterialInv, MaterialStands
<1>. QED BY <1>5, <1>6, <1>7 DEF MaterialStands

LEMMA LiveIs ==
  ASSUME NEW rows \in Seq(Attempt), NEW i \in 1..Len(rows)
  PROVE  /\ Material!GoesLive(rows, i) \in Seq(Attempt)
         /\ \A k \in Material!Where(Material!GoesLive(rows, i), "ACTIVE") : k = i
<1> DEFINE new == Material!GoesLive(rows, i)
           n == Len(rows)
<1>1. n \in Nat /\ DOMAIN rows = 1..n /\ \A k \in 1..n : rows[k] \in Attempt
  OBVIOUS
<1>2. \A k \in 1..n : /\ [rows[k] EXCEPT !.status = "ACTIVE"] \in Attempt
                      /\ [rows[k] EXCEPT !.status = "RETIRED"] \in Attempt
                      /\ [rows[k] EXCEPT !.status = "RETIRED"].status = "RETIRED"
  BY <1>1 DEF Attempt
<1>3. \A k \in 1..n : new[k] \in Attempt /\ (new[k].status = "ACTIVE" => k = i)
  BY <1>1, <1>2 DEF Material!GoesLive
<1>4. new \in [1..n -> Attempt]
  BY <1>1, <1>3 DEF Material!GoesLive
<1>. HIDE DEF new
<1>5. new \in Seq(Attempt) /\ Len(new) = n
  BY <1>1, <1>4, SeqDef, LenProperties
<1>6. Material!Where(new, "ACTIVE") = {k \in 1..n : new[k].status = "ACTIVE"}
  BY <1>5, WhereAre
<1>. QED BY <1>3, <1>5, <1>6 DEF new

LEMMA FailedIs ==
  ASSUME NEW rows \in Seq(Attempt), NEW i \in 1..Len(rows)
  PROVE  /\ [rows EXCEPT ![i].status = "FAILED"] \in Seq(Attempt)
         /\ Material!Where([rows EXCEPT ![i].status = "FAILED"], "ACTIVE") \subseteq Material!Where(rows, "ACTIVE")
<1> DEFINE r == [rows[i] EXCEPT !.status = "FAILED"]
           new == [rows EXCEPT ![i] = r]
<1>1. r \in Attempt /\ r.status = "FAILED"
  <2>1. rows[i] \in Attempt
    OBVIOUS
  <2>. QED BY <2>1 DEF Attempt
<1>2. new = [rows EXCEPT ![i].status = "FAILED"]
  OBVIOUS
<1>. HIDE DEF r
<1>3. new \in Seq(Attempt) /\ Len(new) = Len(rows) /\ \A k \in 1..Len(rows) : new[k] = IF k = i THEN r ELSE rows[k]
  BY <1>1, ExceptSeq
<1>. HIDE DEF new
<1>4. Material!Where(new, "ACTIVE") \subseteq Material!Where(rows, "ACTIVE")
  <2>1. /\ Material!Where(new, "ACTIVE") = {k \in 1..Len(rows) : new[k].status = "ACTIVE"}
        /\ Material!Where(rows, "ACTIVE") = {k \in 1..Len(rows) : rows[k].status = "ACTIVE"}
    BY <1>3, WhereAre
  <2>. QED BY <1>1, <1>3, <2>1
<1>. QED BY <1>2, <1>3, <1>4

LEMMA VerdictKeeps == MaterialInv /\ Material!Verdict => MaterialInv'
<1>. SUFFICES ASSUME MaterialInv, Material!Verdict PROVE MaterialInv'
  OBVIOUS
<1>1. MaterialTyped /\ CallsTyped /\ MaterialStands
  BY DEF MaterialInv
<1>2. UNCHANGED <<stored, opened, shown, box, touched, pending, calls, sent, lost, astray>>
  BY DEF Material!Verdict
<1>3. attempts \in Seq(Attempt) /\ other \in BOOLEAN
  BY <1>1 DEF MaterialTyped
<1>4. \A i, j \in Material!Where(attempts, "ACTIVE") : i = j
  BY <1>1 DEF MaterialStands
<1>5. /\ attempts' \in Seq(Attempt) /\ other' \in BOOLEAN /\ NowTold.busy
      /\ \A i, j \in Material!Where(attempts', "ACTIVE") : i = j
  <2>1. CASE other /\ other' = FALSE /\ attempts' = attempts
    BY <1>3, <1>4, <2>1, ToldIs DEF NowTold
  <2>2. ASSUME NEW i \in Material!Where(attempts, "PENDING"), other' = other,
               attempts' \in {Material!GoesLive(attempts, i), [attempts EXCEPT ![i].status = "FAILED"]}
        PROVE  /\ attempts' \in Seq(Attempt) /\ NowTold.busy
               /\ \A k, l \in Material!Where(attempts', "ACTIVE") : k = l
    <3>1. i \in 1..Len(attempts) /\ NowTold.busy
      BY <1>3, WhereAre, ToldIs DEF NowTold
    <3>2. CASE attempts' = Material!GoesLive(attempts, i)
      BY <1>3, <3>1, <3>2, LiveIs
    <3>3. CASE attempts' = [attempts EXCEPT ![i].status = "FAILED"]
      <4>1. attempts' \in Seq(Attempt) /\ Material!Where(attempts', "ACTIVE") \subseteq Material!Where(attempts, "ACTIVE")
        BY <1>3, <3>1, <3>3, FailedIs
      <4>. QED BY <1>4, <3>1, <4>1
    <3>. QED BY <2>2, <3>2, <3>3, <3>1
  <2>. QED BY <1>3, <2>1, <2>2 DEF Material!Verdict
<1>6. MaterialTyped'
  BY <1>1, <1>2, <1>5 DEF MaterialTyped
<1>7. Heard' = Heard /\ Sure' = Sure
  BY <1>2 DEF Heard, Sure
<1>8. CallsTyped'
  BY <1>1, <1>2, <1>7 DEF CallsTyped
<1>9. \A t : Covered(t) => Covered(t)'
  BY <1>5, <1>7 DEF Covered
<1>10. ASSUME ~astray', \A c \in Heard' : c.kind = "preset" => c.body # Null
       PROVE  \A t \in {shown'} \cup {c.body : c \in Heard'} : Covered(t)'
  <2>1. \A t \in {shown} \cup {c.body : c \in Heard} : Covered(t)
    BY <1>1, <1>2, <1>7, <1>10 DEF MaterialStands
  <2>. QED BY <1>2, <1>7, <1>9, <2>1
<1>11. MaterialStands'
  BY <1>1, <1>2, <1>5, <1>10 DEF MaterialStands
<1>. QED BY <1>2, <1>6, <1>8, <1>11 DEF MaterialInv

\* A call of the editor that is sent.
LEMMA CallSent ==
  ASSUME MaterialInv, NEW kind \in {"poll", "preset", "remove", "name", "guide"}, NEW body,
         kind = "preset" => body \in Preset, kind = "name" => body \in {Null, "name"},
         kind = "guide" => body \in {Null, "guide"},
         calls' = calls \cup {Material!Call(kind, body)},
         UNCHANGED <<attempts, other, stored, opened, shown, box, touched, lost, astray>>, sent' \in 0..MaxSent
  PROVE  MaterialTyped' /\ CallsTyped' /\ MaterialStands'
<1> DEFINE a == Material!Call(kind, body)
<1>1. a.kind = kind /\ a.at = "sent" /\ a.body = body
  BY DEF Material!Call
<1>. HIDE DEF a
<1>2. calls' = calls \cup {a}
  BY DEF a
<1>3. MaterialTyped'
  BY DEF MaterialInv, MaterialTyped
<1>4. Heard' = Heard /\ a \notin Heard
  BY <1>1, <1>2 DEF Heard
<1>5. CallsTyped'
  BY <1>1, <1>2, <1>4 DEF MaterialInv, CallsTyped
<1>6. MaterialStands'
  <2>1. ~touched' => box'.density = Null
    BY DEF MaterialInv, MaterialStands
  <2>. QED BY <1>4, <2>1, NothingTold DEF MaterialInv
<1>. QED BY <1>3, <1>5, <1>6

LEMMA ShownIs ==
  ASSUME MaterialTyped
  PROVE  Material!shownGeneric \in {Null, "g1"} /\ Material!shownDensity \in {Null, 1, 2}
<1>1. /\ shown.pending = Null \/ shown.pending \in Preset
      /\ shown.live = Null \/ shown.live \in Preset
      /\ box.generic \in {Null, "g1"} /\ box.density \in {Null, 1}
  BY DEF MaterialTyped, Telling
<1>2. \A p \in Preset : p["generic"] \in {Null, "g1"} /\ p["density"] \in {Null, 1, 2}
  BY DEF Preset
<1>3. <<"g1">>[1] = "g1"
  OBVIOUS
<1>4. Material!shownGeneric \in {Null, "g1"}
  BY <1>1, <1>2, <1>3 DEF Material!shownGeneric, Material!ShownBox
<1>5. Material!shownDensity \in {Null, 1, 2}
  BY <1>1, <1>2 DEF Material!shownDensity, Material!ShownBox
<1>. QED BY <1>4, <1>5

LEMMA EditorKeeps ==
  ASSUME MaterialInv,
         \/ Material!Type \/ Material!OtherRow \/ Material!SendPreset \/ Material!removeProfile
         \/ Material!SaveText \/ Material!Poll
  PROVE  MaterialInv'
<1>1. MaterialTyped /\ CallsTyped /\ MaterialStands /\ astray \in BOOLEAN /\ pending \in BOOLEAN
  BY DEF MaterialInv
<1>2. CASE Material!Type
  <2>1. /\ touched' /\ UNCHANGED <<attempts, other, stored, opened, shown, pending, calls, sent, lost, astray>>
        /\ \/ \E g \in {<<"g1">>[i] : i \in DOMAIN <<"g1">>} : box' = [box EXCEPT !.generic = g]
           \/ \E d \in {1} : box' = [box EXCEPT !.density = d]
    BY <1>2 DEF Material!Type
  <2>2. box' \in [generic : {Null, "g1"}, density : {Null, 1}]
    <3>1. {<<"g1">>[i] : i \in DOMAIN <<"g1">>} = {"g1"}
      OBVIOUS
    <3>2. box \in [generic : {Null, "g1"}, density : {Null, 1}]
      BY <1>1 DEF MaterialTyped
    <3>. QED BY <2>1, <3>1, <3>2
  <2>3. Heard' = Heard
    BY <2>1 DEF Heard
  <2>4. MaterialTyped' /\ CallsTyped'
    BY <1>1, <2>1, <2>2, <2>3 DEF MaterialTyped, CallsTyped
  <2>5. MaterialStands'
    BY <1>1, <2>1, <2>3, NothingTold
  <2>. QED BY <1>1, <2>1, <2>4, <2>5 DEF MaterialInv
<1>3. CASE Material!OtherRow
  <2>1. ~pending' /\ pending' \in BOOLEAN
        /\ UNCHANGED <<attempts, other, stored, opened, shown, box, touched, calls, sent, lost, astray>>
    BY <1>3 DEF Material!OtherRow
  <2>2. Heard' = Heard
    BY <2>1 DEF Heard
  <2>3. MaterialTyped' /\ CallsTyped'
    BY <1>1, <2>1, <2>2 DEF MaterialTyped, CallsTyped
  <2>4. MaterialStands'
    BY <1>1, <2>1, <2>2, NothingTold DEF MaterialStands
  <2>. QED BY <1>1, <2>1, <2>3, <2>4 DEF MaterialInv
<1>4. CASE Material!SendPreset
  <2>1. UNCHANGED <<attempts, other, stored, opened, shown, box, touched, lost, astray>> /\ sent' = sent + 1 /\ sent < MaxSent
    BY <1>4 DEF Material!SendPreset, Material!Spend
  <2>2. PICK p \in Preset : Material!run("preset", p)
    <3>1. CASE Material!shownDensity # Null
               /\ Material!run("preset", [generic |-> Material!shownGeneric, density |-> Material!shownDensity])
      <4>1. [generic |-> Material!shownGeneric, density |-> Material!shownDensity] \in Preset
        BY <1>1, ShownIs DEF Preset
      <4>. QED BY <3>1, <4>1
    <3>2. CASE \E f \in {[generic |-> Null, density |-> 2]} : Material!run("preset", f)
      <4>1. [generic |-> Null, density |-> 2] \in Preset
        BY DEF Preset
      <4>. QED BY <3>2, <4>1
    <3>. QED BY <1>4, <3>1, <3>2 DEF Material!SendPreset
  <2>3. sent' \in 0..MaxSent
    BY <1>1, <2>1, EditorsAssumption DEF MaterialTyped
  <2>4. pending' \in BOOLEAN /\ calls' = calls \cup {Material!Call("preset", p)}
    BY <2>2 DEF Material!run
  <2>. QED BY <1>1, <2>1, <2>3, <2>4, CallSent DEF MaterialInv
<1>5. CASE Material!removeProfile
  <2>1. /\ UNCHANGED <<attempts, other, stored, opened, shown, box, touched, sent, lost, astray>>
        /\ Material!run("remove", Null)
    BY <1>5 DEF Material!removeProfile
  <2>2. pending' \in BOOLEAN /\ calls' = calls \cup {Material!Call("remove", Null)} /\ sent' \in 0..MaxSent
    BY <1>1, <2>1 DEF Material!run, MaterialTyped
  <2>. QED BY <1>1, <2>1, <2>2, CallSent DEF MaterialInv
<1>6. CASE Material!SaveText
  <2>1. UNCHANGED <<attempts, other, stored, opened, shown, box, touched, lost, astray>> /\ sent' = sent + 1 /\ sent < MaxSent
    BY <1>6 DEF Material!SaveText, Material!Spend
  <2>2. sent' \in 0..MaxSent
    BY <1>1, <2>1, EditorsAssumption DEF MaterialTyped
  <2>3. CASE \E n \in {Null, "name"} : Material!run("name", n)
    <3>1. PICK n \in {Null, "name"} : Material!run("name", n)
      BY <2>3
    <3>2. pending' \in BOOLEAN /\ calls' = calls \cup {Material!Call("name", n)}
      BY <3>1 DEF Material!run
    <3>. QED BY <1>1, <2>1, <2>2, <3>2, CallSent DEF MaterialInv
  <2>4. CASE \E g \in {Null, "guide"} : Material!run("guide", g)
    <3>1. PICK g \in {Null, "guide"} : Material!run("guide", g)
      BY <2>4
    <3>2. pending' \in BOOLEAN /\ calls' = calls \cup {Material!Call("guide", g)}
      BY <3>1 DEF Material!run
    <3>. QED BY <1>1, <2>1, <2>2, <3>2, CallSent DEF MaterialInv
  <2>. QED BY <1>6, <2>3, <2>4 DEF Material!SaveText
<1>7. CASE Material!Poll
  <2>1. /\ UNCHANGED <<attempts, other, stored, opened, shown, box, touched, pending, sent, lost, astray>>
        /\ calls' = calls \cup {Material!Call("poll", Null)}
    BY <1>7 DEF Material!Poll
  <2>2. sent' \in 0..MaxSent
    BY <1>1, <2>1, EditorsAssumption DEF MaterialTyped
  <2>. QED BY <1>1, <2>1, <2>2, CallSent DEF MaterialInv
<1>. QED BY <1>2, <1>3, <1>4, <1>5, <1>6, <1>7

LEMMA ServeKeeps == MaterialInv /\ (Material!Serve \/ Material!ServePreset) => MaterialInv'
<1>. SUFFICES ASSUME MaterialInv, Material!Serve \/ Material!ServePreset PROVE MaterialInv'
  OBVIOUS
<1>1. MaterialTyped /\ CallsTyped /\ MaterialStands /\ astray \in BOOLEAN /\ pending \in BOOLEAN
  BY DEF MaterialInv
<1>2. UNCHANGED <<other, stored, opened, shown, box, touched, pending, sent, lost, astray>>
  BY DEF Material!Serve, Material!ServePreset
<1>3. attempts \in Seq(Attempt) /\ other \in BOOLEAN /\ \A i, j \in Material!Where(attempts, "ACTIVE") : i = j
  BY <1>1 DEF MaterialTyped, MaterialStands
<1>4. NowTold' = Material!getSlicerProfilesState(attempts', other)
  BY <1>2 DEF NowTold
<1>5. attempts' \in Seq(Attempt) /\ CallsTyped' /\ MaterialStands'
  <2>1. CASE Material!Serve
    <3>1. PICK c \in calls :
            /\ c.at = "sent" /\ c.kind \in {"poll", "remove"}
            /\ attempts' = IF c.kind = "remove" THEN Retired(attempts) ELSE attempts
            /\ Material!Answered(c, Material!getSlicerProfilesState(attempts', other))
      BY <2>1 DEF Material!Serve, Retired
    <3>2. calls' = (calls \ {c}) \cup {[kind |-> c.kind, at |-> "answered", body |-> NowTold']}
      BY <1>4, <3>1 DEF Material!Answered
    <3>3. CASE c.kind = "remove"
      <4>1. /\ attempts' \in Seq(Attempt) /\ \A i, j \in Material!Where(attempts', "ACTIVE") : i = j
            /\ attempts' = attempts \/ NowTold'.version > NowTold.version
        BY <1>3, <1>4, <3>1, <3>3, RetiredIsLater DEF NowTold
      <4>. QED BY <1>2, <3>1, <3>2, <3>3, <4>1, Answering
    <3>4. CASE c.kind = "poll"
      <4>1. attempts' = attempts
        BY <3>1, <3>4
      <4>. QED BY <1>2, <1>3, <3>1, <3>2, <4>1, Answering
    <3>. QED BY <3>1, <3>3, <3>4
  <2>2. CASE Material!ServePreset
    <3>1. PICK c \in calls, status \in {"PENDING", "FAILED"} :
            /\ c.kind = "preset" /\ c.at = "sent"
            /\ attempts' = Append(attempts, [made |-> c.body, status |-> status])
            /\ Material!Answered(c, IF status = "PENDING" THEN Material!getSlicerProfilesState(attempts', other) ELSE Null)
      BY <2>2 DEF Material!ServePreset, Material!Calls
    <3> DEFINE r == [made |-> c.body, status |-> status]
               b == IF status = "PENDING" THEN NowTold' ELSE Null
    <3>2. r \in Attempt /\ r.status # "ACTIVE"
      BY <1>1, <3>1 DEF CallsTyped, Attempt
    <3>3. calls' = (calls \ {c}) \cup {[kind |-> c.kind, at |-> "answered", body |-> b]}
      BY <1>4, <3>1 DEF Material!Answered
    <3>4. /\ attempts' \in Seq(Attempt) /\ \A i, j \in Material!Where(attempts', "ACTIVE") : i = j
          /\ NowTold'.version > NowTold.version
      BY <1>3, <1>4, <3>1, <3>2, StoredIsLater DEF NowTold
    <3>5. b = NowTold' \/ b = Null
      OBVIOUS
    <3>. HIDE DEF b
    <3>. QED BY <1>2, <3>1, <3>3, <3>4, <3>5, Answering
  <2>. QED BY <2>1, <2>2
<1>6. MaterialTyped'
  BY <1>1, <1>2, <1>5 DEF MaterialTyped
<1>. QED BY <1>1, <1>2, <1>5, <1>6 DEF MaterialInv

LEMMA RowKeeps == MaterialInv /\ (Material!ReadRow \/ Material!WriteRow \/ Material!Refresh) => MaterialInv'
<1>. SUFFICES ASSUME MaterialInv, Material!ReadRow \/ Material!WriteRow \/ Material!Refresh PROVE MaterialInv'
  OBVIOUS
<1>1. MaterialTyped /\ CallsTyped /\ MaterialStands /\ astray \in BOOLEAN /\ pending \in BOOLEAN
  BY DEF MaterialInv
<1>2. UNCHANGED <<attempts, other, shown, box, touched, pending, sent, lost, astray>>
  BY DEF Material!ReadRow, Material!WriteRow, Material!Refresh
<1>3. stored \in Texted /\ opened \in Texted
  BY <1>1 DEF MaterialTyped
<1>4. stored' \in Texted /\ opened' \in Texted /\ Heard' = Heard /\ CallsTyped'
  <2>1. CASE Material!ReadRow
    <3>1. PICK c \in calls : /\ c.at = "sent" /\ c.kind \in {"name", "guide"}
                             /\ calls' = (calls \ {c}) \cup {[kind |-> c.kind, at |-> "read", body |-> c.body, row |-> stored]}
      BY <2>1 DEF Material!ReadRow
    <3> DEFINE a == [kind |-> c.kind, at |-> "read", body |-> c.body, row |-> stored]
    <3>2. a.kind = c.kind /\ a.at = "read" /\ a.body = c.body /\ a.row = stored
      OBVIOUS
    <3>. HIDE DEF a
    <3>3. calls' = (calls \ {c}) \cup {a}
      BY <3>1 DEF a
    <3>4. Heard' = Heard
      BY <3>1, <3>2, <3>3 DEF Heard
    <3>5. CallsTyped'
      <4>1. a \notin Heard
        BY <3>2 DEF Heard
      <4>2. /\ a.kind \in {"name", "guide"} /\ a.row \in Texted
            /\ a.kind = "name" => a.body \in {Null, "name"}
            /\ a.kind = "guide" => a.body \in {Null, "guide"}
        BY <1>1, <1>3, <3>1, <3>2 DEF CallsTyped
      <4>. QED BY <1>1, <3>2, <3>3, <3>4, <4>1, <4>2 DEF CallsTyped
    <3>. QED BY <1>3, <2>1, <3>4, <3>5 DEF Material!ReadRow
  <2>2. CASE Material!WriteRow
    <3>1. PICK c \in calls :
            /\ c.at = "read" /\ stored' = Material!Saved(c.row, c.kind, c.body)
            /\ Material!Answered(c, IF c.kind = "guide" /\ c.body # Null /\ c.row.name = Null THEN Null ELSE "saved")
      BY <2>2 DEF Material!WriteRow
    <3>2. /\ c.kind \in {"name", "guide"} /\ c.row \in Texted
          /\ c.kind = "name" => c.body \in {Null, "name"}
          /\ c.kind = "guide" => c.body \in {Null, "guide"}
      BY <1>1, <3>1 DEF CallsTyped
    <3>3. stored' \in Texted
      BY <3>1, <3>2 DEF Material!Saved, Material!Unnamed, Texted
    <3>4. PICK b : calls' = (calls \ {c}) \cup {[kind |-> c.kind, at |-> "answered", body |-> b]}
      BY <3>1 DEF Material!Answered
    <3> DEFINE a == [kind |-> c.kind, at |-> "answered", body |-> b]
    <3>5. a.kind = c.kind /\ a.at = "answered"
      OBVIOUS
    <3>. HIDE DEF a
    <3>6. calls' = (calls \ {c}) \cup {a}
      BY <3>4 DEF a
    <3>7. Heard' = Heard /\ a \notin Heard
      BY <3>1, <3>2, <3>5, <3>6 DEF Heard
    <3>8. CallsTyped'
      BY <1>1, <3>2, <3>5, <3>6, <3>7 DEF CallsTyped
    <3>. QED BY <1>3, <2>2, <3>3, <3>7, <3>8 DEF Material!WriteRow
  <2>3. CASE Material!Refresh
    <3>1. opened' = stored /\ UNCHANGED <<stored, calls>>
      BY <2>3 DEF Material!Refresh
    <3>2. Heard' = Heard
      BY <3>1 DEF Heard
    <3>. QED BY <1>1, <1>3, <3>1, <3>2 DEF CallsTyped
  <2>. QED BY <2>1, <2>2, <2>3
<1>5. MaterialTyped'
  BY <1>1, <1>2, <1>4 DEF MaterialTyped
<1>6. MaterialStands'
  <2>1. ~touched' => box'.density = Null
    BY <1>1, <1>2 DEF MaterialStands
  <2>. QED BY <1>1, <1>2, <1>4, <2>1, NothingTold
<1>. QED BY <1>1, <1>2, <1>4, <1>5, <1>6 DEF MaterialInv

\* Where an answer that is heard is shown: what was shown before is not later.
LEMMA ShownStands ==
  ASSUME MaterialInv, NEW c \in Heard, calls' = calls \ {c}, shown' = c.body, c.body \in Telling,
         UNCHANGED <<attempts, other>>, ~astray' => ~astray /\ ~(c.body.version < shown.version),
         c.kind = "preset" => c.body # Null, ~touched' => box'.density = Null
  PROVE  MaterialStands'
<1>1. NowTold' = NowTold /\ Heard' = Heard \ {c}
  BY DEF NowTold, Heard
<1>2. MaterialTyped /\ CallsTyped /\ MaterialStands
  BY DEF MaterialInv
<1>3. \A i, j \in Material!Where(attempts', "ACTIVE") : i = j
  BY <1>2 DEF MaterialStands
<1>4. ASSUME ~astray', \A d \in Heard' : d.kind = "preset" => d.body # Null
      PROVE  \A t \in {shown'} \cup {d.body : d \in Heard'} : Covered(t)'
  <2>1. \A d \in Heard : d.kind = "preset" => d.body # Null
    BY <1>1, <1>4
  <2>2. \A t \in {shown} \cup {d.body : d \in Heard} : Covered(t)
    BY <1>2, <1>4, <2>1 DEF MaterialStands
  <2>3. \A d \in Heard : d.body \in Telling
    BY <1>2, <2>1 DEF CallsTyped, Heard
  <2>4. shown \in Telling /\ Sure \subseteq Telling
    BY <1>2, <2>3 DEF MaterialTyped, Sure
  <2>5. \A t \in Telling : t.version \in Int
    BY DEF Telling
  <2>6. ASSUME NEW u \in Sure PROVE \E w \in Sure' : w.version >= u.version
    <3>1. shown' \in Sure' /\ shown'.version \in Int /\ u.version \in Int /\ shown.version \in Int
      BY <2>4, <2>5 DEF Sure
    <3>2. CASE u = shown
      BY <1>4, <3>1, <3>2
    <3>3. CASE \E d \in Heard : d.kind # "poll" /\ u = d.body
      <4>1. u \in Sure'
        BY <1>1, <3>3 DEF Sure
      <4>. QED BY <3>1, <4>1
    <3>. QED BY <3>2, <3>3 DEF Sure
  <2>7. ASSUME NEW t \in Telling, Covered(t) PROVE Covered(t)'
    <3>1. CASE \E u \in Sure : u.version > t.version
      <4>1. PICK u \in Sure : u.version > t.version
        BY <3>1
      <4>2. PICK w \in Sure' : w.version >= u.version
        BY <2>6
      <4>3. w \in Telling
        BY <1>1, <2>3 DEF Sure
      <4>4. w.version > t.version
        BY <2>4, <2>5, <4>1, <4>2, <4>3
      <4>. QED BY <4>4 DEF Covered
    <3>. QED BY <1>1, <2>7, <3>1 DEF Covered
  <2>8. \A t \in {shown'} \cup {d.body : d \in Heard'} : t \in Telling /\ Covered(t)
    BY <1>1, <2>2, <2>3
  <2>. QED BY <2>7, <2>8
<1>. QED BY <1>3, <1>4 DEF MaterialStands

LEMMA MaterialAnswers == MaterialInv /\ Material!Answer => MaterialInv'
<1>. SUFFICES ASSUME MaterialInv, Material!Answer PROVE MaterialInv'
  OBVIOUS
<1>1. MaterialTyped /\ CallsTyped /\ MaterialStands /\ astray \in BOOLEAN /\ pending \in BOOLEAN
  BY DEF MaterialInv
<1>2. UNCHANGED <<attempts, other, stored, opened, sent, lost>>
  BY DEF Material!Answer
<1>3. PICK c \in calls :
        /\ c.at = "answered" /\ calls' = calls \ {c}
        /\ pending' = IF c.kind = "poll" THEN pending ELSE FALSE
        /\ box' = IF c.kind = "preset" /\ c.body # Null THEN Material!settle(box) ELSE box
        /\ touched' = (touched /\ ~(c.kind = "preset" /\ c.body # Null))
        /\ IF c.kind \in {"name", "guide"} \/ c.body = Null
             THEN shown' = shown /\ astray' = (astray \/ c.body = Null)
             ELSE shown' = c.body /\ astray' = (astray \/ c.body.version < shown.version)
  BY DEF Material!Answer
<1>4. astray' \in BOOLEAN /\ pending' \in BOOLEAN
  BY <1>1, <1>3
<1>5. ~touched' => box'.density = Null
  <2>1. Material!settle(box).density = Null
    BY DEF Material!settle, Material!Boxes
  <2>. QED BY <1>1, <1>3, <2>1 DEF MaterialStands
<1>6. box' \in [generic : {Null, "g1"}, density : {Null, 1}]
  <2>1. Material!settle(box) \in [generic : {Null, "g1"}, density : {Null, 1}]
    BY DEF Material!settle, Material!Boxes
  <2>. QED BY <1>1, <1>3, <2>1 DEF MaterialTyped
<1>7. CallsTyped'
  <2>1. \A d \in calls' : d \in calls /\ (d \in Heard' <=> d \in Heard)
    BY <1>3 DEF Heard
  <2>. QED BY <1>1, <2>1 DEF CallsTyped
<1>8. CASE c.kind \in {"name", "guide"} \/ c.body = Null
  <2>1. shown' = shown /\ (~astray' => ~astray /\ c.kind \in {"name", "guide"})
    BY <1>3, <1>8
  <2>2. ~astray' => Heard' = Heard
    BY <1>3, <2>1 DEF Heard
  <2>3. MaterialStands'
    BY <1>1, <1>2, <1>5, <2>1, <2>2, NothingTold
  <2>4. MaterialTyped'
    BY <1>1, <1>2, <1>6, <2>1 DEF MaterialTyped
  <2>. QED BY <1>4, <1>7, <2>3, <2>4 DEF MaterialInv
<1>9. CASE ~(c.kind \in {"name", "guide"} \/ c.body = Null)
  <2>1. shown' = c.body /\ c.body # Null /\ (~astray' => ~astray /\ ~(c.body.version < shown.version))
    BY <1>3, <1>9
  <2>2. c \in Heard /\ c.body \in Telling
    BY <1>1, <1>3, <1>9 DEF Heard, CallsTyped
  <2>3. MaterialStands'
    BY <1>2, <1>3, <1>5, <2>1, <2>2, ShownStands
  <2>4. MaterialTyped'
    BY <1>1, <1>2, <1>6, <2>1, <2>2 DEF MaterialTyped
  <2>. QED BY <1>4, <1>7, <2>3, <2>4 DEF MaterialInv
<1>. QED BY <1>8, <1>9

LEMMA LostKeeps == MaterialInv /\ Material!Lost => MaterialInv'
<1>. SUFFICES ASSUME MaterialInv, Material!Lost PROVE MaterialInv'
  OBVIOUS
<1>1. MaterialTyped /\ CallsTyped /\ MaterialStands /\ astray \in BOOLEAN /\ pending \in BOOLEAN
  BY DEF MaterialInv
<1>2. lost < MaxLost /\ lost' = lost + 1 /\ UNCHANGED <<attempts, other, stored, opened, shown, box, touched, sent>>
  BY DEF Material!Lost
<1>3. PICK c \in calls : /\ calls' = calls \ {c}
                         /\ pending' = IF c.kind = "poll" THEN pending ELSE FALSE
                         /\ astray' = (astray \/ c.kind # "poll")
  BY DEF Material!Lost
<1>4. astray' \in BOOLEAN /\ pending' \in BOOLEAN /\ (~astray' => ~astray /\ c.kind = "poll")
  BY <1>1, <1>3
<1>5. Heard' = Heard \ {c} /\ \A d \in calls' : d \in calls /\ (d \in Heard' <=> d \in Heard)
  BY <1>3 DEF Heard
<1>6. CallsTyped'
  BY <1>1, <1>5 DEF CallsTyped
<1>7. MaterialTyped'
  <2>1. lost' \in 0..MaxLost
    BY <1>1, <1>2, EditorsAssumption DEF MaterialTyped
  <2>. QED BY <1>1, <1>2, <2>1 DEF MaterialTyped
<1>8. ASSUME ~astray', \A d \in Heard' : d.kind = "preset" => d.body # Null
      PROVE  \A t \in {shown'} \cup {d.body : d \in Heard'} : Covered(t)'
  <2>1. Sure' = Sure /\ NowTold' = NowTold
    BY <1>2, <1>4, <1>5, <1>8 DEF Sure, NowTold
  <2>2. \A t \in {shown} \cup {d.body : d \in Heard} : Covered(t)
    BY <1>1, <1>4, <1>5, <1>8 DEF MaterialStands
  <2>3. \A t : Covered(t) => Covered(t)'
    BY <2>1 DEF Covered
  <2>. QED BY <1>2, <1>5, <2>2, <2>3
<1>9. MaterialStands'
  BY <1>1, <1>2, <1>8 DEF MaterialStands
<1>. QED BY <1>4, <1>6, <1>7, <1>9 DEF MaterialInv

LEMMA MaterialStep == MaterialInv /\ [Material!Next]_materialVars => MaterialInv'
<1>1. ASSUME MaterialInv, UNCHANGED materialVars PROVE MaterialInv'
  <2>1. UNCHANGED <<attempts, other, stored, opened, shown, box, touched, pending, calls, sent, lost, astray>>
    BY <1>1 DEF materialVars
  <2>2. Heard' = Heard
    BY <2>1 DEF Heard
  <2>3. MaterialTyped' /\ CallsTyped'
    BY <1>1, <2>1, <2>2 DEF MaterialInv, MaterialTyped, CallsTyped
  <2>4. MaterialStands'
    <3>1. ~touched' => box'.density = Null
      BY <1>1, <2>1 DEF MaterialInv, MaterialStands
    <3>. QED BY <1>1, <2>1, <2>2, <3>1, NothingTold DEF MaterialInv
  <2>. QED BY <1>1, <2>1, <2>3, <2>4 DEF MaterialInv
<1>2. CASE Material!Next
  BY <1>2, VerdictKeeps, EditorKeeps, ServeKeeps, RowKeeps, MaterialAnswers, LostKeeps DEF Material!Next
<1>. QED BY <1>1, <1>2

LEMMA MaterialStays == MaterialInv => Material!MaterialTold
<1>. SUFFICES ASSUME MaterialInv PROVE Material!MaterialTold
  OBVIOUS
<1>1. MaterialTyped /\ CallsTyped /\ MaterialStands /\ astray \in BOOLEAN /\ pending \in BOOLEAN
  BY DEF MaterialInv
<1>2. attempts \in Seq(Attempt) /\ other \in BOOLEAN /\ shown \in Telling /\ stored \in Texted /\ opened \in Texted
  BY <1>1 DEF MaterialTyped
<1>3. Material!TypeOK
  <2>1. \A i \in DOMAIN attempts : attempts[i].status \in {"PENDING", "ACTIVE", "FAILED", "RETIRED"}
    <3>1. \A i \in 1..Len(attempts) : attempts[i] \in Attempt
      BY <1>2
    <3>. QED BY <1>2, <3>1 DEF Attempt
  <2>2. DOMAIN stored = {"name", "guide"} /\ DOMAIN opened = {"name", "guide"}
    BY <1>2 DEF Texted
  <2>. QED BY <1>1, <2>1, <2>2 DEF MaterialTyped, Material!TypeOK
<1>4. Material!OneLive
  <2> DEFINE W == Material!Where(attempts, "ACTIVE")
  <2>1. W = {} \/ \E i : W = {i}
    BY <1>1 DEF MaterialStands
  <2>. HIDE DEF W
  <2>2. Cardinality(W) \in {0, 1}
    <3>1. CASE W = {}
      BY <3>1, FS_EmptySet
    <3>2. CASE \E i : W = {i}
      BY <3>2, FS_Singleton
    <3>. QED BY <2>1, <3>1, <3>2
  <2>3. Cardinality(W) <= 1
    BY <2>2
  <2>. QED BY <2>3, MaterialCounts DEF Material!OneLive, W
<1>5. Material!TextHasName
  BY <1>2 DEF Texted, Material!TextHasName
<1>6. calls = {} /\ ~shown.busy /\ ~astray => shown = NowTold
  <2>1. SUFFICES ASSUME calls = {}, ~shown.busy, ~astray PROVE shown = NowTold
    OBVIOUS
  <2>2. Heard = {} /\ Sure = {shown}
    BY <2>1 DEF Heard, Sure
  <2>3. Covered(shown)
    BY <1>1, <2>1, <2>2 DEF MaterialStands
  <2>4. shown.version \in Int
    BY <1>2 DEF Telling
  <2>. QED BY <2>1, <2>2, <2>3, <2>4 DEF Covered
<1>7. Material!RestsTrue
  BY <1>6 DEF Material!RestsTrue, NowTold
<1>8. Material!BoxesTrue
  <2>1. SUFFICES ASSUME Material!testing, ~touched, shown = NowTold
                 PROVE  attempts[Material!Max(Material!Where(attempts, "PENDING"))].made.density \in {Material!shownDensity, Null}
    BY DEF Material!BoxesTrue, NowTold
  <2>2. box.density = Null /\ shown.pending # Null
    BY <1>1, <2>1 DEF MaterialStands, Material!testing
  <2>3. shown.pending = attempts[Material!Max(Material!Where(attempts, "PENDING"))].made
    BY <1>2, <2>1, <2>2, ToldIs DEF NowTold
  <2>4. shown.pending["density"] # Null => Material!shownDensity = shown.pending["density"]
    BY <2>2 DEF Material!shownDensity, Material!ShownBox
  <2>. QED BY <2>3, <2>4
<1>9. Material!FailureTold
  <2> DEFINE L == Material!Where(attempts, "ACTIVE")
             F == Material!Where(attempts, "FAILED")
             K == DOMAIN attempts \ Material!Where(attempts, "RETIRED")
  <2>1. SUFFICES ASSUME shown.lastError, ~astray, calls = {}, ~shown.busy, L # {} PROVE Material!Max(F) > Material!Max(L)
    BY DEF Material!FailureTold
  <2>2. shown = NowTold
    BY <1>6, <2>1
  <2>3. K # {} /\ Material!Max(K) \in F
    <3>1. Material!failedLater(attempts)
      BY <1>2, <2>1, <2>2, ToldIs DEF NowTold
    <3>. QED BY <3>1 DEF Material!failedLater
  <2>4. DOMAIN attempts = 1..Len(attempts) /\ Len(attempts) \in Nat
    BY <1>2
  <2>5. \A m \in K : m <= Material!Max(K)
    BY <2>3, <2>4, Largest
  <2>6. /\ L = {i \in 1..Len(attempts) : attempts[i].status = "ACTIVE"}
        /\ F = {i \in 1..Len(attempts) : attempts[i].status = "FAILED"}
        /\ Material!Where(attempts, "RETIRED") = {i \in 1..Len(attempts) : attempts[i].status = "RETIRED"}
        /\ Material!Max(L) \in L /\ Material!Max(F) \in F /\ \A i \in F : i <= Material!Max(F)
    BY <1>2, <2>1, <2>3, WhereAre
  <2>7. Material!Max(L) \in K /\ Material!Max(L) # Material!Max(K)
    BY <2>3, <2>4, <2>6
  <2>8. /\ Material!Max(K) <= Material!Max(F) /\ Material!Max(L) <= Material!Max(K)
        /\ Material!Max(K) \in Int /\ Material!Max(L) \in Int /\ Material!Max(F) \in Int
    <3>1. Material!Max(K) <= Material!Max(F) /\ Material!Max(L) <= Material!Max(K)
      BY <2>3, <2>5, <2>6, <2>7
    <3>2. F \subseteq 1..Len(attempts) /\ L \subseteq 1..Len(attempts)
      BY <2>6
    <3>. QED BY <2>3, <2>4, <2>6, <3>1, <3>2
  <2>. QED BY <2>7, <2>8
<1>. QED BY <1>3, <1>4, <1>5, <1>7, <1>8, <1>9 DEF Material!MaterialTold

-----------------------------------------------------------------------------
(* The editor of custom colours.                                           *)

ColourIds == {<<"pla", "red", n>> : n \in 1..MaxAdded}
Custom == [id : ColourIds, name : {"Red", "red+"}, hex : {"#F00"}, material : {"pla"}, text : {"#F00"}, born : 1..MaxAdded]
Offered == [customs : SUBSET Custom, on : [{"pla"} -> SUBSET ColourIds], heights : SUBSET {1, 2}]
Draft == [id : ColourIds \cup {Null}, name : {"Red", "red+", Null}, hex : {"#F00"}, text : {"#F00", "#F"}]

Customs == row.customs \cup page.customs \cup state.customs \cup UNION {o.customs : o \in put}

ColoursTyped ==
  /\ row \in Offered /\ page \in Offered /\ state \in Offered /\ form \in [{"pla"} -> Draft]
  /\ put \subseteq Offered
  /\ late \subseteq {"edited", "added"} /\ added \in 0..MaxAdded /\ stores \in 0..ColourSaves

\* What can be stored: no two colours of one id or one name, and nothing on but what there is.
Whole(o) ==
  /\ o.on["pla"] \subseteq Colours!Ids(o.customs) /\ o.heights # {}
  /\ \A c, d \in o.customs : c # d => c.id # d.id /\ c.name # d.name

ColoursStand ==
  /\ saving <=> put # {}
  /\ Whole(row) /\ Whole(page) /\ Whole(state)
  /\ saving => dirty
  /\ \A o \in put : Whole(o) /\ ("edited" \notin late => o = state)
  /\ ~dirty /\ "edited" \notin late => state = row
  /\ form["pla"].id = Null \/ form["pla"].id \in Colours!Ids(state.customs)
  /\ \A c \in Customs : c.born <= added /\ \E n \in 1..c.born : c.id = <<"pla", "red", n>>
  /\ "added" \notin late => \A c, d \in Customs : c.id = d.id => c.born = d.born

ColoursInv == ColoursTyped /\ ColoursStand /\ dirty \in BOOLEAN /\ saving \in BOOLEAN

LEMMA OfferedIs ==
  ASSUME NEW o \in Offered
  PROVE  /\ Colours!Of(o, "pla") = o.customs /\ Colours!Ids(o.customs) \subseteq ColourIds
         /\ o.customs \subseteq Custom /\ o.on["pla"] \subseteq ColourIds /\ o.heights \subseteq {1, 2}
         /\ DOMAIN o = {"customs", "on", "heights"} /\ o = [customs |-> o.customs, on |-> o.on, heights |-> o.heights]
<1>1. o.customs \subseteq Custom /\ o.on["pla"] \subseteq ColourIds /\ o.heights \subseteq {1, 2}
  BY DEF Offered
<1>2. \A c \in o.customs : c.material = "pla" /\ c.id \in ColourIds
  BY <1>1 DEF Custom
<1>3. Colours!Of(o, "pla") = o.customs /\ Colours!Ids(o.customs) \subseteq ColourIds
  BY <1>2 DEF Colours!Of, Colours!Ids
<1>4. DOMAIN o = {"customs", "on", "heights"} /\ o = [customs |-> o.customs, on |-> o.on, heights |-> o.heights]
  BY DEF Offered
<1>. QED BY <1>1, <1>3, <1>4

LEMMA EmptyDraft ==
  /\ Colours!EMPTY_DRAFT = [id |-> Null, name |-> Null, hex |-> "#F00", text |-> "#F00"]
  /\ Colours!EMPTY_DRAFT \in Draft
<1> DEFINE T == [t \in {"#F00", "#F"} |-> IF t = "#F" THEN "none" ELSE t]
<1>1. T["#F00"] = "#F00" /\ T["#F"] = "none" /\ DOMAIN T = {"#F00", "#F"}
  OBVIOUS
<1>2. {T[t] : t \in DOMAIN T} \ {"none"} = {"#F00"}
  BY <1>1
<1>3. (CHOOSE h \in {"#F00"} : TRUE) = "#F00"
  OBVIOUS
<1>4. (CHOOSE t \in DOMAIN T : T[t] = "#F00") = "#F00"
  BY <1>1
<1>5. Colours!Hexes = {"#F00"}
  BY <1>2 DEF Colours!Hexes
<1>. HIDE DEF T
<1>6. Colours!EMPTY_DRAFT = [id |-> Null, name |-> Null, hex |-> "#F00", text |-> "#F00"]
  BY <1>3, <1>4, <1>5 DEF Colours!EMPTY_DRAFT, T
<1>. QED BY <1>6 DEF Draft

LEMMA ColoursInit == Colours!Init => ColoursInv
<1>. SUFFICES ASSUME Colours!Init PROVE ColoursInv
  OBVIOUS
<1>1. /\ row = [customs |-> {}, on |-> [m \in {"pla"} |-> {}], heights |-> {1, 2}] /\ page = row /\ state = row
      /\ form = [m \in {"pla"} |-> Colours!EMPTY_DRAFT] /\ dirty = FALSE /\ saving = FALSE
      /\ put = {} /\ late = {} /\ added = 0 /\ stores = 0
  BY DEF Colours!Init, Colours!Offer
<1>2. row \in Offered
  BY <1>1 DEF Offered
<1>3. ColoursTyped
  BY <1>1, <1>2, EmptyDraft, EditorsAssumption DEF ColoursTyped
<1>4. row.customs = {} /\ row.on["pla"] = {} /\ row.heights = {1, 2} /\ form["pla"].id = Null
  BY <1>1, EmptyDraft
<1>5. Whole(row) /\ Customs = {}
  BY <1>1, <1>4 DEF Whole, Customs
<1>6. ColoursStand
  BY <1>1, <1>4, <1>5 DEF ColoursStand
<1>. QED BY <1>1, <1>3, <1>6 DEF ColoursInv

\* A change of the edit state that adds no colour.
LEMMA MutateKeeps ==
  ASSUME ColoursInv, NEW next \in Offered, Whole(next), Colours!mutate(next),
         \A c \in next.customs : \E d \in state.customs : d.id = c.id /\ d.born = c.born,
         UNCHANGED <<row, page, saving, put, stores>>, added' \in 0..MaxAdded, added' >= added,
         form' \in [{"pla"} -> Draft], form'["pla"].id = Null \/ form'["pla"].id \in Colours!Ids(next.customs)
  PROVE  ColoursInv'
<1>1. ColoursTyped /\ ColoursStand /\ saving \in BOOLEAN
  BY DEF ColoursInv
<1>2. /\ state' = next /\ dirty' = TRUE /\ late \subseteq late' /\ late' \subseteq late \cup {"edited", "added"}
      /\ saving => "edited" \in late'
  BY DEF Colours!mutate
<1>3. ColoursTyped'
  BY <1>1, <1>2 DEF ColoursTyped
<1>4. \A c \in Customs' : \E d \in Customs : d.id = c.id /\ d.born = c.born
  BY <1>2 DEF Customs
<1>5. added \in Int /\ \A c \in Customs : c.born \in Int
  <2>1. Customs \subseteq Custom /\ added \in Int
    BY <1>1, OfferedIs DEF ColoursTyped, Customs
  <2>. QED BY <2>1 DEF Custom
<1>6. \A c \in Customs' : c.born <= added' /\ \E n \in 1..c.born : c.id = <<"pla", "red", n>>
  <2>1. SUFFICES ASSUME NEW c \in Customs' PROVE c.born <= added' /\ \E n \in 1..c.born : c.id = <<"pla", "red", n>>
    OBVIOUS
  <2>2. PICK d \in Customs : d.id = c.id /\ d.born = c.born
    BY <1>4
  <2>3. d.born <= added /\ \E n \in 1..d.born : d.id = <<"pla", "red", n>>
    BY <1>1 DEF ColoursStand
  <2>. QED BY <1>5, <2>2, <2>3
<1>7. "added" \notin late' => \A c, d \in Customs' : c.id = d.id => c.born = d.born
  BY <1>1, <1>2, <1>4 DEF ColoursStand
<1>8. /\ saving' <=> put' # {}
      /\ Whole(row)' /\ Whole(page)' /\ Whole(state)'
      /\ \A o \in put' : Whole(o) /\ ("edited" \notin late' => o = state')
  BY <1>1, <1>2 DEF ColoursStand, Whole
<1>9. ColoursStand'
  BY <1>2, <1>6, <1>7, <1>8 DEF ColoursStand
<1>. QED BY <1>1, <1>2, <1>3, <1>9 DEF ColoursInv

LEMMA SwitchKeeps == ColoursInv /\ (Colours!setColours("pla") \/ Colours!ToggleHeight) => ColoursInv'
<1>. SUFFICES ASSUME ColoursInv, Colours!setColours("pla") \/ Colours!ToggleHeight PROVE ColoursInv'
  OBVIOUS
<1>1. ColoursTyped /\ ColoursStand
  BY DEF ColoursInv
<1>2. state \in Offered /\ Whole(state) /\ added \in 0..MaxAdded /\ form \in [{"pla"} -> Draft]
  BY <1>1 DEF ColoursTyped, ColoursStand
<1>3. added' = added /\ added' >= added /\ UNCHANGED <<row, page, form, saving, put, stores>>
  BY <1>2 DEF Colours!setColours, Colours!ToggleHeight
<1>4. \E next \in Offered : Whole(next) /\ Colours!mutate(next) /\ next.customs = state.customs
  <2>1. CASE Colours!setColours("pla")
    <3>1. PICK ids \in Colours!Shown("pla"), on \in BOOLEAN :
            Colours!mutate([state EXCEPT !.on["pla"] = IF on THEN state.on["pla"] \cup ids ELSE state.on["pla"] \ ids])
      BY <2>1 DEF Colours!setColours
    <3>2. Colours!editorColours("pla") = Colours!Ids(state.customs)
      BY <1>2, OfferedIs DEF Colours!editorColours
    <3>3. ids \subseteq Colours!Ids(state.customs)
      <4>1. \A m \in SUBSET Colours!Of(state, "pla") : {c.id : c \in m} \subseteq Colours!Ids(state.customs)
        BY <1>2, OfferedIs DEF Colours!Ids
      <4>. QED BY <3>2, <4>1 DEF Colours!Shown
    <3> DEFINE chosen == IF on THEN state.on["pla"] \cup ids ELSE state.on["pla"] \ ids
               next == [state EXCEPT !.on["pla"] = chosen]
    <3>4. chosen \subseteq Colours!Ids(state.customs)
      BY <1>2, <3>3 DEF Whole
    <3>. HIDE DEF chosen
    <3>5. next \in Offered /\ next.on["pla"] = chosen /\ next.customs = state.customs /\ next.heights = state.heights
      BY <1>2, <3>4, OfferedIs DEF Offered
    <3>6. Whole(next)
      BY <1>2, <3>4, <3>5 DEF Whole
    <3>. QED BY <3>1, <3>5, <3>6 DEF chosen
  <2>2. CASE Colours!ToggleHeight
    <3>1. PICK h \in {1, 2} :
            /\ state.heights # {h}
            /\ Colours!mutate([state EXCEPT !.heights = IF h \in state.heights THEN state.heights \ {h}
                                                        ELSE state.heights \cup {h}])
      BY <2>2 DEF Colours!ToggleHeight, Colours!LastStays
    <3> DEFINE ticks == IF h \in state.heights THEN state.heights \ {h} ELSE state.heights \cup {h}
               next == [state EXCEPT !.heights = ticks]
    <3>2. ticks # {} /\ ticks \subseteq {1, 2}
      <4>1. state.heights \subseteq {1, 2} /\ state.heights # {}
        BY <1>2, OfferedIs DEF Whole
      <4>. QED BY <3>1, <4>1
    <3>. HIDE DEF ticks
    <3>3. next \in Offered /\ next.on = state.on /\ next.customs = state.customs /\ next.heights = ticks
      BY <1>2, <3>2 DEF Offered
    <3>4. Whole(next)
      BY <1>2, <3>2, <3>3 DEF Whole
    <3>. QED BY <3>1, <3>3, <3>4 DEF ticks
  <2>. QED BY <2>1, <2>2
<1>5. PICK next \in Offered : Whole(next) /\ Colours!mutate(next) /\ next.customs = state.customs
  BY <1>4
<1>6. form'["pla"].id = Null \/ form'["pla"].id \in Colours!Ids(next.customs)
  BY <1>1, <1>3, <1>5 DEF ColoursStand
<1>7. \A c \in next.customs : \E d \in state.customs : d.id = c.id /\ d.born = c.born
  BY <1>5
<1>. QED BY <1>2, <1>3, <1>5, <1>6, <1>7, MutateKeeps

\* The form alone changes.
LEMMA FormKeeps ==
  ASSUME ColoursInv, UNCHANGED <<row, page, state, dirty, saving, put, late, added, stores>>,
         form' \in [{"pla"} -> Draft], form'["pla"].id = Null \/ form'["pla"].id \in Colours!Ids(state.customs)
  PROVE  ColoursInv'
<1>1. ColoursTyped /\ ColoursStand /\ dirty \in BOOLEAN /\ saving \in BOOLEAN
  BY DEF ColoursInv
<1>2. ColoursTyped'
  BY <1>1 DEF ColoursTyped
<1>3. Customs' = Customs
  BY DEF Customs
<1>4. ColoursStand'
  BY <1>1, <1>3 DEF ColoursStand, Whole
<1>. QED BY <1>1, <1>2, <1>4 DEF ColoursInv

LEMMA FormEdited == ColoursInv /\ (Colours!EditForm("pla") \/ Colours!Fold("pla")) => ColoursInv'
<1>. SUFFICES ASSUME ColoursInv, Colours!EditForm("pla") \/ Colours!Fold("pla") PROVE ColoursInv'
  OBVIOUS
<1>1. state \in Offered /\ form \in [{"pla"} -> Draft]
      /\ (form["pla"].id = Null \/ form["pla"].id \in Colours!Ids(state.customs))
  BY DEF ColoursInv, ColoursTyped, ColoursStand
<1>2. UNCHANGED <<row, page, state, dirty, saving, put, late, added, stores>>
  BY DEF Colours!EditForm, Colours!Fold
<1>3. PICK d \in Draft : /\ form' = [form EXCEPT !["pla"] = d]
                         /\ d.id = Null \/ d.id \in Colours!Ids(state.customs)
  <2>1. form["pla"] \in Draft
    BY <1>1
  <2>2. CASE form' = [form EXCEPT !["pla"] = Colours!EMPTY_DRAFT]
    BY <2>2, EmptyDraft
  <2>3. CASE \E n \in {"Red", "red+"} : form' = [form EXCEPT !["pla"].name = n]
    <3>1. PICK n \in {"Red", "red+"} : form' = [form EXCEPT !["pla"].name = n]
      BY <2>3
    <3> DEFINE d == [form["pla"] EXCEPT !.name = n]
    <3>2. d \in Draft /\ d.id = form["pla"].id
      BY <2>1 DEF Draft
    <3>3. form' = [form EXCEPT !["pla"] = d]
      BY <3>1
    <3>. QED BY <1>1, <3>2, <3>3
  <2>4. CASE \E t \in {"#F00", "#F"} : form' = [form EXCEPT !["pla"] = Colours!setHex(form["pla"], t)]
    <3>1. PICK t \in {"#F00", "#F"} : form' = [form EXCEPT !["pla"] = Colours!setHex(form["pla"], t)]
      BY <2>4
    <3>2. Colours!setHex(form["pla"], t) \in Draft /\ Colours!setHex(form["pla"], t).id = form["pla"].id
      BY <2>1 DEF Draft, Colours!setHex
    <3>. QED BY <1>1, <3>1, <3>2
  <2>5. CASE \E c \in Colours!Of(state, "pla") :
               form' = [form EXCEPT !["pla"] = [id |-> c.id, name |-> c.name, hex |-> c.hex,
                          text |-> CHOOSE t \in {"#F00", "#F"} : (IF t = "#F" THEN "none" ELSE t) = c.hex]]
    <3>1. PICK c \in state.customs :
               form' = [form EXCEPT !["pla"] = [id |-> c.id, name |-> c.name, hex |-> c.hex,
                          text |-> CHOOSE t \in {"#F00", "#F"} : (IF t = "#F" THEN "none" ELSE t) = c.hex]]
      BY <1>1, <2>5, OfferedIs
    <3>2. c \in Custom /\ c.id \in Colours!Ids(state.customs)
      BY <1>1, OfferedIs DEF Colours!Ids
    <3>3. c.hex = "#F00"
      BY <3>2 DEF Custom
    <3>4. (CHOOSE t \in {"#F00", "#F"} : (IF t = "#F" THEN "none" ELSE t) = c.hex) \in {"#F00", "#F"}
      <4>1. (IF "#F00" = "#F" THEN "none" ELSE "#F00") = c.hex
        BY <3>3
      <4>. QED BY <4>1
    <3> DEFINE d == [id |-> c.id, name |-> c.name, hex |-> c.hex,
                     text |-> CHOOSE t \in {"#F00", "#F"} : (IF t = "#F" THEN "none" ELSE t) = c.hex]
    <3>5. d \in Draft /\ d.id = c.id
      BY <3>2, <3>4 DEF Custom, Draft
    <3>. QED BY <3>1, <3>2, <3>5
  <2>. QED BY <2>2, <2>3, <2>4, <2>5 DEF Colours!EditForm, Colours!Fold, Colours!Names
<1>4. form' \in [{"pla"} -> Draft] /\ form'["pla"] = d
  BY <1>1, <1>3
<1>. QED BY <1>2, <1>3, <1>4, FormKeeps

LEMMA DeleteKeeps == ColoursInv /\ Colours!Delete("pla") => ColoursInv'
<1>. SUFFICES ASSUME ColoursInv, Colours!Delete("pla") PROVE ColoursInv'
  OBVIOUS
<1>1. ColoursTyped /\ ColoursStand
  BY DEF ColoursInv
<1>2. state \in Offered /\ Whole(state) /\ added \in 0..MaxAdded /\ form \in [{"pla"} -> Draft] /\ form["pla"] \in Draft
  BY <1>1 DEF ColoursTyped, ColoursStand
<1>3. PICK c \in state.customs : /\ form' = [form EXCEPT !["pla"] = Colours!Forgets(form["pla"], c.id)]
                                 /\ Colours!mutate(Colours!deleteCustom("pla", c.id))
  BY <1>2, OfferedIs DEF Colours!Delete
<1>4. added' = added /\ added' >= added /\ UNCHANGED <<row, page, saving, put, stores>>
  BY <1>2 DEF Colours!Delete
<1> DEFINE next == Colours!deleteCustom("pla", c.id)
<1>5. /\ next \in Offered /\ next.customs = {d \in state.customs : d.id # c.id}
      /\ next.on["pla"] = state.on["pla"] \ {c.id} /\ next.heights = state.heights
  BY <1>2, OfferedIs DEF Colours!deleteCustom, Offered
<1>. HIDE DEF next
<1>6. Colours!Ids(next.customs) = Colours!Ids(state.customs) \ {c.id}
  BY <1>5 DEF Colours!Ids
<1>7. Whole(next)
  BY <1>2, <1>5, <1>6 DEF Whole
<1>8. /\ form' \in [{"pla"} -> Draft]
      /\ form'["pla"].id = Null \/ form'["pla"].id \in Colours!Ids(next.customs)
  <2>1. form'["pla"] = Colours!Forgets(form["pla"], c.id)
    BY <1>2, <1>3
  <2>2. CASE form["pla"].id = c.id
    BY <1>2, <1>3, <2>1, <2>2, EmptyDraft DEF Colours!Forgets
  <2>3. CASE form["pla"].id # c.id
    BY <1>1, <1>2, <1>3, <1>6, <2>1, <2>3 DEF ColoursStand, Colours!Forgets
  <2>. QED BY <2>2, <2>3
<1>9. \A d \in next.customs : \E e \in state.customs : e.id = d.id /\ e.born = d.born
  BY <1>5
<1>10. Colours!mutate(next)
  BY <1>3 DEF next
<1>. QED BY <1>2, <1>4, <1>5, <1>7, <1>8, <1>9, <1>10, MutateKeeps

\* A colour of the edit state that is changed in place keeps its id and its number.
LEMMA ChangeKeeps ==
  ASSUME ColoursInv, Colours!Submit("pla"), form["pla"].id \in Colours!Ids(state.customs)
  PROVE  ColoursInv'
<1>1. ColoursTyped /\ ColoursStand
  BY DEF ColoursInv
<1>2. state \in Offered /\ Whole(state) /\ added \in 0..MaxAdded /\ form \in [{"pla"} -> Draft] /\ form["pla"] \in Draft
  BY <1>1 DEF ColoursTyped, ColoursStand
<1> DEFINE d == form["pla"]
           Changed(c) == IF c.id = d.id THEN [c EXCEPT !.name = d.name, !.hex = d.hex, !.text = d.text] ELSE c
           next == [state EXCEPT !.customs = {Changed(c) : c \in state.customs}]
<1>3. /\ Colours!mutate(next) /\ form' = [form EXCEPT !["pla"] = Colours!EMPTY_DRAFT]
      /\ UNCHANGED <<row, page, saving, put, stores>> /\ added' \in 0..MaxAdded /\ added' >= added
  <2>1. Colours!mutate(Colours!saveCustom("pla", d)) /\ form' = [form EXCEPT !["pla"] = Colours!EMPTY_DRAFT]
        /\ UNCHANGED <<row, page, saving, put, stores>>
    BY DEF Colours!Submit
  <2>2. Colours!saveCustom("pla", d) = next
    BY DEF Colours!saveCustom
  <2>3. (added < MaxAdded /\ added' = added + 1) \/ added' = added
    BY DEF Colours!Submit
  <2>4. added' \in 0..MaxAdded /\ added' >= added
    BY <1>2, <2>3, EditorsAssumption
  <2>. QED BY <2>1, <2>2, <2>4
<1>4. /\ d.name \in {"Red", "red+"} /\ d.hex = "#F00" /\ d.text = "#F00"
      /\ \A c \in state.customs : c.name = d.name => c.id = d.id
  <2>1. d.name # Null /\ d.text # "#F" /\ \A c \in Colours!Of(state, "pla") : c.name = d.name => c.id = d.id
    BY <1>2 DEF Colours!Submit, Colours!valid, Draft
  <2>. QED BY <1>2, <2>1, OfferedIs DEF Draft
<1>5. \A c \in state.customs : /\ Changed(c) \in Custom /\ Changed(c).id = c.id /\ Changed(c).born = c.born
                               /\ c.id = d.id => Changed(c).name = d.name
                               /\ c.id # d.id => Changed(c).name = c.name
  <2>1. \A c \in state.customs : c \in Custom
    BY <1>2, OfferedIs
  <2>. QED BY <1>4, <2>1 DEF Custom
<1>. HIDE DEF d, Changed
<1>6. /\ next \in Offered /\ next.customs = {Changed(c) : c \in state.customs}
      /\ next.on = state.on /\ next.heights = state.heights
  BY <1>2, <1>5 DEF Offered
<1>. HIDE DEF next
<1>7. Colours!Ids(next.customs) = Colours!Ids(state.customs)
  BY <1>5, <1>6 DEF Colours!Ids
<1>8. Whole(next)
  <2>1. ASSUME NEW a \in next.customs, NEW b \in next.customs, a # b PROVE a.id # b.id /\ a.name # b.name
    <3>1. PICK a0 \in state.customs : a = Changed(a0)
      BY <1>6
    <3>2. PICK b0 \in state.customs : b = Changed(b0)
      BY <1>6
    <3>3. a0.id # b0.id /\ a0.name # b0.name
      BY <1>2, <2>1, <3>1, <3>2 DEF Whole
    <3>. QED BY <1>4, <1>5, <3>1, <3>2, <3>3
  <2>. QED BY <1>2, <1>6, <1>7, <2>1 DEF Whole
<1>9. form' \in [{"pla"} -> Draft] /\ form'["pla"].id = Null
  BY <1>2, <1>3, EmptyDraft
<1>10. \A c \in next.customs : \E e \in state.customs : e.id = c.id /\ e.born = c.born
  BY <1>5, <1>6
<1>. QED BY <1>2, <1>3, <1>6, <1>8, <1>9, <1>10, MutateKeeps

\* A new colour has an id that nobody who looks at the page or the edits has seen.
LEMMA NewId ==
  ASSUME ColoursInv, NEW name \in {"Red", "red+"}
  PROVE  \E n \in 1..(added + 1) : /\ Colours!newCustomColourId("pla", name) = <<"pla", "red", n>>
                                   /\ \A c \in page.customs \cup state.customs : c.id # <<"pla", "red", n>>
<1>1. ColoursTyped /\ ColoursStand
  BY DEF ColoursInv
<1> DEFINE used == Colours!Ids(page.customs) \cup Colours!Ids(state.customs)
           Free(n) == <<"pla", "red", n>> \notin used
           First(n) == Free(n) /\ \A k \in 1..(n - 1) : ~Free(k)
<1>2. added \in Nat
  BY <1>1, EditorsAssumption DEF ColoursTyped
<1>3. Free(added + 1)
  <2>1. SUFFICES ASSUME NEW c \in page.customs \cup state.customs PROVE c.id # <<"pla", "red", added + 1>>
    BY DEF Colours!Ids
  <2>2. c \in Customs /\ c \in Custom
    BY <1>1, OfferedIs DEF Customs, ColoursTyped
  <2>3. c.born \in Int /\ c.born <= added
    BY <1>1, <2>2 DEF ColoursStand, Custom
  <2>4. PICK n \in 1..c.born : c.id = <<"pla", "red", n>>
    BY <1>1, <2>2 DEF ColoursStand
  <2>5. n # added + 1
    BY <1>2, <2>3, <2>4
  <2>. QED BY <2>4, <2>5
<1>. HIDE DEF Free
<1>4. \E n \in 1..(added + 1) : First(n)
  <2> DEFINE B == {n \in 1..(added + 1) : Free(n)}
  <2>1. added + 1 \in B /\ B \in SUBSET Nat
    BY <1>2, <1>3
  <2>2. PICK n \in B : \A m \in 0..(n - 1) : m \notin B
    BY <2>1, Smallest
  <2>3. n \in 1..(added + 1) /\ Free(n)
    BY <2>2
  <2>4. ASSUME NEW k \in 1..(n - 1) PROVE ~Free(k)
    <3>1. k \in 1..(added + 1) /\ k \in 0..(n - 1)
      BY <1>2, <2>3
    <3>. QED BY <2>2, <3>1
  <2>. QED BY <2>3, <2>4
<1> DEFINE n == CHOOSE k \in 1..(added + 1) : First(k)
<1>5. n \in 1..(added + 1) /\ First(n)
  BY <1>4
<1>6. Colours!newCustomColourId("pla", name) = <<"pla", "red", n>>
  BY DEF Colours!newCustomColourId, Free
<1>. HIDE DEF n
<1>7. \A c \in page.customs \cup state.customs : c.id # <<"pla", "red", n>>
  BY <1>5 DEF Free, Colours!Ids
<1>. QED BY <1>5, <1>6, <1>7

LEMMA AddKeeps ==
  ASSUME ColoursInv, Colours!Submit("pla"), form["pla"].id \notin Colours!Ids(state.customs)
  PROVE  ColoursInv'
<1>1. ColoursTyped /\ ColoursStand /\ saving \in BOOLEAN
  BY DEF ColoursInv
<1>2. state \in Offered /\ Whole(state) /\ added \in 0..MaxAdded /\ form \in [{"pla"} -> Draft] /\ form["pla"] \in Draft
  BY <1>1 DEF ColoursTyped, ColoursStand
<1>3. form["pla"].id = Null
  BY <1>1 DEF ColoursStand
<1> DEFINE d == form["pla"]
           id == Colours!newCustomColourId("pla", d.name)
           new == [id |-> id, name |-> d.name, hex |-> d.hex, material |-> "pla", text |-> d.text, born |-> added + 1]
           next == [state EXCEPT !.customs = state.customs \cup {new}, !.on["pla"] = state.on["pla"] \cup {id}]
<1>4. /\ Colours!mutate(next) /\ form' = [form EXCEPT !["pla"] = Colours!EMPTY_DRAFT]
      /\ UNCHANGED <<row, page, saving, put, stores>> /\ added < MaxAdded /\ added' = added + 1
  BY <1>3 DEF Colours!Submit, Colours!saveCustom
<1>5. /\ d.name \in {"Red", "red+"} /\ d.hex = "#F00" /\ d.text = "#F00"
      /\ \A c \in state.customs : c.name # d.name
  <2>1. d.name # Null /\ d.text # "#F" /\ \A c \in Colours!Of(state, "pla") : c.name = d.name => c.id = d.id
    BY <1>2 DEF Colours!Submit, Colours!valid, Draft
  <2>2. \A c \in state.customs : c.id \in Colours!Ids(state.customs)
    BY DEF Colours!Ids
  <2>. QED BY <1>2, <2>1, <2>2, OfferedIs DEF Draft
<1>6. PICK n \in 1..(added + 1) : /\ id = <<"pla", "red", n>>
                                  /\ \A c \in page.customs \cup state.customs : c.id # <<"pla", "red", n>>
  BY <1>4, <1>5, NewId
<1>. HIDE DEF id
<1>7. id \in ColourIds /\ added + 1 \in 1..MaxAdded /\ added' \in 0..MaxAdded
  BY <1>2, <1>4, <1>6, EditorsAssumption DEF ColourIds
<1>8. new \in Custom /\ new.id = id /\ new.name = d.name /\ new.born = added + 1
  BY <1>5, <1>7 DEF Custom
<1>. HIDE DEF new, d
<1>9. /\ next \in Offered /\ next.customs = state.customs \cup {new}
      /\ next.on["pla"] = state.on["pla"] \cup {id} /\ next.heights = state.heights
  BY <1>2, <1>7, <1>8, OfferedIs DEF Offered
<1>. HIDE DEF next
<1>10. Colours!Ids(next.customs) = Colours!Ids(state.customs) \cup {id}
  BY <1>8, <1>9 DEF Colours!Ids
<1>11. Whole(next)
  <2>1. \A c \in state.customs : c.id # new.id /\ c.name # new.name
    BY <1>5, <1>6, <1>8
  <2>2. \A a, b \in next.customs : a # b => a.id # b.id /\ a.name # b.name
    BY <1>2, <1>9, <2>1 DEF Whole
  <2>. QED BY <1>2, <1>9, <1>10, <2>2 DEF Whole
<1>12. /\ state' = next /\ dirty' = TRUE /\ late \subseteq late' /\ late' \subseteq late \cup {"edited", "added"}
       /\ saving => "edited" \in late'
       /\ "added" \notin late' => ~saving /\ page = row
  BY <1>2, <1>4 DEF Colours!mutate
<1>13. form' \in [{"pla"} -> Draft] /\ form'["pla"].id = Null
  BY <1>2, <1>4, EmptyDraft
<1>14. ColoursTyped'
  BY <1>1, <1>4, <1>7, <1>9, <1>12, <1>13 DEF ColoursTyped
<1>15. Customs' \subseteq Customs \cup {new}
  BY <1>4, <1>9, <1>12 DEF Customs
<1>16. \A c \in Customs' : c.born <= added' /\ \E k \in 1..c.born : c.id = <<"pla", "red", k>>
  <2>1. ASSUME NEW c \in Customs PROVE c.born <= added' /\ \E k \in 1..c.born : c.id = <<"pla", "red", k>>
    <3>1. c \in Custom
      BY <1>1, OfferedIs DEF Customs, ColoursTyped
    <3>2. c.born \in Int /\ c.born <= added /\ \E k \in 1..c.born : c.id = <<"pla", "red", k>>
      BY <1>1, <3>1 DEF ColoursStand, Custom
    <3>. QED BY <1>2, <1>4, <3>2
  <2>2. new.born <= added' /\ \E k \in 1..new.born : new.id = <<"pla", "red", k>>
    BY <1>2, <1>4, <1>6, <1>8
  <2>. QED BY <1>15, <2>1, <2>2
<1>17. ASSUME "added" \notin late' PROVE \A a, b \in Customs' : a.id = b.id => a.born = b.born
  <2>1. ~saving /\ page = row /\ "added" \notin late
    BY <1>12, <1>17
  <2>2. Customs = page.customs \cup state.customs
    BY <1>1, <2>1 DEF Customs, ColoursStand
  <2>3. \A c \in Customs : c.id # new.id
    BY <1>6, <1>8, <2>2
  <2>. QED BY <1>1, <1>15, <2>1, <2>3 DEF ColoursStand
<1>18. /\ saving' <=> put' # {}
       /\ Whole(row)' /\ Whole(page)' /\ Whole(state)'
       /\ \A o \in put' : Whole(o) /\ ("edited" \notin late' => o = state')
  BY <1>1, <1>4, <1>11, <1>12 DEF ColoursStand, Whole
<1>19. ColoursStand'
  BY <1>12, <1>13, <1>16, <1>17, <1>18 DEF ColoursStand
<1>. QED BY <1>1, <1>4, <1>12, <1>14, <1>19 DEF ColoursInv

LEMMA NormalOffer ==
  ASSUME NEW o \in Offered, Whole(o)
  PROVE  Colours!normalizeAvailability(o) = o
<1>1. o.on["pla"] \cap Colours!Ids(Colours!Of(o, "pla")) = o.on["pla"] /\ o.heights # {}
  BY OfferedIs DEF Whole
<1>2. o.on \in [{"pla"} -> SUBSET ColourIds]
  BY DEF Offered
<1> DEFINE on == [m \in {"pla"} |-> o.on[m] \cap ({} \cup Colours!Ids(Colours!Of(o, m)))]
<1>3. on = o.on
  BY <1>1, <1>2
<1>. HIDE DEF on
<1>4. Colours!normalizeAvailability(o) = [o EXCEPT !.on = on, !.heights = o.heights]
  BY <1>1 DEF Colours!normalizeAvailability, on
<1>. QED BY <1>3, <1>4, OfferedIs

LEMMA ColourSaved == ColoursInv /\ Colours!save => ColoursInv'
<1>. SUFFICES ASSUME ColoursInv, Colours!save PROVE ColoursInv'
  OBVIOUS
<1>1. ColoursTyped /\ ColoursStand /\ dirty \in BOOLEAN /\ saving \in BOOLEAN
  BY DEF ColoursInv
<1>2. /\ dirty /\ ~saving /\ put' = {Colours!Body} /\ saving' = TRUE /\ late' = late \ {"edited"}
      /\ stores < ColourSaves /\ stores' = stores + 1 /\ UNCHANGED <<row, page, state, form, dirty, added>>
  BY DEF Colours!save
<1>3. state \in Offered /\ Whole(state)
  BY <1>1 DEF ColoursTyped, ColoursStand
<1>4. Colours!Body = state
  <2>1. state.on["pla"] \cap Colours!editorColours("pla") = state.on["pla"]
    BY <1>3, OfferedIs DEF Whole, Colours!editorColours
  <2>2. state.on \in [{"pla"} -> SUBSET ColourIds]
    BY <1>3 DEF Offered
  <2> DEFINE on == [m \in {"pla"} |-> state.on[m] \cap Colours!editorColours(m)]
  <2>3. on = state.on
    BY <2>1, <2>2
  <2>. HIDE DEF on
  <2>4. Colours!Body = [state EXCEPT !.on = on]
    BY DEF Colours!Body, on
  <2>. QED BY <1>3, <2>3, <2>4, OfferedIs
<1>5. ColoursTyped'
  <2>1. stores' \in 0..ColourSaves
    BY <1>1, <1>2, EditorsAssumption DEF ColoursTyped
  <2>. QED BY <1>1, <1>2, <1>3, <1>4, <2>1 DEF ColoursTyped
<1>6. put = {} /\ Customs' = Customs
  BY <1>1, <1>2, <1>4 DEF ColoursStand, Customs
<1>7. ("added" \in late' <=> "added" \in late) /\ "edited" \notin late'
  BY <1>2
<1>8. ~dirty' /\ "edited" \notin late' => state' = row'
  BY <1>2
<1>9. ColoursStand'
  BY <1>1, <1>2, <1>3, <1>4, <1>6, <1>7, <1>8 DEF ColoursStand, Whole
<1>. QED BY <1>1, <1>2, <1>5, <1>9 DEF ColoursInv

\* The save ends: what it sent is stored, or nothing is.
LEMMA SaveEnds ==
  ASSUME ColoursInv, put' = {}, saving' = FALSE, UNCHANGED <<page, state, form, late, added, stores>>,
         \/ row' = row /\ dirty' = dirty
         \/ \E body \in put : row' = Colours!normalizeAvailability(body) /\ dirty' \in {dirty, FALSE},
         put # {}
  PROVE  ColoursInv'
<1>1. ColoursTyped /\ ColoursStand /\ dirty \in BOOLEAN /\ saving
  BY DEF ColoursInv, ColoursStand
<1>2. \A o \in put : o \in Offered /\ Whole(o) /\ Colours!normalizeAvailability(o) = o
  BY <1>1, NormalOffer DEF ColoursTyped, ColoursStand
<1>3. \/ row' = row /\ dirty' = dirty
      \/ row' \in put /\ dirty' \in {dirty, FALSE}
  BY <1>2
<1>4. row' \in Offered /\ Whole(row')
  BY <1>1, <1>2, <1>3 DEF ColoursTyped, ColoursStand
<1>5. ColoursTyped'
  BY <1>1, <1>4 DEF ColoursTyped
<1>6. Customs' \subseteq Customs
  BY <1>3 DEF Customs
<1>7. ~dirty' /\ "edited" \notin late' => state' = row'
  BY <1>1, <1>3 DEF ColoursStand
<1>8. Whole(row)' /\ Whole(page)' /\ Whole(state)'
  BY <1>1, <1>4 DEF ColoursStand, Whole
<1>9. ColoursStand'
  BY <1>1, <1>6, <1>7, <1>8 DEF ColoursStand
<1>. QED BY <1>1, <1>3, <1>5, <1>9 DEF ColoursInv

LEMMA ColourAnswers == ColoursInv /\ (Colours!PUT \/ Colours!Lost) => ColoursInv'
<1>. SUFFICES ASSUME ColoursInv, Colours!PUT \/ Colours!Lost PROVE ColoursInv'
  OBVIOUS
<1>1. put # {} /\ put' = {} /\ saving' = FALSE /\ UNCHANGED <<page, state, form, late, added, stores>>
  BY DEF Colours!PUT, Colours!Lost
<1>2. \/ row' = row /\ dirty' = dirty
      \/ \E body \in put : row' = Colours!normalizeAvailability(body) /\ dirty' \in {dirty, FALSE}
  BY DEF Colours!PUT, Colours!Lost
<1>. QED BY <1>1, <1>2, SaveEnds

LEMMA PageKeeps == ColoursInv /\ (Colours!Refresh \/ Colours!Load) => ColoursInv'
<1>. SUFFICES ASSUME ColoursInv, Colours!Refresh \/ Colours!Load PROVE ColoursInv'
  OBVIOUS
<1>1. ColoursTyped /\ ColoursStand /\ dirty \in BOOLEAN /\ saving \in BOOLEAN
  BY DEF ColoursInv
<1>2. CASE Colours!Refresh
  <2>1. page' = row /\ UNCHANGED <<row, state, form, dirty, saving, put, late, added, stores>>
    BY <1>2 DEF Colours!Refresh
  <2>2. Customs' \subseteq Customs
    BY <2>1 DEF Customs
  <2>3. ColoursTyped'
    BY <1>1, <2>1 DEF ColoursTyped
  <2>4. ColoursStand'
    BY <1>1, <2>1, <2>2 DEF ColoursStand, Whole
  <2>. QED BY <1>1, <2>1, <2>3, <2>4 DEF ColoursInv
<1>3. CASE Colours!Load
  <2>1. /\ put = {} /\ page' = row /\ state' = row /\ form' = [m \in {"pla"} |-> Colours!EMPTY_DRAFT]
        /\ dirty' = FALSE /\ late' = {} /\ UNCHANGED <<row, saving, put, added, stores>>
    BY <1>3 DEF Colours!Load
  <2>2. Customs' = row.customs /\ row.customs \subseteq Customs /\ ~saving
    BY <1>1, <2>1 DEF Customs, ColoursStand
  <2>3. form' \in [{"pla"} -> Draft] /\ form'["pla"].id = Null
    BY <2>1, EmptyDraft
  <2>4. ColoursTyped'
    BY <1>1, <2>1, <2>3 DEF ColoursTyped
  <2>5. \A a, b \in Customs' : a.id = b.id => a.born = b.born
    BY <1>1, <2>2 DEF ColoursStand, Whole
  <2>6. ColoursStand'
    BY <1>1, <2>1, <2>2, <2>3, <2>5 DEF ColoursStand, Whole
  <2>. QED BY <1>1, <2>1, <2>4, <2>6 DEF ColoursInv
<1>. QED BY <1>2, <1>3

LEMMA ColoursStep == ColoursInv /\ [Colours!Next]_colourVars => ColoursInv'
<1>1. ASSUME ColoursInv, UNCHANGED colourVars PROVE ColoursInv'
  <2>1. UNCHANGED <<row, page, state, form, dirty, saving, put, late, added, stores>>
    BY <1>1 DEF colourVars
  <2>. QED BY <1>1, <2>1, FormKeeps DEF ColoursInv, ColoursTyped, ColoursStand
<1>2. ASSUME ColoursInv, Colours!Submit("pla") PROVE ColoursInv'
  BY <1>2, ChangeKeeps, AddKeeps
<1>3. CASE Colours!Next
  BY <1>2, <1>3, SwitchKeeps, FormEdited, DeleteKeeps, ColourSaved, ColourAnswers, PageKeeps DEF Colours!Next
<1>. QED BY <1>1, <1>3

LEMMA ColoursStay == ColoursInv => Colours!ColoursTrue
<1>. SUFFICES ASSUME ColoursInv PROVE Colours!ColoursTrue
  OBVIOUS
<1>1. ColoursTyped /\ ColoursStand /\ dirty \in BOOLEAN /\ saving \in BOOLEAN
  BY DEF ColoursInv
<1>2. \A o \in {row, page, state} : o \in Offered /\ Whole(o)
  BY <1>1 DEF ColoursTyped, ColoursStand
<1>3. \A o \in {row, page, state} : /\ o.on["pla"] \subseteq {} \cup Colours!Ids(Colours!Of(o, "pla"))
                                    /\ o.heights \in SUBSET {1, 2} /\ o.heights # {}
  BY <1>2, OfferedIs DEF Whole
<1>4. Colours!TypeOK
  BY <1>1, <1>3 DEF ColoursTyped, ColoursStand, Colours!TypeOK
<1>5. Colours!IdMeansOne
  BY <1>1 DEF ColoursStand, Customs, Colours!IdMeansOne
<1>6. Colours!ToldApart
  <2>1. \A o \in {row, state} : \A c, d \in o.customs :
          c.text = "#F00" /\ c.hex = "#F00" /\ (c # d => c.id # d.id /\ c.name # d.name)
    <3>1. \A o \in {row, state} : o.customs \subseteq Custom
      BY <1>2, OfferedIs
    <3>. QED BY <1>2, <3>1 DEF Whole, Custom
  <2>. QED BY <2>1 DEF Colours!ToldApart
<1>7. Colours!CleanIsStored
  BY <1>1 DEF ColoursStand, Colours!CleanIsStored
<1>8. Colours!Pickable
  BY <1>3 DEF Colours!Pickable
<1>. QED BY <1>4, <1>5, <1>6, <1>7, <1>8 DEF Colours!ColoursTrue

-----------------------------------------------------------------------------
(* The helper's pick.                                                      *)

\* One turn of the loop over the catalogue, and the loop by its definition as a fold.
Turn(best, m, needs, offered, scores) ==
  IF m \in offered THEN Chooser!Better(best, m, needs, scores) ELSE best

Last(s) == CHOOSE i \in s : \A j \in s : i >= j
Shelf == <<"a", "b", "c">>

IsLoop(g, needs, offered, scores) ==
  g = [s \in SUBSET (1..3) |->
         IF s = {} THEN Null ELSE Turn(g[s \ {Last(s)}], Shelf[Last(s)], needs, offered, scores)]

LEMMA PickIs ==
  \A needs, offered, scores :
    Chooser!pickMaterial(needs, offered, scores) = (CHOOSE g : IsLoop(g, needs, offered, scores))[1..3]
<1>1. DOMAIN Shelf = 1..3
  BY DEF Shelf
<1>. QED BY <1>1 DEF Chooser!pickMaterial, Chooser!FoldLeft, Chooser!MapThenFoldSet, Chooser!Max, IsLoop, Last, Turn, Shelf

LEMMA LastIs == /\ Last({1}) = 1 /\ Last({1, 2}) = 2 /\ Last(1..3) = 3
                /\ \A s \in SUBSET (1..3) : s # {} => Last(s) \in s /\ \A j \in s : Last(s) >= j
<1>1. ASSUME NEW s \in SUBSET (1..3), s # {} PROVE Last(s) \in s /\ \A j \in s : Last(s) >= j
  <2>1. \E i \in s : \A j \in s : i >= j
    <3>1. CASE 3 \in s
      BY <3>1
    <3>2. CASE 3 \notin s /\ 2 \in s
      BY <3>2
    <3>3. CASE 3 \notin s /\ 2 \notin s
      <4>1. \A j \in s : j = 1
        <5>1. ASSUME NEW j \in s PROVE j = 1
          <6>1. j \in 1..3 /\ j # 3 /\ j # 2
            BY <3>3
          <6>. QED BY <6>1
        <5>. QED BY <5>1
      <4>2. 1 \in s
        BY <1>1, <4>1
      <4>. QED BY <4>1, <4>2
    <3>. QED BY <3>1, <3>2, <3>3
  <2>. QED BY <2>1 DEF Last
<1>2. Last({1}) = 1
  BY <1>1
<1>3. Last({1, 2}) = 2
  <2>1. {1, 2} \in SUBSET (1..3)
    OBVIOUS
  <2>. QED BY <1>1, <2>1
<1>4. Last(1..3) = 3
  BY <1>1
<1>. QED BY <1>1, <1>2, <1>3, <1>4

LEMMA LoopIs ==
  \A needs, offered, scores :
    \E one, two :
      /\ one = Turn(Null, "a", needs, offered, scores)
      /\ two = Turn(one, "b", needs, offered, scores)
      /\ Chooser!pickMaterial(needs, offered, scores) = Turn(two, "c", needs, offered, scores)
<1>. TAKE needs, offered, scores
<1> DEFINE next(best, m) == Turn(best, m, needs, offered, scores)
           step(best, i, s) == IF i \in s THEN next(best, Shelf[i]) ELSE best
           h == [s \in SUBSET (1..3) |-> step(step(step(Null, 1, s), 2, s), 3, s)]
           G == CHOOSE g : IsLoop(g, needs, offered, scores)
<1>. HIDE DEF next
<1>1. ASSUME NEW s \in SUBSET (1..3), s # {} PROVE h[s] = next(h[s \ {Last(s)}], Shelf[Last(s)])
  <2>1. Last(s) \in s /\ Last(s) \in 1..3 /\ \A j \in s : Last(s) >= j
    BY <1>1, LastIs
  <2>2. s \ {Last(s)} \in SUBSET (1..3)
    OBVIOUS
  <2>3. CASE Last(s) = 1
    <3>1. 1 \in s /\ 2 \notin s /\ 3 \notin s
      BY <2>1, <2>3
    <3>. QED BY <2>2, <2>3, <3>1
  <2>4. CASE Last(s) = 2
    <3>1. 2 \in s /\ 3 \notin s
      BY <2>1, <2>4
    <3>. QED BY <2>2, <2>4, <3>1
  <2>5. CASE Last(s) = 3
    BY <2>1, <2>2, <2>5
  <2>. QED BY <2>1, <2>3, <2>4, <2>5
<1>2. h[{}] = Null
  OBVIOUS
<1>3. h = [s \in SUBSET (1..3) |-> IF s = {} THEN Null ELSE next(h[s \ {Last(s)}], Shelf[Last(s)])]
  <2>. HIDE DEF step
  <2>1. \A s \in SUBSET (1..3) : h[s] = IF s = {} THEN Null ELSE next(h[s \ {Last(s)}], Shelf[Last(s)])
    BY <1>1, <1>2
  <2>2. h = [s \in SUBSET (1..3) |-> h[s]]
    OBVIOUS
  <2>. HIDE DEF h
  <2>. QED BY <2>1, <2>2
<1>4. IsLoop(G, needs, offered, scores)
  <2>. HIDE DEF h
  <2>1. IsLoop(h, needs, offered, scores)
    BY <1>3 DEF IsLoop, next
  <2>. QED BY <2>1
<1>. HIDE DEF G
<1>5. \A s \in SUBSET (1..3) : G[s] = IF s = {} THEN Null ELSE next(G[s \ {Last(s)}], Shelf[Last(s)])
  BY <1>4 DEF IsLoop, next
<1>6. /\ G[{}] = Null /\ G[{1}] = next(G[{}], "a") /\ G[{1, 2}] = next(G[{1}], "b")
      /\ G[1..3] = next(G[{1, 2}], "c")
  <2>1. {1} \ {1} = {} /\ {1, 2} \ {2} = {1} /\ (1..3) \ {3} = {1, 2}
    OBVIOUS
  <2>2. {} \in SUBSET (1..3) /\ {1} \in SUBSET (1..3) /\ {1, 2} \in SUBSET (1..3) /\ 1..3 \in SUBSET (1..3)
    OBVIOUS
  <2>3. {1} # {} /\ {1, 2} # {} /\ 1..3 # {}
    OBVIOUS
  <2>4. Shelf[1] = "a" /\ Shelf[2] = "b" /\ Shelf[3] = "c"
    BY DEF Shelf
  <2>. QED BY <1>5, <2>1, <2>2, <2>3, <2>4, LastIs
<1>. WITNESS G[{1}]
<1>. WITNESS G[{1, 2}]
<1>7. Chooser!pickMaterial(needs, offered, scores) = G[1..3]
  BY PickIs DEF G
<1>. QED BY <1>6, <1>7 DEF next

Totals(m, needs, scores) == Chooser!Total(scores, m, needs)
Place(m) == CHOOSE i \in 1..3 : Shelf[i] = m

\* What the loop has chosen of the materials it has seen.
Best(best, seen, needs, scores) ==
  /\ best = Null => \A m \in seen : Totals(m, needs, scores) = 0
  /\ best # Null =>
       /\ best \in seen /\ Totals(best, needs, scores) > 0
       /\ \A m \in seen \ {best} :
            \/ Totals(m, needs, scores) < Totals(best, needs, scores)
            \/ /\ Totals(m, needs, scores) = Totals(best, needs, scores)
               /\ HelperRate[m] > HelperRate[best]
            \/ /\ Totals(m, needs, scores) = Totals(best, needs, scores)
               /\ HelperRate[m] = HelperRate[best]
               /\ Place(m) > Place(best)

LEMMA PlaceIs == Place("a") = 1 /\ Place("b") = 2 /\ Place("c") = 3
  BY DEF Place, Shelf

LEMMA RateIs == \A m \in {"a", "b", "c"} : HelperRate[m] \in Nat
  BY DEF HelperRate

LEMMA TurnKeeps ==
  ASSUME NEW needs, NEW scores, NEW offered, NEW m \in {"a", "b", "c"}, NEW seen \in SUBSET {"a", "b", "c"},
         NEW best, Best(best, seen \cap offered, needs, scores),
         \A n \in seen : Place(n) < Place(m) /\ Place(n) \in Nat, Place(m) \in Nat,
         \A n \in offered : Totals(n, needs, scores) \in Nat
  PROVE  Best(Turn(best, m, needs, offered, scores), (seen \cup {m}) \cap offered, needs, scores)
<1> DEFINE T(n) == Totals(n, needs, scores)
           R(n) == HelperRate[n]
           P(n) == Place(n)
           then == Turn(best, m, needs, offered, scores)
<1>1. CASE m \notin offered
  <2>1. then = best /\ (seen \cup {m}) \cap offered = seen \cap offered
    BY <1>1 DEF Turn
  <2>. QED BY <2>1
<1>2. CASE m \in offered
  <2>1. then = IF T(m) = 0 THEN best
               ELSE IF best = Null \/ T(m) > T(best) \/ (T(m) = T(best) /\ R(m) < R(best)) THEN m ELSE best
    BY <1>2 DEF Turn, Chooser!Better, Totals
  <2>2. T(m) \in Nat /\ R(m) \in Nat /\ P(m) \in Nat
    BY <1>2, RateIs
  <2>3. \A n \in seen \cap offered : T(n) \in Nat /\ R(n) \in Nat /\ P(n) \in Nat /\ P(n) < P(m)
    BY RateIs
  <2>4. m # Null
    BY MaterialsAssumption
  <2>5. (seen \cup {m}) \cap offered = (seen \cap offered) \cup {m}
    BY <1>2
  <2>6. /\ best = Null => \A n \in seen \cap offered : T(n) = 0
        /\ best # Null => best \in seen \cap offered /\ T(best) > 0
        /\ best # Null => \A n \in (seen \cap offered) \ {best} :
              T(n) < T(best) \/ (T(n) = T(best) /\ (R(n) > R(best) \/ (R(n) = R(best) /\ P(n) > P(best))))
    BY DEF Best
  <2>. HIDE DEF T, R, P, then
  <2>7. then = Null => \A n \in (seen \cap offered) \cup {m} : T(n) = 0
    BY <2>1, <2>2, <2>4, <2>6
  <2>8. then # Null => then \in (seen \cap offered) \cup {m} /\ T(then) > 0
    BY <2>1, <2>2, <2>4, <2>6
  <2>9. ASSUME then # Null, NEW n \in ((seen \cap offered) \cup {m}) \ {then}
        PROVE  T(n) < T(then) \/ (T(n) = T(then) /\ (R(n) > R(then) \/ (R(n) = R(then) /\ P(n) > P(then))))
    <3>1. CASE then = best
      <4>1. CASE n = m
        <5>1. best # Null /\ T(best) \in Nat /\ R(best) \in Nat /\ P(best) < P(m) /\ P(best) \in Nat /\ T(best) > 0
          BY <2>3, <2>6, <2>9, <3>1
        <5>2. T(m) = 0 \/ ~(T(m) > T(best) \/ (T(m) = T(best) /\ R(m) < R(best)))
          BY <2>1, <2>9, <3>1, <4>1
        <5>. QED BY <2>2, <3>1, <4>1, <5>1, <5>2
      <4>2. CASE n # m
        BY <2>6, <2>9, <3>1, <4>2
      <4>. QED BY <4>1, <4>2
    <3>2. CASE then # best
      <4>1. then = m /\ T(m) # 0 /\ (best = Null \/ T(m) > T(best) \/ (T(m) = T(best) /\ R(m) < R(best)))
        BY <2>1, <3>2
      <4>2. n \in seen \cap offered /\ T(n) \in Nat /\ R(n) \in Nat
        BY <2>3, <2>9, <4>1
      <4>3. CASE best = Null
        BY <2>2, <2>6, <4>1, <4>2, <4>3
      <4>4. CASE best # Null
        <5>1. T(best) \in Nat /\ R(best) \in Nat /\ (n = best \/ T(n) < T(best) \/ (T(n) = T(best) /\ R(n) >= R(best)))
          <6>1. best \in seen \cap offered
            BY <2>6, <4>4
          <6>2. R(best) \in Nat /\ T(best) \in Nat
            BY <2>3, <6>1
          <6>3. n # best => T(n) < T(best) \/ (T(n) = T(best) /\ (R(n) > R(best) \/ R(n) = R(best)))
            BY <2>6, <4>2, <4>4
          <6>. QED BY <4>2, <6>2, <6>3
        <5>2. T(m) > T(best) \/ (T(m) = T(best) /\ R(m) < R(best))
          BY <4>1, <4>4
        <5>. QED BY <2>2, <4>1, <4>2, <5>1, <5>2
      <4>. QED BY <4>3, <4>4
    <3>. QED BY <3>1, <3>2
  <2>. QED BY <2>5, <2>7, <2>8, <2>9 DEF Best, T, R, P, then
<1>. QED BY <1>1, <1>2

LEMMA PickBest ==
  ASSUME NEW needs, NEW scores, NEW offered \in SUBSET {"a", "b", "c"},
         \A n \in offered : Totals(n, needs, scores) \in Nat
  PROVE  Best(Chooser!pickMaterial(needs, offered, scores), offered, needs, scores)
<1>1. PICK one, two :
        /\ one = Turn(Null, "a", needs, offered, scores)
        /\ two = Turn(one, "b", needs, offered, scores)
        /\ Chooser!pickMaterial(needs, offered, scores) = Turn(two, "c", needs, offered, scores)
  BY LoopIs
<1>2. Best(Null, {} \cap offered, needs, scores)
  BY DEF Best
<1>3. Best(one, {"a"} \cap offered, needs, scores)
  <2>1. {} \cup {"a"} = {"a"} /\ {} \in SUBSET {"a", "b", "c"}
    OBVIOUS
  <2>2. Place("a") \in Nat
    BY PlaceIs
  <2>3. Best(Turn(Null, "a", needs, offered, scores), ({} \cup {"a"}) \cap offered, needs, scores)
    BY <1>2, <2>1, <2>2, TurnKeeps
  <2>. QED BY <1>1, <2>1, <2>3
<1>4. Best(two, {"a", "b"} \cap offered, needs, scores)
  <2>1. {"a"} \cup {"b"} = {"a", "b"} /\ {"a"} \in SUBSET {"a", "b", "c"}
    OBVIOUS
  <2>2. Place("b") \in Nat /\ \A n \in {"a"} : Place(n) < Place("b") /\ Place(n) \in Nat
    BY PlaceIs
  <2>3. Best(Turn(one, "b", needs, offered, scores), ({"a"} \cup {"b"}) \cap offered, needs, scores)
    BY <1>3, <2>1, <2>2, TurnKeeps
  <2>. QED BY <1>1, <2>1, <2>3
<1>5. Best(Turn(two, "c", needs, offered, scores), {"a", "b", "c"} \cap offered, needs, scores)
  <2>1. {"a", "b"} \cup {"c"} = {"a", "b", "c"} /\ {"a", "b"} \in SUBSET {"a", "b", "c"}
    OBVIOUS
  <2>2. Place("c") \in Nat /\ \A n \in {"a", "b"} : Place(n) < Place("c") /\ Place(n) \in Nat
    BY PlaceIs
  <2>3. Best(Turn(two, "c", needs, offered, scores), ({"a", "b"} \cup {"c"}) \cap offered, needs, scores)
    BY <1>4, <2>1, <2>2, TurnKeeps
  <2>. QED BY <2>1, <2>3
<1>6. {"a", "b", "c"} \cap offered = offered
  OBVIOUS
<1>. QED BY <1>1, <1>5, <1>6

\* What a ticked material totals is above zero when one need of it is rated.
LEMMA TotalIs ==
  ASSUME NEW needs \in SUBSET {"looks", "own1"}, NEW scores, NEW m,
         \A n \in needs : Chooser!Rated(scores, m, n) \in Nat
  PROVE  /\ Totals(m, needs, scores) \in Nat
         /\ Totals(m, needs, scores) = 0 <=> \A n \in needs : Chooser!Rated(scores, m, n) = 0
<1> DEFINE f == [n \in needs |-> Chooser!Rated(scores, m, n)]
<1>1. \A g : Chooser!SumFunction(g) = SumFunction(g)
  BY DEF Chooser!SumFunction, Chooser!SumFunctionOnSet, Chooser!FoldFunctionOnSet, Chooser!MapThenFoldSet,
         SumFunction, SumFunctionOnSet, FoldFunctionOnSet, MapThenFoldSet
<1>2. Totals(m, needs, scores) = SumFunction(f)
  BY <1>1 DEF Totals, Chooser!Total
<1>3. IsFiniteSet(needs)
  BY FS_Subset, FS_EmptySet, FS_AddElement, {"looks", "own1"} = ({} \cup {"looks"}) \cup {"own1"}
<1>4. f \in [needs -> Nat]
  OBVIOUS
<1>. HIDE DEF f
<1>5. SumFunction(f) \in Nat
  BY <1>3, <1>4, SumIsNat
<1>6. ASSUME NEW n \in needs PROVE SumFunction(f) >= f[n]
  <2>1. f \in [needs -> Int] /\ 0 \in Int /\ [f EXCEPT ![n] = 0] \in [needs -> Nat]
    BY <1>4
  <2>2. SumFunction([f EXCEPT ![n] = 0]) = SumFunction(f) + 0 - f[n]
    BY <1>3, <2>1, SumChanges
  <2>3. SumFunction([f EXCEPT ![n] = 0]) \in Nat
    BY <1>3, <2>1, SumIsNat
  <2>. QED BY <1>4, <1>5, <2>2, <2>3
<1>7. ASSUME \A n \in needs : f[n] = 0 PROVE SumFunction(f) = 0
  <2>1. f \in [needs -> {0}]
    BY <1>4, <1>7
  <2>. QED BY <1>3, <2>1, SumIsZero
<1>8. SumFunction(f) = 0 <=> \A n \in needs : f[n] = 0
  BY <1>4, <1>5, <1>6, <1>7
<1>9. \A n \in needs : f[n] = Chooser!Rated(scores, m, n)
  BY DEF f
<1>. QED BY <1>2, <1>5, <1>8, <1>9

-----------------------------------------------------------------------------
\* The page and its pick.
ThePick == Chooser!pickMaterial(ticked, offer.offered, offer.helper.scores)

\* Every offered material is rated by whole numbers.
RatedOffer(x) ==
  /\ x.offered \in SUBSET {"a", "b", "c"} /\ DOMAIN x.helper.scores = x.offered
  /\ \A m \in x.offered, n \in {"looks", "own1"} : Chooser!Rated(x.helper.scores, m, n) \in Nat

PickStands ==
  /\ noMatch <=> ticked # {} /\ ThePick = Null
  /\ picked = IF ThePick = Null THEN Null
              ELSE [id |-> ThePick, reason |-> Chooser!describePick(ThePick, ticked, offer.helper)]

ChooserInv ==
  /\ offer = Null \/ offer.helper = Null => ticked = {} /\ picked = Null /\ ~noMatch
  /\ offer # Null /\ offer.helper # Null =>
       RatedOffer(offer) /\ ticked \subseteq {"looks", "own1"} /\ ticked \subseteq DOMAIN offer.helper.needs
       /\ PickStands

LEMMA ChooserIds == Chooser!Ids = {"a", "b", "c"} /\ Chooser!NeedIds = {"looks", "own1"}
  BY DEF Chooser!Ids, Chooser!NeedIds, Chooser!Range

LEMMA ChooserInit == Chooser!Init => ChooserInv
  BY DEF Chooser!Init, ChooserInv

LEMMA OpenRates ==
  ASSUME NEW settings \in Chooser!Reads, NEW onSale \in SUBSET {"a", "b", "c"},
         Chooser!toPublicMaterialHelper(settings, onSale) # Null
  PROVE  RatedOffer([helper |-> Chooser!toPublicMaterialHelper(settings, onSale), offered |-> onSale])
<1> DEFINE needs == {n \in {"looks"} : settings.builtIn[n]} \cup {s \in DOMAIN settings.own : settings.own[s].on}
           left(m) == {n \in needs : settings.scores[m][n] > 0}
           scores == [m \in onSale |-> Chooser!Restrict(settings.scores[m], left(m))]
<1>1. Chooser!toPublicMaterialHelper(settings, onSale).scores = scores
  BY DEF Chooser!toPublicMaterialHelper
<1>2. \A m \in {"a", "b", "c"}, n \in {"looks", "own1"} : settings.scores[m][n] \in Nat
  <2>1. CASE settings = Chooser!defaultMaterialHelper
    BY <2>1 DEF Chooser!defaultMaterialHelper, Ratings
  <2>2. CASE settings = Chooser!normalizeMaterialHelper(helper)
    <3>1. \A m \in {"a", "b", "c"}, n \in {"looks", "own1"} : Chooser!Rating(helper, m, n) \in Nat
      BY DEF Chooser!Rating, Ratings
    <3>. QED BY <2>2, <3>1, ChooserIds DEF Chooser!normalizeMaterialHelper
  <2>. QED BY <2>1, <2>2 DEF Chooser!Reads, Chooser!InForce
<1>3. \A m \in onSale, n \in {"looks", "own1"} : Chooser!Rated(scores, m, n) \in Nat
  BY <1>2 DEF Chooser!Rated, Chooser!Restrict
<1>. HIDE DEF scores
<1>4. DOMAIN scores = onSale
  BY DEF scores
<1>. QED BY <1>1, <1>3, <1>4 DEF RatedOffer

LEMMA Opens == ChooserInv /\ Chooser!Open => ChooserInv'
<1>. SUFFICES ASSUME ChooserInv, Chooser!Open PROVE ChooserInv'
  OBVIOUS
<1>1. /\ offer = Null /\ ticked = {} /\ picked = Null /\ ~noMatch
      /\ UNCHANGED <<ticked, picked, noMatch>>
  BY DEF Chooser!Open, ChooserInv
<1>2. PICK onSale \in SUBSET {"a", "b", "c"} \ {{}}, settings \in Chooser!Reads :
        offer' = [helper |-> Chooser!toPublicMaterialHelper(settings, onSale), offered |-> onSale]
  BY ChooserIds DEF Chooser!Open
<1>3. offer'.helper = Chooser!toPublicMaterialHelper(settings, onSale)
  BY <1>2
<1>4. CASE offer'.helper = Null
  BY <1>1, <1>4 DEF ChooserInv
<1>5. CASE offer'.helper # Null
  <2>1. RatedOffer(offer')
    BY <1>2, <1>3, <1>5, OpenRates
  <2>2. ThePick' = Null
    <3>1. \A m \in offer'.offered : Totals(m, ticked', offer'.helper.scores) = 0
      BY <1>1, <2>1, TotalIs DEF RatedOffer
    <3>2. Best(ThePick', offer'.offered, ticked', offer'.helper.scores)
      BY <2>1, <3>1, PickBest DEF ThePick, RatedOffer
    <3>. QED BY <3>1, <3>2, <2>1 DEF Best
  <2>3. ticked' = {} /\ picked' = Null /\ ~noMatch'
    BY <1>1
  <2>. HIDE DEF ThePick
  <2>4. PickStands'
    BY <2>2, <2>3 DEF PickStands
  <2>. QED BY <2>1, <2>3, <2>4 DEF ChooserInv
<1>. QED BY <1>4, <1>5

LEMMA Ticks == ASSUME ChooserInv, NEW n \in {"looks", "own1"}, Chooser!toggle(n) PROVE ChooserInv'
<1>1. /\ offer # Null /\ offer.helper # Null /\ n \in DOMAIN offer.helper.needs /\ UNCHANGED offer
      /\ ticked' = IF n \in ticked THEN ticked \ {n} ELSE ticked \cup {n}
  BY DEF Chooser!toggle, Chooser!Shown
<1>2. RatedOffer(offer') /\ ticked' \subseteq {"looks", "own1"} /\ ticked' \subseteq DOMAIN offer'.helper.needs
  BY <1>1 DEF ChooserInv
<1>3. PickStands'
  BY <1>1 DEF Chooser!toggle, PickStands, ThePick
<1>. QED BY <1>1, <1>2, <1>3 DEF ChooserInv

LEMMA ChooserStep == ChooserInv /\ [Chooser!Next]_helperVars => ChooserInv'
<1>. SUFFICES ASSUME ChooserInv, [Chooser!Next]_helperVars PROVE ChooserInv'
  OBVIOUS
<1>1. CASE UNCHANGED <<offer, ticked, picked, noMatch>>
  BY <1>1 DEF ChooserInv, PickStands, ThePick, RatedOffer
<1>2. CASE Chooser!Open
  BY <1>2, Opens
<1>3. CASE \E n \in {"looks", "own1"} : Chooser!toggle(n)
  BY <1>3, Ticks
<1>4. \/ UNCHANGED <<offer, ticked, picked, noMatch>>
      \/ Chooser!Open
      \/ \E n \in {"looks", "own1"} : Chooser!toggle(n)
  BY ChooserIds DEF Chooser!Next, Chooser!Choosing, Chooser!chooseMaterial, Chooser!pageVars, helperVars
<1>. QED BY <1>1, <1>2, <1>3, <1>4

LEMMA ChoiceStays == ChooserInv => Chooser!HelperTrue
<1>. SUFFICES ASSUME ChooserInv PROVE Chooser!HelperTrue
  OBVIOUS
<1>1. CASE offer = Null \/ offer.helper = Null
  <2>1. ticked = {} /\ picked = Null /\ ~noMatch
    BY <1>1 DEF ChooserInv
  <2>2. Chooser!PickedBest
    BY <2>1 DEF Chooser!PickedBest
  <2>3. Chooser!ReasonFits
    BY <2>1 DEF Chooser!ReasonFits, Chooser!Reason
  <2>. QED BY <2>2, <2>3 DEF Chooser!HelperTrue
<1>2. CASE offer # Null /\ offer.helper # Null
  <2> DEFINE scores == offer.helper.scores
  <2>1. /\ RatedOffer(offer) /\ ticked \in SUBSET {"looks", "own1"} /\ ticked \subseteq DOMAIN offer.helper.needs
        /\ PickStands
    BY <1>2 DEF ChooserInv
  <2>2. \A m \in offer.offered : /\ Totals(m, ticked, scores) \in Nat
                                 /\ Totals(m, ticked, scores) = 0 <=> \A n \in ticked : Chooser!Rated(scores, m, n) = 0
    BY <2>1, TotalIs DEF RatedOffer
  <2>3. Best(ThePick, offer.offered, ticked, scores)
    BY <2>1, <2>2, PickBest DEF ThePick, RatedOffer
  <2>4. DOMAIN scores = offer.offered /\ offer.offered \in SUBSET {"a", "b", "c"}
    BY <2>1 DEF RatedOffer
  <2>5. \A m \in {"a", "b", "c"} : Place(m) = CHOOSE i \in DOMAIN <<"a", "b", "c">> : <<"a", "b", "c">>[i] = m
    <3>1. DOMAIN <<"a", "b", "c">> = 1..3
      OBVIOUS
    <3>. QED BY <3>1 DEF Place, Shelf
  <2>6. Chooser!PickedBest
    <3>. SUFFICES ASSUME picked # Null PROVE Chooser!PickedBest
      BY DEF Chooser!PickedBest
    <3>1. ThePick # Null /\ picked.id = ThePick
      BY <2>1 DEF PickStands
    <3>2. /\ ThePick \in offer.offered /\ Totals(ThePick, ticked, scores) > 0
          /\ \A m \in offer.offered \ {ThePick} :
               \/ Totals(m, ticked, scores) < Totals(ThePick, ticked, scores)
               \/ /\ Totals(m, ticked, scores) = Totals(ThePick, ticked, scores)
                  /\ HelperRate[m] > HelperRate[ThePick]
               \/ /\ Totals(m, ticked, scores) = Totals(ThePick, ticked, scores)
                  /\ HelperRate[m] = HelperRate[ThePick]
                  /\ Place(m) > Place(ThePick)
      BY <2>3, <3>1 DEF Best
    <3>. QED BY <2>4, <2>5, <3>1, <3>2 DEF Chooser!PickedBest, Totals
  <2>7. Chooser!ReasonFits
    <3>1. Chooser!Reason # Null =>
            /\ Chooser!Reason = picked /\ picked # Null /\ picked.id = material
      BY DEF Chooser!Reason
    <3>2. Chooser!Reason # Null =>
            Chooser!Reason.reason = [n \in ticked |-> [named |-> offer.helper.needs[n],
                                               score |-> Chooser!Rated(offer.helper.scores, material, n)]]
      <4>. SUFFICES ASSUME Chooser!Reason # Null
                    PROVE  Chooser!Reason.reason = [n \in ticked |-> [named |-> offer.helper.needs[n],
                                               score |-> Chooser!Rated(offer.helper.scores, material, n)]]
        OBVIOUS
      <4>1. picked = [id |-> ThePick, reason |-> Chooser!describePick(ThePick, ticked, offer.helper)]
            /\ ThePick = material
        BY <2>1, <3>1 DEF PickStands
      <4>2. Chooser!Reason.reason = Chooser!describePick(material, ticked, offer.helper)
        BY <3>1, <4>1
      <4>3. \A n \in ticked : n \in DOMAIN offer.helper.needs
        BY <2>1
      <4>. QED BY <4>2, <4>3 DEF Chooser!describePick
    <3>3. noMatch <=> ticked # {} /\ \A m \in offer.offered, n \in ticked : Chooser!Rated(scores, m, n) = 0
      <4>1. ThePick = Null <=> \A m \in offer.offered : Totals(m, ticked, scores) = 0
        BY <2>2, <2>3, <2>4 DEF Best
      <4>. QED BY <2>1, <2>2, <4>1 DEF PickStands
    <3>. QED BY <3>2, <3>3 DEF Chooser!ReasonFits
  <2>. QED BY <2>6, <2>7 DEF Chooser!HelperTrue
<1>. QED BY <1>1, <1>2

-----------------------------------------------------------------------------
(* The form of the rates.                                                  *)

Spells(f, v) == RateForm!toText(v, RateUnits[f])
Sent(f) == RateForm!stored(f)

\* An untouched field shows what the form was filled in from; what is under way, and what
\* is stored by a save, is what the form shows but for what was typed during it.
FormInv ==
  /\ rates \in [RateFields -> Nat]
  /\ typed \subseteq RateFields /\ typedLate \subseteq typed
  /\ values # Null \/ rateSave # Null =>
       /\ filled \in [RateFields -> Nat] /\ DOMAIN values = RateFields
       /\ \A f \in RateFields \ typed : values[f] = Spells(f, filled[f])

SaveInv ==
  /\ rateSave # Null =>
       /\ altered /\ rateSave.body \in [RateFields -> Nat]
       /\ DOMAIN rateSave = {"body", "at"}
       /\ \A f \in RateFields \ typed : values[f] # Null
       /\ \A f \in RateFields \ typedLate : rateSave.body[f] = Sent(f)
       /\ rateSave.at = "stored" /\ ~restored => rates = rateSave.body
  /\ values # Null /\ ~altered /\ rateSave = Null /\ ~restored =>
       \A f \in typed \ typedLate : rates[f] = Sent(f)

RatesInv == FormInv /\ SaveInv

LEMMA RateFieldsAre == RateForm!Fields = RateFields /\ DOMAIN RateUnits = RateFields
  BY DEF RateForm!Fields, RateUnits

LEMMA RoundedTo ==
  ASSUME NEW a \in Int, NEW b \in Nat \ {0}
  PROVE  /\ RateForm!Rounded(a, b) \in Int
         /\ 2 * b * RateForm!Rounded(a, b) <= 2 * a + b /\ 2 * a - b < 2 * b * RateForm!Rounded(a, b)
<1>1. 2 * b \in Nat \ {0} /\ 2 * a + b \in Int
  OBVIOUS
<1>2. /\ (2 * a + b) \div (2 * b) \in Int /\ 2 * b * ((2 * a + b) \div (2 * b)) <= 2 * a + b
      /\ 2 * a + b < 2 * b * ((2 * a + b) \div (2 * b)) + 2 * b
  BY <1>1, Division
<1>. QED BY <1>2 DEF RateForm!Rounded

LEMMA UnitsAre == \A f \in RateFields : RateUnits[f] \in {"rupees", "rupeesPerKg", "percent", "plain"}
  BY DEF RateUnits, RateFields

LEMMA StoredRow == RateRows \subseteq [RateFields -> Nat] /\ PlainRates \in RateRows
  <1>2. /\ PlainRates \in [RateFields -> Nat]
        /\ StoredRates(80000, 700, 18125, 200) \in [RateFields -> Nat]
        /\ StoredRates(80000, 600, 18000, 1) \in [RateFields -> Nat]
    BY DEF PlainRates, StoredRates, RateFields
  <1>. QED BY <1>2 DEF RateRows

LEMMA RowsAre == RateBounds \in [RateFields -> SUBSET Nat]
  BY DEF RateBounds, RateFields

\* What is shown of an amount is sent back as it was, to the digits that are shown.
LEMMA SpelledBack ==
  ASSUME NEW f \in RateFields, NEW v \in Nat, Spells(f, v) # Null
  PROVE  LET b == RateForm!fromText(Spells(f, v), RateUnits[f])
         IN /\ 2 * (b - v) \in -10..10
            /\ RateUnits[f] # "percent" \/ v % 10 = 0 => b = v
<1>1. v \notin {1}
  BY DEF Spells, RateForm!toText
<1>2. \A n \in Nat : RateForm!Rounded(10 * n, 10) = n
  BY DEF RateForm!Rounded
<1>3. CASE RateUnits[f] \in {"rupees", "rupeesPerKg", "plain"}
  <2>1. RateForm!fromText(Spells(f, v), RateUnits[f]) = v
    BY <1>1, <1>2, <1>3 DEF Spells, RateForm!toText, RateForm!fromText
  <2>. QED BY <2>1
<1>4. CASE RateUnits[f] = "percent"
  <2>1. RateForm!Rounded(v, 10) \in Nat
    BY DEF RateForm!Rounded
  <2>2. RateForm!fromText(Spells(f, v), RateUnits[f]) = 10 * RateForm!Rounded(v, 10)
    BY <1>1, <1>2, <1>4, <2>1 DEF Spells, RateForm!toText, RateForm!fromText
  <2>3. /\ 2 * (10 * RateForm!Rounded(v, 10) - v) \in -10..10
        /\ v % 10 = 0 => 10 * RateForm!Rounded(v, 10) = v
    BY DEF RateForm!Rounded
  <2>. QED BY <1>4, <2>2, <2>3
<1>. QED BY <1>3, <1>4, UnitsAre

LEMMA RatesInit == RateForm!Init => RatesInv
  BY StoredRow DEF RateForm!Init, RatesInv, FormInv, SaveInv

LEMMA ValidIsSent ==
  ASSUME RateForm!invalid = {}
  PROVE  \A f \in RateFields : values[f] # Null /\ Sent(f) \in RateBounds[f] /\ Sent(f) \in Nat
<1>1. \A f \in RateFields : values[f] # Null /\ Sent(f) \in RateBounds[f]
  BY RateFieldsAre DEF RateForm!invalid, Sent
<1>. QED BY <1>1, RowsAre

LEMMA FormOpens == ASSUME RatesInv, RateForm!Open PROVE RatesInv'
<1>1. /\ rateSave' = Null /\ typed' = {} /\ typedLate' = {} /\ filled' = rates /\ rates' = rates
      /\ values' = [f \in RateFields |-> Spells(f, rates[f])]
  BY RateFieldsAre DEF RateForm!Open, Spells, RatesInv, SaveInv
<1>2. FormInv'
  BY <1>1 DEF RatesInv, FormInv, Spells
<1>3. SaveInv'
  BY <1>1 DEF SaveInv
<1>. QED BY <1>2, <1>3 DEF RatesInv

LEMMA FormTyped == ASSUME RatesInv, NEW f \in RateFields, RateForm!Type(f) PROVE RatesInv'
<1>1. PICK text \in RateTexts[f] : values' = [values EXCEPT ![f] = text]
  BY DEF RateForm!Type
<1>2. /\ values # Null /\ altered' = TRUE /\ typed' = typed \cup {f}
      /\ typedLate' = IF rateSave = Null THEN typedLate \ {f} ELSE typedLate \cup {f}
      /\ UNCHANGED <<rates, rateSave, filled, restored>>
  BY DEF RateForm!Type
<1>3. DOMAIN values' = RateFields /\ \A g \in RateFields \ {f} : values'[g] = values[g]
  BY <1>1, <1>2 DEF RatesInv, FormInv
<1>4. FormInv'
  BY <1>2, <1>3 DEF RatesInv, FormInv, Spells
<1>5. \A g \in RateFields \ {f} : Sent(g)' = Sent(g)
  BY <1>3 DEF Sent, RateForm!stored
<1>6. SaveInv'
  BY <1>2, <1>3, <1>5 DEF RatesInv, SaveInv
<1>. QED BY <1>4, <1>6 DEF RatesInv

LEMMA FormSaves == ASSUME RatesInv, RateForm!save PROVE RatesInv'
<1>0. RateForm!Body = [f \in RateFields |-> Sent(f)]
  BY RateFieldsAre DEF RateForm!Body, Sent
<1>1. /\ values # Null /\ altered /\ rateSave = Null /\ RateForm!invalid = {}
      /\ rateSave' = [body |-> [f \in RateFields |-> Sent(f)], at |-> "sent"]
      /\ UNCHANGED <<rates, values, altered, filled, typed, typedLate, restored>>
  BY <1>0 DEF RateForm!save
<1>2. \A f \in RateFields : values[f] # Null /\ Sent(f) \in Nat /\ Sent(f)' = Sent(f)
  BY <1>1, ValidIsSent DEF Sent, RateForm!stored
<1>3. FormInv'
  BY <1>1 DEF RatesInv, FormInv, Spells
<1>4. /\ rateSave'.body \in [RateFields -> Nat] /\ DOMAIN rateSave' = {"body", "at"}
      /\ \A f \in RateFields : rateSave'.body[f] = Sent(f)' /\ values'[f] # Null
      /\ rateSave'.at # "stored"
  BY <1>1, <1>2
<1>5. SaveInv'
  BY <1>1, <1>4 DEF RatesInv, SaveInv
<1>. QED BY <1>3, <1>5 DEF RatesInv

LEMMA FormPuts == ASSUME RatesInv, RateForm!PUT PROVE RatesInv'
<1>1. /\ rateSave # Null /\ UNCHANGED <<values, altered, filled, typed, typedLate>>
      /\ \/ rates' = rateSave.body /\ restored' = FALSE /\ rateSave' = [rateSave EXCEPT !.at = "stored"]
         \/ rateSave' = [rateSave EXCEPT !.at = "failed"] /\ UNCHANGED <<rates, restored>>
  BY DEF RateForm!PUT
<1>2. /\ rateSave'.body = rateSave.body /\ DOMAIN rateSave' = {"body", "at"}
      /\ rateSave.body \in [RateFields -> Nat] /\ altered
      /\ rateSave'.at = "stored" => rates' = rateSave.body
      /\ rates' \in [RateFields -> Nat]
  BY <1>1 DEF RatesInv, SaveInv, FormInv
<1>3. FormInv'
  BY <1>1, <1>2 DEF RatesInv, FormInv, Spells
<1>4. \A f \in RateFields : Sent(f)' = Sent(f)
  BY <1>1 DEF Sent, RateForm!stored
<1>5. SaveInv'
  BY <1>1, <1>2, <1>4 DEF RatesInv, SaveInv
<1>. QED BY <1>3, <1>5 DEF RatesInv

LEMMA FormAnswered == ASSUME RatesInv, RateForm!saveAnswered PROVE RatesInv'
<1>1. /\ rateSave # Null /\ rateSave' = Null /\ (~altered' => rateSave.at = "stored")
      /\ UNCHANGED <<rates, values, filled, typed, typedLate, restored>>
  BY DEF RateForm!saveAnswered
<1>2. FormInv'
  BY <1>1 DEF RatesInv, FormInv, Spells
<1>3. \A f \in RateFields : Sent(f)' = Sent(f)
  BY <1>1 DEF Sent, RateForm!stored
<1>4. SaveInv'
  BY <1>1, <1>3 DEF RatesInv, FormInv, SaveInv
<1>. QED BY <1>2, <1>4 DEF RatesInv

LEMMA FormRestored == ASSUME RatesInv, RateForm!Restore PROVE RatesInv'
<1>1. /\ rates' \in RateRows /\ restored' = TRUE
      /\ UNCHANGED <<values, altered, rateSave, filled, typed, typedLate>>
  BY DEF RateForm!Restore
<1>2. FormInv'
  BY <1>1, StoredRow DEF RatesInv, FormInv, Spells
<1>3. \A f \in RateFields : Sent(f)' = Sent(f)
  BY <1>1 DEF Sent, RateForm!stored
<1>4. SaveInv'
  BY <1>1, <1>3 DEF RatesInv, SaveInv
<1>. QED BY <1>2, <1>4 DEF RatesInv

LEMMA RatesStep == RatesInv /\ [RateForm!Next]_rateVars => RatesInv'
<1>. SUFFICES ASSUME RatesInv, [RateForm!Next]_rateVars PROVE RatesInv'
  OBVIOUS
<1>1. CASE UNCHANGED rateVars
  <2>1. \A f \in RateFields : Sent(f)' = Sent(f)
    BY <1>1 DEF Sent, RateForm!stored, rateVars
  <2>2. UNCHANGED <<rates, values, altered, rateSave, filled, typed, typedLate, restored>>
    BY <1>1 DEF rateVars
  <2>3. FormInv'
    BY <2>2 DEF RatesInv, FormInv, Spells
  <2>4. SaveInv'
    BY <2>1, <2>2 DEF RatesInv, FormInv, SaveInv
  <2>. QED BY <2>3, <2>4 DEF RatesInv
<1>2. CASE RateForm!Next
  <2>1. CASE \E f \in RateFields : RateForm!Type(f)
    BY <2>1, FormTyped
  <2>2. RateForm!Open \/ RateForm!save \/ RateForm!PUT \/ RateForm!saveAnswered \/ RateForm!Restore \/ \E f \in RateFields : RateForm!Type(f)
    BY <1>2, RateFieldsAre DEF RateForm!Next
  <2>. QED BY <2>1, <2>2, FormOpens, FormSaves, FormPuts, FormAnswered, FormRestored
<1>. QED BY <1>1, <1>2

LEMMA UntouchedStays == RatesInv => RateForm!UntouchedKept
<1>. SUFFICES ASSUME RatesInv, rateSave # Null, NEW f \in RateFields \ typed
              PROVE  /\ 2 * (rateSave.body[f] - filled[f]) \in -10..10
                     /\ RateUnits[f] # "percent" \/ filled[f] % 10 = 0 => rateSave.body[f] = filled[f]
  BY RateFieldsAre DEF RateForm!UntouchedKept
<1>1. filled[f] \in Nat /\ values[f] = Spells(f, filled[f]) /\ values[f] # Null /\ rateSave.body[f] = Sent(f)
  BY DEF RatesInv, FormInv, SaveInv
<1>2. Sent(f) = RateForm!fromText(values[f], RateUnits[f])
  BY DEF Sent, RateForm!stored
<1>. QED BY <1>1, <1>2, SpelledBack

LEMMA SavedStays == RatesInv => RateForm!SavedShown
  BY DEF RatesInv, SaveInv, Sent, RateForm!SavedShown

-----------------------------------------------------------------------------
SpoolLines == {"pla", "plaPlus", "plaCf", "petgHs", "petgCf", "translucent", "translucentGlitter", "abs", "asa", "tpu", "other1",
               "other2", "silk", "silkClearance", "matte", "dualTriSilk", "metallic", "stone", "starlight", "glow", "wood"}

\* A kilogram costs a whole number of paise, and is estimated at just that.
LEMMA KiloIsExact == \A c \in Int : RateForm!Rounded(1000 * c, 1000) = c
  BY DEF RateForm!Rounded

LEMMA SpoolFields == \A line : RateForm!SpoolField(line) \in RateFields /\ RateForm!SellField(line) \in RateFields
  BY RateFieldsAre DEF RateForm!SpoolField, RateForm!SellField, RateFields

LEMMA CostIsInt ==
  ASSUME NEW n \in Nat, NEW basis, basis["gst"] \in Nat, basis["spoolShipping"] \in Nat
  PROVE  RateForm!spoolCostPerKgPaise(n, basis) \in Int
<1>1. n * basis["gst"] \in Int /\ 1000 \in Nat \ {0}
  OBVIOUS
<1>2. \A a \in Int : RateForm!Rounded(a, 1000) \in Int
  BY <1>1, RoundedTo
<1>. QED BY <1>1, <1>2 DEF RateForm!spoolCostPerKgPaise

LEMMA ListedOnce ==
  ASSUME NEW kind \in SpoolKinds
  PROVE  {m \in DOMAIN RateForm!MATERIAL_LINES :
            RateForm!filamentLine(kind.material, kind.colour) \in RateForm!MATERIAL_LINES[m]} = {kind.material}
<1> DEFINE l == RateForm!filamentLine(kind.material, kind.colour)
<1>1. \/ kind.material = "PLA" /\ l \in {"pla", "plaPlus"}
      \/ kind.material = "PETG_PREMIUM" /\ l = "translucentGlitter"
      \/ kind.material = "PLA_AESTHETIC" /\ l \in {"silk", "silkClearance", "stone"}
      \/ kind.material = "TPU" /\ l = "tpu"
  <2>1. /\ RateForm!Single["TPU"] = "tpu" /\ "TPU" \in DOMAIN RateForm!Single
        /\ {"PLA", "PETG_PREMIUM", "PLA_AESTHETIC"} \cap DOMAIN RateForm!Single = {}
        /\ RateForm!Prefixes["stone-"] = "stone" /\ "stone-" \in DOMAIN RateForm!Prefixes
        /\ "plain-" \notin DOMAIN RateForm!Prefixes
    BY DEF RateForm!Single, RateForm!Prefixes
  <2>2. CASE kind.material = "PLA"
    BY <2>1, <2>2 DEF RateForm!filamentLine
  <2>3. CASE kind.material = "PETG_PREMIUM"
    <3>1. kind.colour.prefix = "plain-" /\ kind.colour.glitter = TRUE
      BY <2>3 DEF SpoolKinds, SpoolKind
    <3>. QED BY <2>1, <2>3, <3>1 DEF RateForm!filamentLine
  <2>4. CASE kind.material = "PLA_AESTHETIC"
    <3>1. kind.colour.prefix \in {"silk-", "stone-", "plain-"}
      BY <2>4 DEF SpoolKinds, SpoolKind
    <3>. QED BY <2>1, <2>4, <3>1 DEF RateForm!filamentLine
  <2>5. CASE kind.material = "TPU"
    BY <2>1, <2>5 DEF RateForm!filamentLine
  <2>6. kind.material \in {"PLA", "PETG_PREMIUM", "PLA_AESTHETIC", "TPU"}
    BY DEF SpoolKinds, SpoolKind
  <2>. QED BY <2>2, <2>3, <2>4, <2>5, <2>6
<1>2. DOMAIN RateForm!Single = {"PLA_CF", "PETG", "ABS", "ASA", "TPU", "OTHER_1", "OTHER_2"}
  BY DEF RateForm!Single
<1>3. DOMAIN RateForm!MATERIAL_LINES = DOMAIN RateForm!Single \cup {"PLA", "PETG_PREMIUM", "PLA_AESTHETIC"}
  BY DEF RateForm!MATERIAL_LINES
<1>4. \A m \in DOMAIN RateForm!Single : RateForm!Single[m] \in {"plaCf", "petgHs", "abs", "asa", "tpu", "other1", "other2"}
                                        /\ (RateForm!Single[m] = "tpu" <=> m = "TPU")
  BY DEF RateForm!Single
<1>5. /\ RateForm!MATERIAL_LINES["PLA"] = {"plaPlus", "pla"}
      /\ RateForm!MATERIAL_LINES["PETG_PREMIUM"] = {"translucent", "translucentGlitter", "petgCf"}
      /\ RateForm!MATERIAL_LINES["PLA_AESTHETIC"] =
           {"silk", "silkClearance", "matte", "dualTriSilk", "metallic", "stone", "starlight", "glow", "wood"}
      /\ \A m \in DOMAIN RateForm!Single : RateForm!MATERIAL_LINES[m] = {RateForm!Single[m]}
  BY <1>2 DEF RateForm!MATERIAL_LINES
<1> HIDE DEF l
<1>6. \A m \in DOMAIN RateForm!MATERIAL_LINES : l \in RateForm!MATERIAL_LINES[m] <=> m = kind.material
  BY <1>1, <1>2, <1>3, <1>4, <1>5
<1>7. kind.material \in DOMAIN RateForm!MATERIAL_LINES
  BY <1>1, <1>2, <1>3
<1>. QED BY <1>6, <1>7 DEF l

\* A kilogram of a kind, as an order of it would be.
Kilo(kind) == [material |-> kind.material, colour |-> kind.colour, grams |-> 1000, seconds |-> 0]

\* The rates a form that is valid sends are those its cells speak of.
LEMMA CellTells ==
  ASSUME RatesInv, RateForm!invalid = {}, rates = RateForm!Body, NEW kind \in SpoolKinds
  PROVE  RateForm!notCovered(RateForm!filamentLine(kind.material, kind.colour), kind.material)
           <=> RateForm!estimateItemCostPaise(Kilo(kind), rates) >= rates[RateForm!SellField(kind.material)]
<1> DEFINE line == RateForm!filamentLine(kind.material, kind.colour)
           kilo == Kilo(kind)
           list_ == RateForm!SpoolField(line)
<1>1. rates \in [RateFields -> Nat] /\ \A f \in RateFields : rates[f] = RateForm!stored(f)
  BY RateFieldsAre DEF RatesInv, FormInv, RateForm!Body
<1>2. list_ \in RateFields /\ RateForm!SellField(kind.material) \in RateFields
      /\ {"gst", "spoolShipping", "power", "kwh"} \subseteq RateFields
  BY SpoolFields DEF RateFields
<1>3. RateForm!filamentCostPerKgPaise(kilo, rates) = RateForm!spoolCostPerKgPaise(rates[list_], rates)
  BY DEF RateForm!filamentCostPerKgPaise, Kilo
<1>4. RateForm!spoolCostPerKgPaise(rates[list_], rates) \in Int
  BY <1>1, <1>2, CostIsInt
<1>5. RateForm!estimateItemCostPaise(kilo, rates) = RateForm!spoolCostPerKgPaise(rates[list_], rates)
  <2>1. 0 * rates["power"] * rates["kwh"] = 0
    BY <1>1, <1>2
  <2>2. RateForm!Rounded(0, 3600 * 1000) = 0
    BY DEF RateForm!Rounded
  <2>3. kilo.grams = 1000 /\ kilo.seconds = 0
    BY DEF Kilo
  <2>4. RateForm!estimateItemCostPaise(kilo, rates)
          = RateForm!Rounded(1000 * RateForm!spoolCostPerKgPaise(rates[list_], rates), 1000) + 0
    BY <1>3, <2>1, <2>2, <2>3 DEF RateForm!estimateItemCostPaise
  <2>. QED BY <1>4, <2>4, KiloIsExact
<1>6. RateForm!spoolCostPerKgPaise(RateForm!stored(list_), [gst |-> RateForm!stored("gst"), spoolShipping |-> RateForm!stored("spoolShipping")])
        = RateForm!spoolCostPerKgPaise(rates[list_], rates)
  BY <1>1, <1>2 DEF RateForm!spoolCostPerKgPaise
<1>. QED BY <1>1, <1>2, <1>5, <1>6 DEF RateForm!notCovered

Told(kind) ==
  LET line == RateForm!filamentLine(kind.material, kind.colour)
      kilo == [material |-> kind.material, colour |-> kind.colour, grams |-> 1000, seconds |-> 0]
  IN /\ {m \in DOMAIN RateForm!MATERIAL_LINES : line \in RateForm!MATERIAL_LINES[m]} = {kind.material}
     /\ RateForm!notCovered(line, kind.material) <=>
          RateForm!estimateItemCostPaise(kilo, rates) >= rates[RateForm!SellField(kind.material)]

LEMMA CoverStays == RatesInv => RateForm!CoverTold
<1>. SUFFICES ASSUME RatesInv, RateForm!invalid = {}, rates = RateForm!Body PROVE RateForm!CoverTold
  BY DEF RateForm!CoverTold
<1>1. \A kind \in SpoolKinds :
        RateForm!notCovered(RateForm!filamentLine(kind.material, kind.colour), kind.material)
          <=> RateForm!estimateItemCostPaise(Kilo(kind), rates) >= rates[RateForm!SellField(kind.material)]
  BY CellTells
<1>2. ASSUME NEW kind \in SpoolKinds PROVE Told(kind)
  <2>1. {m \in DOMAIN RateForm!MATERIAL_LINES :
           RateForm!filamentLine(kind.material, kind.colour) \in RateForm!MATERIAL_LINES[m]} = {kind.material}
    BY ListedOnce
  <2>. QED BY <1>1, <2>1 DEF Told, Kilo
<1>. QED BY <1>2 DEF RateForm!CoverTold, Told

\* A bill is the sum of its parts to the rupee it is rounded to.
LEMMA ProfitOf ==
  ASSUME NEW cost \in Int, NEW charged \in Int
  PROVE  100 * RateForm!Rounded(charged + 9950 + 517, 100) - 9950 - 517 - cost + cost - charged \in -50..50
<1> DEFINE r == RateForm!Rounded(charged + 9950 + 517, 100)
<1>1. charged + 9950 + 517 \in Int /\ 100 \in Nat \ {0}
  OBVIOUS
<1>2. r \in Int /\ 2 * 100 * r <= 2 * (charged + 9950 + 517) + 100 /\ 2 * (charged + 9950 + 517) - 100 < 2 * 100 * r
  BY <1>1, RoundedTo
<1> HIDE DEF r
<1>3. 100 * r - 9950 - 517 - cost + cost - charged \in -50..50
  BY <1>2
<1>. QED BY <1>3 DEF r

LEMMA RateSums == \A f : RateForm!SumFunction(f) = SumFunction(f)
  BY DEF RateForm!SumFunction, RateForm!SumFunctionOnSet, RateForm!FoldFunctionOnSet, RateForm!MapThenFoldSet,
         SumFunction, SumFunctionOnSet, FoldFunctionOnSet, MapThenFoldSet

Costs(items) == [i \in DOMAIN items |-> RateForm!estimateItemCostPaise(items[i], rates)]
Charges(items) ==
  [i \in DOMAIN items |-> RateForm!Rounded(items[i].grams * rates[RateForm!SellField(items[i].material)], 1000)]

LEMMA ProfitStays == RatesInv => RateForm!ProfitTrue
<1>. SUFFICES ASSUME RatesInv PROVE RateForm!ProfitTrue
  OBVIOUS
<1> DEFINE items == SmallOrder.items
           item == items[1]
<1>1. DOMAIN items = 1..1 /\ item.grams = 33 /\ item.seconds = 600 /\ SmallOrder.ship = 9950 /\ SmallOrder.tax = 517
  BY DEF SmallOrder
<1> HIDE DEF items
<1>2. rates \in [RateFields -> Nat] /\ {"gst", "spoolShipping", "power", "kwh"} \subseteq RateFields
  BY DEF RatesInv, FormInv, RateFields
<1>3. RateForm!filamentCostPerKgPaise(item, rates) \in Int
  BY <1>2, SpoolFields, CostIsInt DEF RateForm!filamentCostPerKgPaise
<1>4. RateForm!estimateItemCostPaise(item, rates) \in Int
  <2>1. 1000 \in Nat \ {0} /\ 3600 * 1000 \in Nat \ {0}
    OBVIOUS
  <2>2. (\A c \in Int : RateForm!Rounded(c, 1000) \in Int) /\ (\A c \in Int : RateForm!Rounded(c, 3600 * 1000) \in Int)
    <3>1. \A c \in Int : RateForm!Rounded(c, 1000) \in Int
      BY <2>1, RoundedTo
    <3>2. \A c \in Int : RateForm!Rounded(c, 3600 * 1000) \in Int
      BY <2>1, RoundedTo
    <3>. QED BY <3>1, <3>2
  <2>3. 33 * RateForm!filamentCostPerKgPaise(item, rates) \in Int /\ 600 * rates["power"] * rates["kwh"] \in Int
    BY <1>2, <1>3
  <2>. QED BY <1>1, <2>2, <2>3 DEF RateForm!estimateItemCostPaise
<1>5. RateForm!Rounded(item.grams * rates[RateForm!SellField(item.material)], 1000) \in Int
  <2>1. item.grams * rates[RateForm!SellField(item.material)] \in Int /\ 1000 \in Nat \ {0}
    BY <1>1, <1>2, SpoolFields
  <2>. QED BY <2>1, RoundedTo
<1>6. Costs(items) \in [1..1 -> Int] /\ Charges(items) \in [1..1 -> Int]
  BY <1>1, <1>4, <1>5 DEF Costs, Charges
<1>7. IsFiniteSet(1..1)
  BY 1 \in Int, FS_Interval
<1>8. SumFunction(Costs(items)) \in Int /\ SumFunction(Charges(items)) \in Int
  BY <1>6, <1>7, 0 \in Int, 1 \in 1..1, SumChanges
<1>9. RateForm!SumFunction(Costs(items)) \in Int /\ RateForm!SumFunction(Charges(items)) \in Int
  BY <1>8, RateSums
<1>. QED BY <1>1, <1>9, ProfitOf DEF RateForm!ProfitTrue, RateForm!estimateOrderProfitPaise, Costs, Charges, items

-----------------------------------------------------------------------------
(* All of the editors, whichever part the initial state picks.             *)

\* A part that rests keeps its first state; the helper's form and its pick share theirs.
EditorsInv ==
  /\ ViewerInv /\ PrintsInv /\ MaterialInv /\ ColoursInv /\ RatesInv
  /\ part = "helper" => HelperInv
  /\ part = "chooser" => ChooserInv

LEMMA EditorsInit == AllInit => EditorsInv
<1>. SUFFICES ASSUME AllInit PROVE EditorsInv
  OBVIOUS
<1>1. Viewer!Init /\ Prints!Init /\ Material!Init /\ Colours!Init /\ RateForm!Init
  BY DEF AllInit
<1>2. (part = "helper" => Helper!Init) /\ (part = "chooser" => Chooser!Init)
  BY DEF AllInit
<1>3. (part = "helper" => HelperInv) /\ (part = "chooser" => ChooserInv)
  BY <1>2, HelperInit, ChooserInit
<1>. QED BY <1>1, <1>3, ViewerInit, PrintsInit, MaterialInit, ColoursInit, RatesInit DEF EditorsInv

\* A step of one part is a step or a stutter of each of the editors.
LEMMA EditorParts ==
  ASSUME [AllNext]_allVars
  PROVE  /\ part' = part
         /\ [Viewer!Next]_viewerVars /\ [Prints!Next]_showcaseVars /\ [Material!Next]_materialVars
         /\ [Colours!Next]_colourVars /\ [RateForm!Next]_rateVars
         /\ part = "helper" => [Helper!Next]_helperVars
         /\ part = "chooser" => [Chooser!Next]_helperVars
<1>1. CASE UNCHANGED allVars
  BY <1>1 DEF allVars
<1>2. CASE AllNext
  <2>1. part' = part
    BY <1>2 DEF AllNext
  <2>2. Viewer!Next \/ UNCHANGED viewerVars
    BY <1>2 DEF AllNext
  <2>3. Prints!Next \/ UNCHANGED showcaseVars
    BY <1>2 DEF AllNext
  <2>4. Material!Next \/ UNCHANGED materialVars
    BY <1>2 DEF AllNext
  <2>5. Colours!Next \/ UNCHANGED colourVars
    BY <1>2 DEF AllNext
  <2>6. RateForm!Next \/ UNCHANGED rateVars
    BY <1>2 DEF AllNext
  <2>7. part = "helper" => Helper!Next \/ UNCHANGED helperVars
    BY <1>2 DEF AllNext
  <2>8. part = "chooser" => Chooser!Next \/ UNCHANGED helperVars
    BY <1>2 DEF AllNext
  <2>. QED BY <2>1, <2>2, <2>3, <2>4, <2>5, <2>6, <2>7, <2>8
<1>. QED BY <1>1, <1>2

LEMMA EditorsStep == EditorsInv /\ [AllNext]_allVars => EditorsInv'
<1>. SUFFICES ASSUME EditorsInv, [AllNext]_allVars PROVE EditorsInv'
  OBVIOUS
<1>1. ViewerInv' /\ PrintsInv' /\ MaterialInv' /\ ColoursInv' /\ RatesInv'
  BY EditorParts, ViewerStep, PrintsStep, MaterialStep, ColoursStep, RatesStep DEF EditorsInv
<1>2. part' = part /\ (part = "helper" => HelperInv') /\ (part = "chooser" => ChooserInv')
  BY EditorParts, HelperStep, ChooserStep DEF EditorsInv
<1>. QED BY <1>1, <1>2 DEF EditorsInv

\* What the editors show, send and store is true in every state, with the exceptions that
\* the properties name. As long as no save has overlapped another or come from a page out of
\* date, the photo of a published entry stays, and so does the entry until its editor removes
\* it; an upload that no list has had is never deleted within the hour, whatever overlaps
\* (showcase-editor.tsx, showcase-photos.ts). An id means one colour, unless one was added
\* while a save had not come back to the page, and in any case customers can tell two apart
\* (catalog-editor.tsx, custom-colours.ts); an own material
\* is served by one preset and its editor comes to rest on what holds
\* (custom-materials-editor.tsx, slicer-profiles.ts); a need that was never rated helps no
\* material, a pick is the best on offer and its reason leaves no need out
\* (material-helper-editor.tsx, material-helper.ts); a rate that was not typed in is saved
\* as it was, and the form says rightly which spools are covered (rates-editor.tsx,
\* costs.ts); the viewer of photos is never stuck or blank (recent-prints-grid.tsx).
THEOREM EditorsAlwaysTrue == AllSpec => []EditorsTrue
<1>1. ASSUME EditorsInv PROVE EditorsTrue
  <2>1. Viewer!ViewerTrue /\ Prints!ShowcaseTrue /\ Material!MaterialTold /\ Colours!ColoursTrue
    BY <1>1, ViewerStays, PrintsStay, MaterialStays, ColoursStay DEF EditorsInv
  <2>2. RateForm!RatesTrue
    BY <1>1, UntouchedStays, SavedStays, CoverStays, ProfitStays DEF EditorsInv, RateForm!RatesTrue
  <2>3. (part = "helper" => Helper!NeedsKept) /\ (part = "chooser" => Chooser!HelperTrue)
    BY <1>1, NeedsStay, ChoiceStays DEF EditorsInv
  <2>. QED BY <2>1, <2>2, <2>3 DEF EditorsTrue
<1>. QED BY <1>1, EditorsInit, EditorsStep, PTL DEF AllSpec
=============================================================================
