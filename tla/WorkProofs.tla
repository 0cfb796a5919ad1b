------------------------------ MODULE WorkProofs ------------------------------
(***************************************************************************)
(* Theorems about the worker's own work that MCWork composes: the slicer   *)
(* identities, for any identities and any callers; and the batches of      *)
(* presets: for any number of batches, presets, crashes, reverts and       *)
(* slices, customers' slices load presets that have passed, one for each   *)
(* slot.                                                                   *)
(***************************************************************************)
EXTENDS MCWork, TLAPS

-----------------------------------------------------------------------------
(* The slicer identities.                                                  *)

\* Nobody is in the queue twice.
OncePerCaller == \A i, j \in DOMAIN waiters : waiters[i] = waiters[j] => i = j

PoolInv == TypeOK /\ OncePerCaller /\ Conserved /\ NoIdleWaiter

LEMMA PoolInit == Init => PoolInv
<1> SUFFICES ASSUME Init
             PROVE  PoolInv
  OBVIOUS
<1>1. TypeOK /\ OncePerCaller /\ NoIdleWaiter
  BY DEF Init, TypeOK, OncePerCaller, NoIdleWaiter, Waiting
<1>2. Conserved
  BY PoolAssumption DEF Init, Conserved
<1> QED
  BY <1>1, <1>2 DEF PoolInv

\* A free identity is taken.
LEMMA TakeKeeps ==
  ASSUME PoolInv, NEW c \in Callers, Idle(c), NEW i \in free, free' = free \ {i},
         holds' = [holds EXCEPT ![c] = i], UNCHANGED waiters
  PROVE  PoolInv'
<1>1. TypeOK'
  BY DEF PoolInv, TypeOK
<1>2. waiters = <<>>
  BY DEF PoolInv, NoIdleWaiter
<1>3. OncePerCaller' /\ NoIdleWaiter'
  BY <1>2 DEF PoolInv, OncePerCaller, NoIdleWaiter, Waiting
<1>4. holds'[c] = i /\ \A d \in Callers \ {c} : holds'[d] = holds[d]
  BY DEF PoolInv, TypeOK
<1>5. i \in Identities /\ i # Nobody /\ \A d \in Callers : holds[d] # i
  BY PoolAssumption DEF PoolInv, TypeOK, Conserved
<1>6. Conserved'
  <2>1. ASSUME NEW d \in Callers, NEW e \in Callers, d # e, holds'[d] # Nobody
        PROVE  holds'[d] # holds'[e]
    BY <2>1, <1>4, <1>5 DEF PoolInv, Conserved
  <2>2. \A x : x \in free' <=> x \in Identities \ {holds'[d] : d \in Callers}
    BY <1>4, <1>5, PoolAssumption DEF PoolInv, Conserved, Idle
  <2> QED
    BY <2>1, <2>2 DEF Conserved
<1> QED
  BY <1>1, <1>3, <1>6 DEF PoolInv

\* The caller joins the queue.
LEMMA WaitKeeps ==
  ASSUME PoolInv, NEW c \in Callers, Idle(c), free = {}, waiters' = Enqueued(c),
         UNCHANGED <<free, holds>>
  PROVE  PoolInv'
<1>1. TypeOK'
  BY DEF PoolInv, TypeOK, Enqueued
<1>2. /\ DOMAIN waiters = 1..Len(waiters)
      /\ DOMAIN waiters' = 1..(Len(waiters) + 1)
      /\ Len(waiters) \in Nat
      /\ \A i \in 1..Len(waiters) : waiters'[i] = waiters[i]
      /\ waiters'[Len(waiters) + 1] = c
  BY DEF PoolInv, TypeOK, Enqueued
<1>3. \A i \in 1..Len(waiters) : waiters[i] # c
  BY <1>2 DEF Idle, Waiting
<1>4. OncePerCaller'
  BY <1>2, <1>3 DEF PoolInv, OncePerCaller
<1>5. Waiting' = Waiting \cup {c}
  BY <1>2 DEF Waiting
<1>6. NoIdleWaiter' /\ Conserved'
  BY <1>5 DEF PoolInv, NoIdleWaiter, Conserved, Idle
<1> QED
  BY <1>1, <1>4, <1>6 DEF PoolInv

\* The identity goes to the first waiter.
LEMMA HandKeeps ==
  ASSUME PoolInv, NEW c \in Callers, holds[c] # Nobody, Handed, free' = FreedWith(holds[c]),
         holds' = [holds EXCEPT ![c] = Nobody, ![Head(waiters)] = holds[c]],
         waiters' = Tail(waiters)
  PROVE  PoolInv'
<1>1. /\ DOMAIN waiters = 1..Len(waiters) /\ Len(waiters) \in Nat \ {0}
      /\ DOMAIN waiters' = 1..(Len(waiters) - 1)
      /\ \A i \in 1..(Len(waiters) - 1) : waiters'[i] = waiters[i + 1]
      /\ Head(waiters) = waiters[1]
      /\ waiters' \in Seq(Callers)
  BY DEF PoolInv, TypeOK, Handed
<1> DEFINE w == waiters[1]
<1>2. w \in Callers /\ w \in Waiting
  BY <1>1 DEF PoolInv, TypeOK, Waiting
<1>3. holds[w] = Nobody /\ w # c
  BY <1>2 DEF PoolInv, NoIdleWaiter
<1>4. Waiting' \subseteq Waiting \ {w}
  <2>1. ASSUME NEW i \in 1..(Len(waiters) - 1)
        PROVE  waiters'[i] \in Waiting \ {w}
    <3>1. i + 1 \in 1..Len(waiters) /\ i + 1 # 1 /\ 1 \in 1..Len(waiters)
      BY <1>1
    <3> QED
      BY <1>1, <3>1 DEF PoolInv, OncePerCaller, Waiting
  <2> QED
    BY <1>1, <2>1 DEF Waiting
<1>5. OncePerCaller'
  <2>1. ASSUME NEW i \in 1..(Len(waiters) - 1), NEW j \in 1..(Len(waiters) - 1),
               waiters'[i] = waiters'[j]
        PROVE  i = j
    <3>1. i + 1 \in 1..Len(waiters) /\ j + 1 \in 1..Len(waiters)
      BY <1>1
    <3>2. i + 1 = j + 1
      BY <1>1, <2>1, <3>1 DEF PoolInv, OncePerCaller
    <3> QED
      BY <3>2
  <2> QED
    BY <1>1, <2>1 DEF OncePerCaller
<1>6. /\ holds'[c] = Nobody /\ holds'[w] = holds[c]
      /\ \A d \in Callers \ {c, w} : holds'[d] = holds[d]
      /\ holds' \in [Callers -> Identities \cup {Nobody}]
  BY <1>1, <1>2, <1>3 DEF PoolInv, TypeOK
<1>7. free' = free
  BY DEF FreedWith
<1>8. free = {}
  BY DEF PoolInv, NoIdleWaiter, Handed
<1>9. TypeOK'
  BY <1>1, <1>6, <1>7 DEF PoolInv, TypeOK
<1>10. NoIdleWaiter'
  <2>1. \A d \in Waiting' : d # w /\ d \in Waiting
    BY <1>4
  <2>2. \A d \in Waiting : d \in Callers /\ holds[d] = Nobody
    BY DEF PoolInv, NoIdleWaiter, TypeOK, Waiting
  <2> QED
    BY <1>6, <1>7, <1>8, <2>1, <2>2 DEF NoIdleWaiter
<1>11. Conserved'
  <2>1. ASSUME NEW d \in Callers, NEW e \in Callers, d # e, holds'[d] # Nobody
        PROVE  holds'[d] # holds'[e]
    BY <2>1, <1>2, <1>3, <1>6 DEF PoolInv, Conserved
  <2>2. {holds'[d] : d \in Callers} = {holds[d] : d \in Callers}
    BY <1>2, <1>3, <1>6
  <2> QED
    BY <2>1, <2>2, <1>7 DEF PoolInv, Conserved
<1> QED
  BY <1>5, <1>9, <1>10, <1>11 DEF PoolInv

\* The identity goes back to the pool.
LEMMA FreeKeeps ==
  ASSUME PoolInv, NEW c \in Callers, holds[c] # Nobody, ~Handed, free' = FreedWith(holds[c]),
         holds' = [holds EXCEPT ![c] = Nobody], UNCHANGED waiters
  PROVE  PoolInv'
<1>1. free' = free \cup {holds[c]} /\ waiters = <<>>
  BY DEF FreedWith, Handed
<1>2. holds'[c] = Nobody /\ \A d \in Callers \ {c} : holds'[d] = holds[d]
  BY DEF PoolInv, TypeOK
<1>3. holds[c] \in Identities
  BY DEF PoolInv, TypeOK
<1>4. TypeOK' /\ OncePerCaller' /\ NoIdleWaiter'
  BY <1>1, <1>3 DEF PoolInv, TypeOK, OncePerCaller, NoIdleWaiter, Waiting
<1>5. Conserved'
  <2>1. ASSUME NEW d \in Callers, NEW e \in Callers, d # e, holds'[d] # Nobody
        PROVE  holds'[d] # holds'[e]
    BY <2>1, <1>2 DEF PoolInv, Conserved
  <2>2. \A x : x \in free' <=> x \in Identities \ {holds'[d] : d \in Callers}
    BY <1>1, <1>2, <1>3, PoolAssumption DEF PoolInv, Conserved
  <2> QED
    BY <2>1, <2>2 DEF Conserved
<1> QED
  BY <1>4, <1>5 DEF PoolInv

LEMMA PoolStep == PoolInv /\ [Next]_vars => PoolInv'
<1> SUFFICES ASSUME PoolInv, [Next]_vars
             PROVE  PoolInv'
  OBVIOUS
<1>1. ASSUME NEW c \in Callers, Acquire(c)
      PROVE  PoolInv'
  BY <1>1, TakeKeeps, WaitKeeps DEF Acquire
<1>2. ASSUME NEW c \in Callers, Release(c)
      PROVE  PoolInv'
  BY <1>2, HandKeeps, FreeKeeps DEF Release
<1>3. CASE UNCHANGED vars
  BY <1>3 DEF PoolInv, TypeOK, OncePerCaller, Conserved, NoIdleWaiter, Waiting, vars
<1> QED
  BY <1>1, <1>2, <1>3 DEF Next

LEMMA PoolAlways == Spec => []PoolInv
BY PoolInit, PoolStep, PTL DEF Spec

\* However callers come and go, no two Orca runs share an identity and none is lost
\* (slicer-pool.ts:4-6).
THEOREM IdentitiesConserved == Spec => []Conserved
<1>1. PoolInv => Conserved
  BY DEF PoolInv
<1> QED
  BY <1>1, PoolAlways, PTL

\* Nobody waits beside a free identity, or while holding one (slicer-pool.ts:15-25).
THEOREM NobodyWaitsIdle == Spec => []NoIdleWaiter
<1>1. PoolInv => NoIdleWaiter
  BY DEF PoolInv
<1> QED
  BY <1>1, PoolAlways, PTL

-----------------------------------------------------------------------------
(* The batches of presets.                                                 *)

Aims == UNION {UNION {{s[i].aim, s[i].height} : i \in DOMAIN s} : s \in Shapes} \cup {Nothing}
Statuses == {"PENDING", "TESTING", "ACTIVE", "SKIPPED", "FAILED", "RETIRED"}
Presets == [slot : Aims, height : Aims, status : Statuses]
TestFields == {"batch", "at", "live", "with"}
SliceFields == {"at", "key", "loads"}
Steps == {"claimed", "testing", "passed", "ending"}

\* A row of the table is addressed by its batch and its place in it.
Stored(b, i) == b \in Batches /\ i \in DOMAIN rows[b]
Unsettled == {"PENDING", "TESTING"}

BatchTyped ==
  /\ DOMAIN rows = Batches
  /\ \A b \in Batches : DOMAIN rows[b] \subseteq 1..MaxPresets
  /\ \A b \in Batches : \A i \in DOMAIN rows[b] : rows[b][i] \in Presets
  /\ task \in [Batches -> {"none", "waiting", "active", "done"}]
  /\ \A p \in proven : p \subseteq Batch!RowIds
  /\ \A d \in DOMAIN sets : d \subseteq Batch!RowIds /\ sets[d] \in {"fresh", "old"}
  /\ test # Nothing =>
       /\ DOMAIN test = TestFields
       /\ test.batch \in Batches /\ test.at \in Steps
  /\ slicing # Nothing => DOMAIN slicing = SliceFields

\* The presets of a batch leave "PENDING" and "TESTING" together.
Together ==
  \A b \in Batches : \A i, j \in DOMAIN rows[b] :
    rows[b][i].status \in Unsettled => rows[b][j].status = rows[b][i].status

\* What a test has found out is true of its batch, and its set holds every live
\* preset that it would not replace.
TestTrue ==
  test # Nothing /\ test.at \in {"testing", "passed"} =>
    /\ DOMAIN test.live \subseteq DOMAIN rows[test.batch]
    /\ \A i, j \in DOMAIN test.live : test.live[i] = test.live[j] => i = j
    /\ \A i \in DOMAIN test.live : test.live[i] \in Aims /\ <<test.batch, i>> \in test.with
    /\ test.with \subseteq Batch!RowIds
    /\ \A r \in Batch!Live :
         (\A i \in DOMAIN test.live : test.live[i] # Batch!SlotOf(r)) => r \in test.with
    /\ test.at = "passed" => test.with \in proven

BatchInv ==
  /\ BatchTyped /\ Together /\ TestTrue
  /\ Batch!LiveIsProven /\ Batch!OnePerSlot /\ Batch!KeyedSlice

-----------------------------------------------------------------------------
\* The rows of the table, and those that are live, one by one.
LEMMA RowsAre ==
  ASSUME BatchTyped
  PROVE  /\ \A b, i : <<b, i>> \in Batch!RowIds <=> Stored(b, i)
         /\ \A r \in Batch!RowIds : r = <<r[1], r[2]>> /\ Stored(r[1], r[2])
         /\ \A r \in Batch!Live : r \in Batch!RowIds /\ rows[r[1]][r[2]].status = "ACTIVE"
         /\ \A r \in Batch!RowIds : rows[r[1]][r[2]].status = "ACTIVE" => r \in Batch!Live
<1>1. \A b, i : <<b, i>> \in Batch!RowIds <=> Stored(b, i)
  BY DEF BatchTyped, Batch!RowIds, Stored
<1>2. \A r \in Batch!RowIds : r = <<r[1], r[2]>> /\ Stored(r[1], r[2])
  BY DEF BatchTyped, Batch!RowIds, Stored
<1>3. \A r : r \in Batch!Live <=> r \in Batch!RowIds /\ rows[r[1]][r[2]].status = "ACTIVE"
  BY DEF Batch!Live, Batch!With
<1> QED
  BY <1>1, <1>2, <1>3

\* The table after an update of the statuses of some rows.
LEMMA SetStatusIs ==
  ASSUME BatchTyped, NEW ids, NEW from, NEW to \in Statuses
  PROVE  LET after == Batch!SetStatus(ids, from, to)
         IN /\ DOMAIN after = Batches
            /\ \A b \in Batches :
                 /\ DOMAIN after[b] = DOMAIN rows[b]
                 /\ \A i \in DOMAIN rows[b] :
                      /\ after[b][i] \in Presets
                      /\ after[b][i].slot = rows[b][i].slot
                      /\ after[b][i].status = IF <<b, i>> \in ids /\ rows[b][i].status \in from
                                                THEN to ELSE rows[b][i].status
<1> DEFINE after == Batch!SetStatus(ids, from, to)
<1>1. /\ DOMAIN after = Batches
      /\ \A b \in Batches : DOMAIN after[b] = DOMAIN rows[b]
      /\ \A b \in Batches : \A i \in DOMAIN rows[b] :
           after[b][i] = IF <<b, i>> \in ids /\ rows[b][i].status \in from
                           THEN [rows[b][i] EXCEPT !.status = to] ELSE rows[b][i]
  BY DEF Batch!SetStatus
<1>2. \A b \in Batches : \A i \in DOMAIN rows[b] : rows[b][i] \in Presets
  BY DEF BatchTyped
<1>3. \A p \in Presets : /\ [p EXCEPT !.status = to] \in Presets
                         /\ [p EXCEPT !.status = to].slot = p.slot
                         /\ [p EXCEPT !.status = to].status = to
  BY DEF Presets
<1> HIDE DEF after
<1>4. ASSUME NEW b \in Batches, NEW i \in DOMAIN rows[b]
      PROVE  /\ after[b][i] \in Presets
             /\ after[b][i].slot = rows[b][i].slot
             /\ after[b][i].status = IF <<b, i>> \in ids /\ rows[b][i].status \in from
                                       THEN to ELSE rows[b][i].status
  <2> DEFINE p == rows[b][i]
  <2>1. p \in Presets /\ after[b][i] = IF <<b, i>> \in ids /\ p.status \in from
                                         THEN [p EXCEPT !.status = to] ELSE p
    BY <1>1, <1>2, <1>4
  <2> HIDE DEF p
  <2>2. CASE <<b, i>> \in ids /\ p.status \in from
    BY <1>3, <2>1, <2>2 DEF p
  <2>3. CASE ~(<<b, i>> \in ids /\ p.status \in from)
    BY <2>1, <2>3 DEF p
  <2> QED
    BY <2>2, <2>3
<1>5. QED
  BY <1>1, <1>4 DEF after

\* When no row becomes live or changes its slot, what is live stays proven and apart.
LEMMA FewerLive ==
  ASSUME BatchInv, BatchTyped',
         \A b \in Batches : \A i \in DOMAIN rows'[b] :
           rows'[b][i].status = "ACTIVE" =>
             /\ i \in DOMAIN rows[b] /\ rows[b][i].status = "ACTIVE"
             /\ rows'[b][i].slot = rows[b][i].slot,
         proven \subseteq proven'
  PROVE  /\ Batch!LiveIsProven' /\ Batch!OnePerSlot'
         /\ \A r \in Batch!Live' : r \in Batch!Live /\ Batch!SlotOf(r)' = Batch!SlotOf(r)
<1>1. ASSUME NEW r \in Batch!Live'
      PROVE  r \in Batch!Live /\ Batch!SlotOf(r)' = Batch!SlotOf(r)
  <2>1. /\ r \in Batches \X (1..MaxPresets) /\ r[1] \in Batches /\ r[2] \in DOMAIN rows'[r[1]]
        /\ rows'[r[1]][r[2]].status = "ACTIVE"
    BY <1>1 DEF Batch!Live, Batch!With, Batch!RowIds
  <2>2. /\ r[2] \in DOMAIN rows[r[1]] /\ rows[r[1]][r[2]].status = "ACTIVE"
        /\ rows'[r[1]][r[2]].slot = rows[r[1]][r[2]].slot
    BY <2>1
  <2> QED
    BY <2>1, <2>2 DEF Batch!Live, Batch!With, Batch!RowIds, Batch!SlotOf
<1>2. Batch!OnePerSlot'
  BY <1>1 DEF BatchInv, Batch!OnePerSlot
<1>3. Batch!LiveIsProven'
  <2>1. PICK p \in proven : Batch!Live \subseteq p
    BY DEF BatchInv, Batch!LiveIsProven, Batch!Tested
  <2> QED
    BY <1>1, <2>1 DEF Batch!LiveIsProven, Batch!Tested
<1> QED
  BY <1>1, <1>2, <1>3

LEMMA RowsKept ==
  ASSUME \A b \in Batches : DOMAIN rows[b] \subseteq DOMAIN rows'[b]
  PROVE  Batch!RowIds \subseteq Batch!RowIds'
BY DEF Batch!RowIds

\* An update of statuses that makes no row live.
LEMMA Settling ==
  ASSUME BatchInv, NEW ids, NEW from, NEW to \in Statuses \ {"ACTIVE"},
         rows' = Batch!SetStatus(ids, from, to),
         task' \in [Batches -> {"none", "waiting", "active", "done"}],
         test' # Nothing =>
           /\ DOMAIN test' = TestFields
           /\ test'.batch \in Batches /\ test'.at \in Steps,
         UNCHANGED <<proven, sets, slicing>>
  PROVE  /\ BatchTyped' /\ Batch!LiveIsProven' /\ Batch!OnePerSlot' /\ Batch!KeyedSlice'
         /\ \A r \in Batch!Live' : r \in Batch!Live /\ Batch!SlotOf(r)' = Batch!SlotOf(r)
         /\ \A b \in Batches : DOMAIN rows'[b] = DOMAIN rows[b]
         /\ \A b \in Batches : \A i \in DOMAIN rows[b] :
              rows'[b][i].status = IF <<b, i>> \in ids /\ rows[b][i].status \in from
                                     THEN to ELSE rows[b][i].status
<1>1. /\ DOMAIN rows' = Batches
      /\ \A b \in Batches :
           /\ DOMAIN rows'[b] = DOMAIN rows[b]
           /\ \A i \in DOMAIN rows[b] :
                /\ rows'[b][i] \in Presets
                /\ rows'[b][i].slot = rows[b][i].slot
                /\ rows'[b][i].status = IF <<b, i>> \in ids /\ rows[b][i].status \in from
                                          THEN to ELSE rows[b][i].status
  BY SetStatusIs DEF BatchInv
<1>2. Batch!RowIds \subseteq Batch!RowIds'
  BY <1>1, RowsKept
<1>3. BatchTyped'
  <2>1. \A b \in Batches : DOMAIN rows'[b] \subseteq 1..MaxPresets
    BY <1>1 DEF BatchInv, BatchTyped
  <2>2. (\A p \in proven' : p \subseteq Batch!RowIds') /\ \A d \in DOMAIN sets' : d \subseteq Batch!RowIds' /\ sets'[d] \in {"fresh", "old"}
    BY <1>2 DEF BatchInv, BatchTyped
  <2>3. slicing' # Nothing => DOMAIN slicing' = SliceFields
    BY DEF BatchInv, BatchTyped
  <2> QED
    BY <1>1, <2>1, <2>2, <2>3 DEF BatchTyped
<1>4. /\ Batch!LiveIsProven' /\ Batch!OnePerSlot'
      /\ \A r \in Batch!Live' : r \in Batch!Live /\ Batch!SlotOf(r)' = Batch!SlotOf(r)
  <2>1. \A b \in Batches : \A i \in DOMAIN rows'[b] :
          rows'[b][i].status = "ACTIVE" =>
            i \in DOMAIN rows[b] /\ rows[b][i].status = "ACTIVE" /\ rows'[b][i].slot = rows[b][i].slot
    <3> SUFFICES ASSUME NEW b \in Batches, NEW i \in DOMAIN rows'[b], rows'[b][i].status = "ACTIVE"
                 PROVE  i \in DOMAIN rows[b] /\ rows[b][i].status = "ACTIVE" /\ rows'[b][i].slot = rows[b][i].slot
      OBVIOUS
    <3>1. i \in DOMAIN rows[b] /\ to # "ACTIVE"
      BY <1>1
    <3> QED
      BY <1>1, <3>1
  <2> QED
    BY <1>3, <2>1, FewerLive
<1>5. Batch!KeyedSlice'
  BY DEF BatchInv, Batch!KeyedSlice, Batch!Tested
<1> QED
  BY <1>1, <1>2, <1>3, <1>4, <1>5

\* What a test knows stays true while no row becomes live.
LEMMA TestStays ==
  ASSUME BatchInv, UNCHANGED test, proven \subseteq proven',
         \A b \in Batches : DOMAIN rows[b] \subseteq DOMAIN rows'[b],
         \A r \in Batch!Live' : r \in Batch!Live /\ Batch!SlotOf(r)' = Batch!SlotOf(r)
  PROVE  TestTrue'
<1>1. Batch!RowIds \subseteq Batch!RowIds'
  BY RowsKept
<1> SUFFICES ASSUME test # Nothing, test.at \in {"testing", "passed"}
             PROVE  TestTrue'
  BY DEF TestTrue
<1>2. /\ test.batch \in Batches
      /\ DOMAIN test.live \subseteq DOMAIN rows[test.batch]
      /\ \A i, j \in DOMAIN test.live : test.live[i] = test.live[j] => i = j
      /\ \A i \in DOMAIN test.live : test.live[i] \in Aims /\ <<test.batch, i>> \in test.with
      /\ test.with \subseteq Batch!RowIds
      /\ test.at = "passed" => test.with \in proven
  BY DEF BatchInv, BatchTyped, TestTrue
<1>3. \A r \in Batch!Live' :
        (\A i \in DOMAIN test.live : test.live[i] # Batch!SlotOf(r)') => r \in test.with
  BY DEF BatchInv, TestTrue
<1>4. DOMAIN test.live \subseteq DOMAIN rows'[test.batch] /\ test.with \subseteq Batch!RowIds'
  BY <1>1, <1>2
<1> QED
  BY <1>2, <1>3, <1>4 DEF TestTrue

\* A step that keeps the table and the test.
LEMMA TestRests ==
  ASSUME BatchInv, UNCHANGED <<rows, test>>, proven \subseteq proven'
  PROVE  TestTrue'
<1>1. Batch!Live' = Batch!Live /\ \A r : Batch!SlotOf(r)' = Batch!SlotOf(r)
  BY DEF Batch!RowIds, Batch!Live, Batch!With, Batch!SlotOf
<1> QED
  BY <1>1, TestStays

\* A step of the test under way that keeps the table.
LEMMA TestMoves ==
  ASSUME BatchInv, UNCHANGED <<rows, sets, slicing>>,
         task' \in [Batches -> {"none", "waiting", "active", "done"}],
         proven \subseteq proven', \A p \in proven' : p \subseteq Batch!RowIds,
         test' # Nothing =>
           /\ DOMAIN test' = TestFields
           /\ test'.batch \in Batches /\ test'.at \in Steps,
         TestTrue'
  PROVE  BatchInv'
<1>1. Batch!RowIds' = Batch!RowIds /\ Batch!Live' = Batch!Live /\ \A r : Batch!SlotOf(r)' = Batch!SlotOf(r)
  BY DEF Batch!RowIds, Batch!Live, Batch!With, Batch!SlotOf
<1>2. BatchTyped'
  BY <1>1 DEF BatchInv, BatchTyped
<1>3. Together'
  BY DEF BatchInv, Together
<1>4. Batch!LiveIsProven' /\ Batch!OnePerSlot' /\ Batch!KeyedSlice'
  <2>1. /\ Batch!Tested(Batch!Live) => Batch!Tested(Batch!Live)'
        /\ Batch!Tested(slicing.key) => Batch!Tested(slicing.key)'
    BY <1>1 DEF Batch!Tested
  <2> QED
    BY <1>1, <2>1 DEF BatchInv, Batch!LiveIsProven, Batch!OnePerSlot, Batch!KeyedSlice
<1> QED
  BY <1>2, <1>3, <1>4 DEF BatchInv

\* Rows of one batch fail, those without a verdict among them.
LEMMA OwnFails ==
  ASSUME BatchInv, NEW b \in Batches, NEW from, Unsettled \subseteq from,
         rows' = Batch!SetStatus(Batch!Own(b), from, "FAILED"),
         task' \in [Batches -> {"none", "waiting", "active", "done"}],
         test' # Nothing =>
           /\ DOMAIN test' = TestFields
           /\ test'.batch \in Batches /\ test'.at \in Steps,
         UNCHANGED <<proven, sets, slicing>>
  PROVE  /\ BatchTyped' /\ Together' /\ Batch!LiveIsProven' /\ Batch!OnePerSlot' /\ Batch!KeyedSlice'
         /\ \A c \in Batches : DOMAIN rows'[c] = DOMAIN rows[c]
         /\ \A r \in Batch!Live' : r \in Batch!Live /\ Batch!SlotOf(r)' = Batch!SlotOf(r)
<1>1. /\ BatchTyped' /\ Batch!LiveIsProven' /\ Batch!OnePerSlot' /\ Batch!KeyedSlice'
      /\ \A r \in Batch!Live' : r \in Batch!Live /\ Batch!SlotOf(r)' = Batch!SlotOf(r)
      /\ \A c \in Batches : DOMAIN rows'[c] = DOMAIN rows[c]
      /\ \A c \in Batches : \A i \in DOMAIN rows[c] :
           rows'[c][i].status = IF <<c, i>> \in Batch!Own(b) /\ rows[c][i].status \in from
                                  THEN "FAILED" ELSE rows[c][i].status
  BY Settling DEF Statuses
<1>2. \A c \in Batches : \A i \in DOMAIN rows[c] : <<c, i>> \in Batch!Own(b) <=> c = b
  BY RowsAre DEF BatchInv, Batch!Own, Stored
<1>3. Together'
  <2> SUFFICES ASSUME NEW c \in Batches, NEW i \in DOMAIN rows[c], NEW j \in DOMAIN rows[c],
                      rows'[c][i].status \in Unsettled
               PROVE  rows'[c][j].status = rows'[c][i].status
    BY <1>1 DEF Together
  <2>1. c # b /\ rows[c][i].status = rows'[c][i].status
    BY <1>1, <1>2 DEF Unsettled
  <2>2. rows[c][j].status = rows[c][i].status
    BY <2>1 DEF BatchInv, Together
  <2> QED
    BY <1>1, <1>2, <2>1, <2>2
<1> QED
  BY <1>1, <1>3

-----------------------------------------------------------------------------
\* The web stores a batch.
LEMMA StoreKeeps ==
  ASSUME BatchInv, NEW b \in Batches, NEW shape \in Shapes, Batch!Store(b, shape)
  PROVE  BatchInv'
<1>1. /\ rows[b] = <<>>
      /\ rows' = [rows EXCEPT ![b] = [i \in DOMAIN shape |->
                   [slot |-> shape[i].aim, height |-> shape[i].height, status |-> "PENDING"]]]
      /\ UNCHANGED <<task, test, proven, sets, slicing>>
  BY DEF Batch!Store
<1>2. BatchTyped /\ DOMAIN rows = Batches /\ DOMAIN rows[b] = {}
  BY <1>1 DEF BatchInv, BatchTyped
<1>3. /\ DOMAIN rows' = Batches /\ DOMAIN rows'[b] = DOMAIN shape
      /\ \A i \in DOMAIN shape :
           rows'[b][i] = [slot |-> shape[i].aim, height |-> shape[i].height, status |-> "PENDING"]
      /\ \A c \in Batches : c # b => rows'[c] = rows[c]
  BY <1>1, <1>2
<1>4. \A i \in DOMAIN shape : rows'[b][i] \in Presets /\ rows'[b][i].status = "PENDING"
  <2>1. ASSUME NEW i \in DOMAIN shape
        PROVE  shape[i].aim \in Aims /\ shape[i].height \in Aims
    <3>1. {shape[i].aim, shape[i].height} \in {{shape[k].aim, shape[k].height} : k \in DOMAIN shape}
      OBVIOUS
    <3>2. UNION {{shape[k].aim, shape[k].height} : k \in DOMAIN shape}
            \in {UNION {{s[k].aim, s[k].height} : k \in DOMAIN s} : s \in Shapes}
      OBVIOUS
    <3> QED
      BY <3>1, <3>2 DEF Aims
  <2> QED
    BY <1>3, <2>1 DEF Presets, Statuses
<1>5. \A c \in Batches : DOMAIN rows[c] \subseteq DOMAIN rows'[c]
  BY <1>2, <1>3
<1>6. Batch!RowIds \subseteq Batch!RowIds'
  BY <1>5, RowsKept
<1>7. BatchTyped'
  <2>1. \A c \in Batches : DOMAIN rows'[c] \subseteq 1..MaxPresets
    BY <1>2, <1>3, ShapesAssumption DEF BatchTyped
  <2>2. \A c \in Batches : \A i \in DOMAIN rows'[c] : rows'[c][i] \in Presets
    BY <1>2, <1>3, <1>4 DEF BatchTyped
  <2>3. task' \in [Batches -> {"none", "waiting", "active", "done"}]
    BY <1>1, <1>2 DEF BatchTyped
  <2>4. /\ \A p \in proven' : p \subseteq Batch!RowIds'
        /\ \A d \in DOMAIN sets' : d \subseteq Batch!RowIds' /\ sets'[d] \in {"fresh", "old"}
    BY <1>1, <1>2, <1>6 DEF BatchTyped
  <2>5. /\ test' # Nothing =>
             /\ DOMAIN test' = TestFields
             /\ test'.batch \in Batches /\ test'.at \in Steps
        /\ slicing' # Nothing => DOMAIN slicing' = SliceFields
    BY <1>1, <1>2 DEF BatchTyped
  <2> QED
    BY <1>3, <2>1, <2>2, <2>3, <2>4, <2>5 DEF BatchTyped
<1>8. Together'
  BY <1>3, <1>4 DEF BatchInv, Together
<1>10. /\ Batch!LiveIsProven' /\ Batch!OnePerSlot'
       /\ \A r \in Batch!Live' : r \in Batch!Live /\ Batch!SlotOf(r)' = Batch!SlotOf(r)
  <2>1. \A c \in Batches : \A i \in DOMAIN rows'[c] :
          rows'[c][i].status = "ACTIVE" =>
            i \in DOMAIN rows[c] /\ rows[c][i].status = "ACTIVE" /\ rows'[c][i].slot = rows[c][i].slot
    BY <1>3, <1>4
  <2> QED
    BY <1>1, <1>7, <2>1, FewerLive
<1>9. TestTrue'
  BY <1>1, <1>5, <1>10, TestStays
<1>11. Batch!KeyedSlice'
  BY <1>1 DEF BatchInv, Batch!KeyedSlice, Batch!Tested
<1> QED
  BY <1>7, <1>8, <1>9, <1>10, <1>11 DEF BatchInv

\* The web queues the batch, or writes that it could not, or its call is cut short.
LEMMA CallKeeps ==
  ASSUME BatchInv, NEW b \in Batches, Batch!Enqueue(b) \/ Batch!Abandon(b)
  PROVE  BatchInv'
<1>1. /\ UNCHANGED <<rows, test, proven, sets, slicing>> /\ BatchTyped
      /\ task' = task \/ task' = [task EXCEPT ![b] = "waiting"]
  BY DEF Batch!Enqueue, Batch!Abandon, BatchInv
<1>2. task' \in [Batches -> {"none", "waiting", "active", "done"}]
  BY <1>1 DEF BatchTyped
<1>3. TestTrue'
  BY <1>1, TestRests
<1> QED
  BY <1>1, <1>2, <1>3, TestMoves DEF BatchTyped

LEMMA FailuresKeep ==
  ASSUME BatchInv, NEW b \in Batches, Batch!EnqueueFailed(b) \/ Batch!WriteFailure(b)
  PROVE  BatchInv'
<1>1. UNCHANGED <<task, test, proven, sets, slicing>> /\ BatchTyped
  BY DEF Batch!EnqueueFailed, Batch!WriteFailure, BatchInv
<1>2. CASE rows' = rows
  BY <1>1, <1>2, TestRests, TestMoves DEF BatchTyped
<1>3. ASSUME NEW from, Unsettled \subseteq from, rows' = Batch!SetStatus(Batch!Own(b), from, "FAILED")
      PROVE  BatchInv'
  <2>1. /\ BatchTyped' /\ Together' /\ Batch!LiveIsProven' /\ Batch!OnePerSlot' /\ Batch!KeyedSlice'
        /\ \A c \in Batches : DOMAIN rows'[c] = DOMAIN rows[c]
        /\ \A r \in Batch!Live' : r \in Batch!Live /\ Batch!SlotOf(r)' = Batch!SlotOf(r)
    BY <1>1, <1>3, OwnFails DEF BatchTyped
  <2>2. TestTrue'
    BY <1>1, <2>1, TestStays
  <2> QED
    BY <2>1, <2>2 DEF BatchInv
<1>4. Unsettled \subseteq Batch!Statuses /\ Unsettled \subseteq {"PENDING", "TESTING"}
  BY DEF Unsettled, Batch!Statuses
<1> QED
  BY <1>2, <1>3, <1>4 DEF Batch!EnqueueFailed, Batch!WriteFailure

\* The owner puts a slot back on the installed preset.
LEMMA RevertKeeps ==
  ASSUME BatchInv, NEW slot, Batch!revertToInstalled(slot)
  PROVE  BatchInv'
<1> DEFINE ids == {r \in Batch!RowIds : Batch!SlotOf(r) = slot}
<1>1. /\ rows' = Batch!SetStatus(ids, {"ACTIVE"}, "RETIRED")
      /\ UNCHANGED <<task, test, proven, sets, slicing>>
      /\ BatchTyped /\ Together
  BY DEF Batch!revertToInstalled, BatchInv
<1> HIDE DEF ids
<1>2. /\ BatchTyped' /\ Batch!LiveIsProven' /\ Batch!OnePerSlot' /\ Batch!KeyedSlice'
      /\ \A r \in Batch!Live' : r \in Batch!Live /\ Batch!SlotOf(r)' = Batch!SlotOf(r)
      /\ \A c \in Batches : DOMAIN rows'[c] = DOMAIN rows[c]
      /\ \A c \in Batches : \A i \in DOMAIN rows[c] :
           rows'[c][i].status = IF <<c, i>> \in ids /\ rows[c][i].status \in {"ACTIVE"}
                                  THEN "RETIRED" ELSE rows[c][i].status
  BY <1>1, Settling DEF Statuses, BatchTyped
<1>3. Together'
  <2> SUFFICES ASSUME NEW c \in Batches, NEW i \in DOMAIN rows[c], NEW j \in DOMAIN rows[c],
                      rows'[c][i].status \in Unsettled
               PROVE  rows'[c][j].status = rows'[c][i].status
    BY <1>2 DEF Together, Unsettled
  <2>1. rows[c][i].status = rows'[c][i].status
    BY <1>2 DEF Unsettled
  <2>2. rows[c][j].status = rows[c][i].status
    BY <1>1, <2>1 DEF Together
  <2> QED
    BY <1>2, <2>1, <2>2 DEF Unsettled
<1>4. TestTrue'
  BY <1>1, <1>2, TestStays
<1> QED
  BY <1>2, <1>3, <1>4 DEF BatchInv

-----------------------------------------------------------------------------
\* The worker takes up a batch, unless it is settled already.
LEMMA StartKeeps ==
  ASSUME BatchInv, NEW b \in Batches, Batch!Start(b)
  PROVE  BatchInv'
<1> DEFINE open == Batch!With(Batch!Unsettled) \cap Batch!Own(b)
<1>1. /\ task' = [task EXCEPT ![b] = "active"]
      /\ rows' = Batch!SetStatus(open, Unsettled, "TESTING")
      /\ test' = [batch |-> b, at |-> IF open = {} THEN "ending" ELSE "claimed", live |-> <<>>, with |-> {}]
      /\ UNCHANGED <<proven, sets, slicing>>
      /\ BatchTyped /\ Together
  BY DEF Batch!Start, BatchInv, Unsettled, Batch!Unsettled
<1>2. \A c \in Batches : \A i \in DOMAIN rows[c] :
        <<c, i>> \in open <=> c = b /\ rows[c][i].status \in Unsettled
  BY <1>1, RowsAre DEF Batch!Own, Batch!With, Batch!Unsettled, Unsettled, Stored
<1> HIDE DEF open
<1>4. task' \in [Batches -> {"none", "waiting", "active", "done"}] /\ test'.at \in Steps
  BY <1>1 DEF BatchTyped, Steps
<1>4a. DOMAIN test' = TestFields
  BY <1>1 DEF TestFields
<1>5. /\ BatchTyped' /\ Batch!LiveIsProven' /\ Batch!OnePerSlot' /\ Batch!KeyedSlice'
      /\ \A c \in Batches : DOMAIN rows'[c] = DOMAIN rows[c]
      /\ \A c \in Batches : \A i \in DOMAIN rows[c] :
           rows'[c][i].status = IF <<c, i>> \in open /\ rows[c][i].status \in Unsettled
                                  THEN "TESTING" ELSE rows[c][i].status
  BY <1>1, <1>4, <1>4a, Settling DEF Statuses
<1>6. Together'
  <2> SUFFICES ASSUME NEW c \in Batches, NEW i \in DOMAIN rows[c], NEW j \in DOMAIN rows[c],
                      rows'[c][i].status \in Unsettled
               PROVE  rows'[c][j].status = rows'[c][i].status
    BY <1>5 DEF Together, Unsettled
  <2>1. CASE rows[c][i].status \in Unsettled
    <3>1. rows[c][j].status = rows[c][i].status
      BY <1>1, <2>1 DEF Together
    <3> QED
      BY <1>2, <1>5, <2>1, <3>1
  <2>2. CASE rows[c][i].status \notin Unsettled
    BY <1>5, <2>2
  <2> QED
    BY <2>1, <2>2
<1>7. TestTrue'
  BY <1>1 DEF TestTrue
<1> QED
  BY <1>5, <1>6, <1>7 DEF BatchInv

\* What the plan of a batch places: presets of the batch, each in a slot of its own.
LEMMA PlanPlaces ==
  ASSUME BatchTyped, NEW b \in Batches
  PROVE  LET plan == Batch!planBatch(b)
         IN /\ DOMAIN plan \subseteq DOMAIN rows[b]
            /\ \A i, j \in DOMAIN plan : plan[i] = plan[j] => i = j
            /\ \A i \in DOMAIN plan : plan[i] \in Aims
<1> DEFINE plan == Batch!planBatch(b)
           wanted(i) == Batch!Wanted(b, i)
<1>1. /\ \A i \in DOMAIN plan : i \in DOMAIN rows[b] /\ plan[i] = wanted(i)
      /\ \A i \in DOMAIN plan : \A j \in DOMAIN rows[b] :
           ~(Batch!Before(b, j, i) /\ wanted(j) = wanted(i))
  BY DEF Batch!planBatch, Batch!Taken
<1>2. \A i \in DOMAIN rows[b] : i \in 1..MaxPresets /\ wanted(i) \in Aims
  BY DEF BatchTyped, Presets, Batch!Wanted, Batch!Row
<1>3. \A i, j \in DOMAIN rows[b] : i = j \/ Batch!Before(b, i, j) \/ Batch!Before(b, j, i)
  BY <1>2, ShapesAssumption DEF Batch!Before
<1> HIDE DEF plan, wanted
<1>4. \A i, j \in DOMAIN plan : plan[i] = plan[j] => i = j
  BY <1>1, <1>3
<1>5. \A i \in DOMAIN plan : i \in DOMAIN rows[b] /\ plan[i] \in Aims
  BY <1>1, <1>2
<1> QED
  BY <1>4, <1>5 DEF plan

LEMMA PlanKeeps ==
  ASSUME BatchInv, Batch!Plan
  PROVE  BatchInv'
<1> DEFINE b == test.batch
           plan == Batch!planBatch(b)
           others == {r \in Batch!Live : Batch!SlotOf(r) \notin {plan[i] : i \in DOMAIN plan}}
<1>1. /\ test # Nothing /\ test.at = "claimed" /\ b \in Batches
      /\ DOMAIN test = TestFields
      /\ test' = [test EXCEPT !.at = "testing", !.live = plan,
                    !.with = others \cup {<<b, i>> : i \in DOMAIN plan}]
      /\ UNCHANGED <<rows, task, proven, sets, slicing>> /\ BatchTyped /\ TestTrue
  BY DEF Batch!Plan, BatchInv, BatchTyped
<1>2. /\ DOMAIN plan \subseteq DOMAIN rows[b]
      /\ \A i, j \in DOMAIN plan : plan[i] = plan[j] => i = j
      /\ \A i \in DOMAIN plan : plan[i] \in Aims
  BY <1>1, PlanPlaces
<1>3. /\ others \cup {<<b, i>> : i \in DOMAIN plan} \subseteq Batch!RowIds
      /\ \A r \in Batch!Live : (\A i \in DOMAIN plan : plan[i] # Batch!SlotOf(r)) => r \in others
  BY <1>1, <1>2, RowsAre DEF Stored
<1> HIDE DEF b, plan, others
<1> DEFINE set == others \cup {<<b, i>> : i \in DOMAIN plan}
<1>3a. /\ set \subseteq Batch!RowIds /\ \A i \in DOMAIN plan : <<b, i>> \in set
       /\ \A r \in Batch!Live : (\A i \in DOMAIN plan : plan[i] # Batch!SlotOf(r)) => r \in set
  BY <1>3
<1>4. /\ test'.batch = b /\ test'.at = "testing" /\ test'.live = plan /\ test'.with = set
      /\ DOMAIN test' = TestFields
  BY <1>1 DEF TestFields, b
<1> HIDE DEF set
<1>5. Batch!RowIds' = Batch!RowIds /\ Batch!Live' = Batch!Live /\ \A r : Batch!SlotOf(r)' = Batch!SlotOf(r)
  BY <1>1 DEF Batch!RowIds, Batch!Live, Batch!With, Batch!SlotOf
<1>6. TestTrue'
  <2>1. \A r \in Batch!Live' : (\A i \in DOMAIN test'.live : test'.live[i] # Batch!SlotOf(r)') => r \in test'.with
    BY <1>3a, <1>4, <1>5
  <2>2. DOMAIN test'.live \subseteq DOMAIN rows'[test'.batch] /\ test'.with \subseteq Batch!RowIds'
    BY <1>1, <1>2, <1>3a, <1>4, <1>5
  <2> QED
    BY <1>2, <1>3a, <1>4, <2>1, <2>2 DEF TestTrue
<1> QED
  BY <1>1, <1>4, <1>6, TestMoves DEF BatchTyped, Steps

\* The test slices have passed.
LEMMA PassKeeps ==
  ASSUME BatchInv, Batch!Pass
  PROVE  BatchInv'
<1>1. /\ test # Nothing /\ test.at = "testing" /\ DOMAIN test = TestFields /\ test.batch \in Batches
      /\ test' = [test EXCEPT !.at = "passed"] /\ proven' = proven \cup {test.with}
      /\ UNCHANGED <<rows, task, sets, slicing>> /\ BatchTyped /\ TestTrue
  BY DEF Batch!Pass, BatchInv, BatchTyped
<1>2. /\ test'.batch = test.batch /\ test'.at = "passed" /\ test'.live = test.live /\ test'.with = test.with
      /\ DOMAIN test' = TestFields
  BY <1>1 DEF TestFields
<1>3. \A p \in proven' : p \subseteq Batch!RowIds
  BY <1>1 DEF BatchTyped, TestTrue
<1>3a. Batch!RowIds' = Batch!RowIds /\ Batch!Live' = Batch!Live /\ \A r : Batch!SlotOf(r)' = Batch!SlotOf(r)
  BY <1>1 DEF Batch!RowIds, Batch!Live, Batch!With, Batch!SlotOf
<1>4. TestTrue'
  BY <1>1, <1>2, <1>3a DEF TestTrue
<1> QED
  BY <1>1, <1>2, <1>3, <1>4, TestMoves DEF BatchTyped, Steps

\* The queue learns that the job is done, or the worker stops.
LEMMA CompleteKeeps ==
  ASSUME BatchInv, Batch!Complete
  PROVE  BatchInv'
<1>1. /\ test' = Nothing /\ UNCHANGED <<rows, proven, sets, slicing>>
      /\ task' = [task EXCEPT ![test.batch] = "done"] /\ BatchTyped
  BY DEF Batch!Complete, BatchInv
<1>2. task' \in [Batches -> {"none", "waiting", "active", "done"}]
  BY <1>1 DEF BatchTyped
<1>3. TestTrue'
  BY <1>1 DEF TestTrue
<1> QED
  BY <1>1, <1>2, <1>3, TestMoves DEF BatchTyped

\* The job fails, and its listener is left to say so.
LEMMA FailKeeps ==
  ASSUME BatchInv, Batch!Fail
  PROVE  BatchInv'
<1>1. /\ test' = Nothing /\ UNCHANGED <<rows, proven, sets, slicing>>
      /\ task' = [task EXCEPT ![test.batch] = "done"] /\ BatchTyped
  BY DEF Batch!Fail, BatchInv
<1>2. task' \in [Batches -> {"none", "waiting", "active", "done"}]
  BY <1>1 DEF BatchTyped
<1>3. TestTrue'
  BY <1>1 DEF TestTrue
<1> QED
  BY <1>1, <1>2, <1>3, TestMoves DEF BatchTyped

LEMMA CrashKeeps ==
  ASSUME BatchInv, Batch!Crash
  PROVE  BatchInv'
<1>1. /\ test' = Nothing /\ slicing' = Nothing /\ UNCHANGED <<rows, proven, sets>>
      /\ task' = [b \in Batches |-> IF task[b] = "active" THEN "waiting" ELSE task[b]] /\ BatchTyped
  BY DEF Batch!Crash, BatchInv
<1>2. task' \in [Batches -> {"none", "waiting", "active", "done"}]
  BY <1>1 DEF BatchTyped
<1>3. Batch!RowIds' = Batch!RowIds /\ Batch!Live' = Batch!Live /\ \A r : Batch!SlotOf(r)' = Batch!SlotOf(r)
  BY <1>1 DEF Batch!RowIds, Batch!Live, Batch!With, Batch!SlotOf
<1>4. BatchTyped'
  BY <1>1, <1>2, <1>3 DEF BatchTyped
<1>5. Together' /\ TestTrue'
  BY <1>1 DEF BatchInv, Together, TestTrue
<1>6. Batch!LiveIsProven' /\ Batch!OnePerSlot' /\ Batch!KeyedSlice'
  BY <1>1, <1>3 DEF BatchInv, Batch!LiveIsProven, Batch!OnePerSlot, Batch!KeyedSlice, Batch!Tested
<1> QED
  BY <1>4, <1>5, <1>6 DEF BatchInv

\* The batch is refused, before its test slices or by them.
LEMMA RefuseKeeps ==
  ASSUME BatchInv, Batch!Refuse
  PROVE  BatchInv'
<1> DEFINE b == test.batch
<1>1. /\ test # Nothing /\ DOMAIN test = TestFields /\ b \in Batches
      /\ rows' = Batch!SetStatus(Batch!Own(b), {"PENDING", "TESTING"}, "FAILED")
      /\ test' = [test EXCEPT !.at = "ending"]
      /\ UNCHANGED <<task, proven, sets, slicing>> /\ BatchTyped
  BY DEF Batch!Refuse, BatchInv, BatchTyped
<1>2. test'.batch = b /\ test'.at = "ending" /\ DOMAIN test' = TestFields
  BY <1>1 DEF TestFields
<1> HIDE DEF b
<1>3. /\ task' \in [Batches -> {"none", "waiting", "active", "done"}]
      /\ test'.batch \in Batches /\ test'.at \in Steps
  BY <1>1, <1>2 DEF BatchTyped, Steps
<1>4. BatchTyped' /\ Together' /\ Batch!LiveIsProven' /\ Batch!OnePerSlot' /\ Batch!KeyedSlice'
  BY <1>1, <1>2, <1>3, OwnFails DEF Unsettled
<1>5. TestTrue'
  BY <1>2 DEF TestTrue
<1> QED
  BY <1>4, <1>5 DEF BatchInv

\* The batch that passed replaces what was live in its slots.
LEMMA SwapKeeps ==
  ASSUME BatchInv, Batch!Swap
  PROVE  BatchInv'
<1> DEFINE b == test.batch
           plan == test.live
           slots == {plan[i] : i \in DOMAIN plan}
           after == Batch!SetStatus(Batch!Retired(slots), {"ACTIVE"}, "RETIRED")
<1>1. /\ test # Nothing /\ test.at = "passed" /\ DOMAIN test = TestFields /\ b \in Batches
      /\ rows' = [after EXCEPT ![b] = [i \in DOMAIN @ |->
                    IF i \in DOMAIN plan THEN [@[i] EXCEPT !.slot = plan[i], !.status = "ACTIVE"]
                                         ELSE [@[i] EXCEPT !.status = "SKIPPED"]]]
      /\ test' = [test EXCEPT !.at = "ending"]
      /\ UNCHANGED <<task, proven, sets, slicing>> /\ BatchTyped /\ Together /\ TestTrue
  BY DEF Batch!Swap, Batch!Passed, BatchInv, BatchTyped
<1>2. test'.batch = b /\ test'.at = "ending" /\ DOMAIN test' = TestFields
  BY <1>1 DEF TestFields
<1>3. /\ DOMAIN plan \subseteq DOMAIN rows[b]
      /\ \A i, j \in DOMAIN plan : plan[i] = plan[j] => i = j
      /\ \A i \in DOMAIN plan : plan[i] \in Aims /\ <<b, i>> \in test.with
      /\ test.with \in proven
      /\ \A r \in Batch!Live : (\A i \in DOMAIN plan : plan[i] # Batch!SlotOf(r)) => r \in test.with
  BY <1>1 DEF TestTrue
<1>4. \A c \in Batches : \A i \in DOMAIN rows[c] :
        <<c, i>> \in Batch!Retired(slots) <=> rows[c][i].slot \in slots
  BY <1>1, RowsAre DEF Batch!Retired, Batch!SlotOf, Stored
<1> HIDE DEF slots
<1>5. /\ DOMAIN after = Batches
      /\ \A c \in Batches :
           /\ DOMAIN after[c] = DOMAIN rows[c]
           /\ \A i \in DOMAIN rows[c] :
                /\ after[c][i] \in Presets
                /\ after[c][i].slot = rows[c][i].slot
                /\ after[c][i].status = IF <<c, i>> \in Batch!Retired(slots) /\ rows[c][i].status \in {"ACTIVE"}
                                          THEN "RETIRED" ELSE rows[c][i].status
  <2>1. BatchTyped /\ "RETIRED" \in Statuses
    BY <1>1 DEF Statuses
  <2> QED
    BY <2>1, SetStatusIs
<1> HIDE DEF after
<1>6. /\ DOMAIN rows' = Batches
      /\ \A c \in Batches : DOMAIN rows'[c] = DOMAIN rows[c]
      /\ \A c \in Batches : c # b => rows'[c] = after[c]
      /\ \A i \in DOMAIN rows[b] :
           rows'[b][i] = IF i \in DOMAIN plan THEN [after[b][i] EXCEPT !.slot = plan[i], !.status = "ACTIVE"]
                                              ELSE [after[b][i] EXCEPT !.status = "SKIPPED"]
  BY <1>1, <1>5
<1> HIDE DEF b, plan
<1>7. \A i \in DOMAIN rows[b] :
        /\ rows'[b][i] \in Presets
        /\ i \in DOMAIN plan => rows'[b][i].slot = plan[i] /\ rows'[b][i].status = "ACTIVE"
        /\ i \notin DOMAIN plan => rows'[b][i].status = "SKIPPED"
  <2>2. \A p \in Presets : [p EXCEPT !.status = "SKIPPED"] \in Presets /\ [p EXCEPT !.status = "SKIPPED"].status = "SKIPPED"
    BY DEF Presets, Statuses
  <2> SUFFICES ASSUME NEW i \in DOMAIN rows[b]
               PROVE  /\ rows'[b][i] \in Presets
                      /\ i \in DOMAIN plan => rows'[b][i].slot = plan[i] /\ rows'[b][i].status = "ACTIVE"
                      /\ i \notin DOMAIN plan => rows'[b][i].status = "SKIPPED"
    OBVIOUS
  <2>3. b \in Batches /\ after[b][i] \in Presets
    BY <1>1, <1>5
  <2>4. CASE i \in DOMAIN plan
    <3>1. plan[i] \in Aims /\ rows'[b][i] = [after[b][i] EXCEPT !.slot = plan[i], !.status = "ACTIVE"]
      BY <1>3, <1>6, <2>4
    <3> DEFINE p == after[b][i]
    <3>2. p \in Presets /\ rows'[b][i] = [p EXCEPT !.slot = plan[i], !.status = "ACTIVE"]
      BY <2>3, <3>1
    <3> HIDE DEF p
    <3> QED
      BY <2>4, <3>1, <3>2 DEF Presets, Statuses
  <2>5. CASE i \notin DOMAIN plan
    BY <1>6, <2>2, <2>3, <2>5
  <2> QED
    BY <2>4, <2>5
<1>8. \A c \in Batches : c # b => \A i \in DOMAIN rows[c] :
        /\ rows'[c][i] \in Presets /\ rows'[c][i].slot = rows[c][i].slot
        /\ rows'[c][i].status = IF rows[c][i].slot \in slots /\ rows[c][i].status = "ACTIVE"
                                  THEN "RETIRED" ELSE rows[c][i].status
  <2> SUFFICES ASSUME NEW c \in Batches, c # b, NEW i \in DOMAIN rows[c]
               PROVE  /\ rows'[c][i] \in Presets /\ rows'[c][i].slot = rows[c][i].slot
                      /\ rows'[c][i].status = IF rows[c][i].slot \in slots /\ rows[c][i].status = "ACTIVE"
                                                THEN "RETIRED" ELSE rows[c][i].status
    OBVIOUS
  <2>1. rows'[c][i] = after[c][i] /\ (<<c, i>> \in Batch!Retired(slots) <=> rows[c][i].slot \in slots)
    BY <1>4, <1>6
  <2> QED
    BY <1>5, <2>1
<1>9. Batch!RowIds' = Batch!RowIds
  BY <1>6 DEF Batch!RowIds
<1>10. BatchTyped'
  <2>1. \A c \in Batches : DOMAIN rows'[c] \subseteq 1..MaxPresets /\ \A i \in DOMAIN rows'[c] : rows'[c][i] \in Presets
    BY <1>1, <1>6, <1>7, <1>8 DEF BatchTyped
  <2>2. test'.batch \in Batches /\ test'.at \in Steps
    BY <1>1, <1>2 DEF Steps
  <2> QED
    BY <1>1, <1>2, <1>6, <1>9, <2>1, <2>2 DEF BatchTyped
<1>6a. \A c \in Batches : DOMAIN rows'[c] = DOMAIN rows[c]
  BY <1>6
<1>11. Together'
  <2> SUFFICES ASSUME NEW c \in Batches, NEW i \in DOMAIN rows[c], NEW j \in DOMAIN rows[c],
                      rows'[c][i].status \in Unsettled
               PROVE  rows'[c][j].status = rows'[c][i].status
    BY <1>6a DEF Together, Unsettled
  <2>1. c # b
    BY <1>7 DEF Unsettled
  <2>2. rows[c][i].status = rows'[c][i].status
    BY <1>8, <2>1 DEF Unsettled
  <2>3. rows[c][j].status = rows[c][i].status
    BY <1>1, <2>2 DEF Together
  <2> QED
    BY <1>8, <2>1, <2>2, <2>3 DEF Unsettled
<1>12. TestTrue'
  BY <1>2 DEF TestTrue
\* What is live afterwards was live in another slot, or is placed by the plan.
<1>13. ASSUME NEW r \in Batch!Live'
       PROVE  \/ r \in Batch!Live /\ Batch!SlotOf(r)' = Batch!SlotOf(r) /\ Batch!SlotOf(r) \notin slots
              \/ r[1] = b /\ r[2] \in DOMAIN plan /\ r = <<r[1], r[2]>> /\ Batch!SlotOf(r)' = plan[r[2]]
  <2>1. /\ r \in Batches \X (1..MaxPresets) /\ r[1] \in Batches /\ r[2] \in DOMAIN rows[r[1]]
        /\ rows'[r[1]][r[2]].status = "ACTIVE" /\ r = <<r[1], r[2]>>
    <3>1. r \in Batches \X (1..MaxPresets) /\ r[2] \in DOMAIN rows'[r[1]] /\ rows'[r[1]][r[2]].status = "ACTIVE"
      BY <1>13 DEF Batch!Live, Batch!With, Batch!RowIds
    <3>2. r[1] \in Batches /\ r = <<r[1], r[2]>>
      BY <3>1
    <3> QED
      BY <1>6, <3>1, <3>2
  <2>2. CASE r[1] = b
    BY <1>7, <2>1, <2>2 DEF Batch!SlotOf
  <2>3. CASE r[1] # b
    <3>1. /\ rows[r[1]][r[2]].slot \notin slots /\ rows[r[1]][r[2]].status = "ACTIVE"
          /\ rows'[r[1]][r[2]].slot = rows[r[1]][r[2]].slot
      BY <1>8, <2>1, <2>3
    <3> QED
      BY <2>1, <3>1 DEF Batch!Live, Batch!With, Batch!RowIds, Batch!SlotOf
  <2> QED
    BY <2>2, <2>3
<1>14. Batch!LiveIsProven'
  <2>1. ASSUME NEW r \in Batch!Live'
        PROVE  r \in test.with
    <3>1. CASE r \in Batch!Live /\ Batch!SlotOf(r) \notin slots
      BY <1>3, <3>1 DEF slots
    <3>2. CASE r[1] = b /\ r[2] \in DOMAIN plan /\ r = <<r[1], r[2]>>
      BY <1>3, <3>2
    <3> QED
      BY <1>13, <2>1, <3>1, <3>2
  <2> QED
    BY <1>1, <1>3, <2>1 DEF Batch!LiveIsProven, Batch!Tested
<1>15. Batch!OnePerSlot'
  <2> SUFFICES ASSUME NEW r \in Batch!Live', NEW s \in Batch!Live', Batch!SlotOf(r)' = Batch!SlotOf(s)'
               PROVE  r = s
    BY DEF Batch!OnePerSlot
  <2>1. \A i \in DOMAIN plan : plan[i] \in slots
    BY DEF slots
  <2> QED
    BY <1>3, <1>13, <2>1 DEF BatchInv, Batch!OnePerSlot
<1>16. Batch!KeyedSlice'
  BY <1>1 DEF BatchInv, Batch!KeyedSlice, Batch!Tested
<1> QED
  BY <1>10, <1>11, <1>12, <1>14, <1>15, <1>16 DEF BatchInv

-----------------------------------------------------------------------------
\* The slices, and the hour after which a set is old, leave the table alone.
LEMMA SliceMoves ==
  ASSUME BatchInv, UNCHANGED <<rows, task, test, proven>>,
         \A d \in DOMAIN sets' : d \subseteq Batch!RowIds /\ sets'[d] \in {"fresh", "old"},
         slicing' # Nothing => DOMAIN slicing' = SliceFields,
         Batch!KeyedSlice'
  PROVE  BatchInv'
<1>1. Batch!RowIds' = Batch!RowIds /\ Batch!Live' = Batch!Live /\ \A r : Batch!SlotOf(r)' = Batch!SlotOf(r)
  BY DEF Batch!RowIds, Batch!Live, Batch!With, Batch!SlotOf
<1>2. BatchTyped'
  BY <1>1 DEF BatchInv, BatchTyped
<1>3. Together' /\ TestTrue'
  BY <1>1, TestRests DEF BatchInv, Together
<1>4. Batch!LiveIsProven' /\ Batch!OnePerSlot'
  BY <1>1 DEF BatchInv, Batch!LiveIsProven, Batch!OnePerSlot, Batch!Tested
<1> QED
  BY <1>2, <1>3, <1>4 DEF BatchInv

\* The directories after a set is written: those that were there, and the set.
LEMMA Materialised ==
  ASSUME BatchInv
  PROVE  \A d \in DOMAIN Batch!materialiseProfileSet(Batch!Live) :
           /\ d \subseteq Batch!RowIds
           /\ Batch!materialiseProfileSet(Batch!Live)[d] \in {"fresh", "old"}
<1>1. Batch!Live \subseteq Batch!RowIds
  BY DEF Batch!Live, Batch!With
<1> QED
  BY <1>1 DEF BatchInv, BatchTyped, Batch!materialiseProfileSet

LEMMA RequestKeeps ==
  ASSUME BatchInv, Batch!Request
  PROVE  BatchInv'
<1>1. /\ slicing' = [at |-> "queued", key |-> Batch!Live, loads |-> {}]
      /\ UNCHANGED <<rows, task, test, proven, sets>>
  BY DEF Batch!Request
<1>2. DOMAIN slicing' = SliceFields /\ Batch!KeyedSlice'
  BY <1>1 DEF SliceFields, Batch!KeyedSlice
<1> QED
  BY <1>1, <1>2, SliceMoves DEF BatchInv, BatchTyped

LEMMA BeginKeeps ==
  ASSUME BatchInv, Batch!Begin
  PROVE  BatchInv'
<1>1. /\ slicing # Nothing /\ DOMAIN slicing = SliceFields
      /\ UNCHANGED <<rows, task, test, proven>>
      /\ sets' = sets \/ sets' = Batch!materialiseProfileSet(Batch!Live)
      /\ \/ slicing' = Nothing
         \/ /\ slicing.key = Batch!Live
            /\ slicing' = [slicing EXCEPT !.at = "slicing", !.loads = Batch!Live]
  BY DEF Batch!Begin, Batch!Refused, BatchInv, BatchTyped
<1>2. \A d \in DOMAIN sets' : d \subseteq Batch!RowIds /\ sets'[d] \in {"fresh", "old"}
  BY <1>1, Materialised DEF BatchInv, BatchTyped
<1>3. slicing' # Nothing => /\ DOMAIN slicing' = SliceFields
                            /\ slicing'.key = Batch!Live /\ slicing'.loads = Batch!Live
  BY <1>1 DEF SliceFields
<1>4. Batch!KeyedSlice'
  BY <1>1, <1>3 DEF BatchInv, Batch!LiveIsProven, Batch!KeyedSlice, Batch!Tested
<1> QED
  BY <1>1, <1>2, <1>3, <1>4, SliceMoves

LEMMA BesideKeeps ==
  ASSUME BatchInv, Batch!Beside
  PROVE  BatchInv'
<1>1. UNCHANGED <<rows, task, test, proven, slicing>> /\ sets' = Batch!materialiseProfileSet(Batch!Live)
  BY DEF Batch!Beside
<1>2. \A d \in DOMAIN sets' : d \subseteq Batch!RowIds /\ sets'[d] \in {"fresh", "old"}
  BY <1>1, Materialised
<1>3. Batch!KeyedSlice'
  BY <1>1 DEF BatchInv, Batch!KeyedSlice, Batch!Tested
<1> QED
  BY <1>1, <1>2, <1>3, SliceMoves DEF BatchInv, BatchTyped

LEMMA SlicedKeeps ==
  ASSUME BatchInv, Batch!Sliced
  PROVE  BatchInv'
<1>1. slicing' = Nothing /\ UNCHANGED <<rows, task, test, proven, sets>>
  BY DEF Batch!Sliced
<1>2. Batch!KeyedSlice'
  BY <1>1 DEF Batch!KeyedSlice
<1> QED
  BY <1>1, <1>2, SliceMoves DEF BatchInv, BatchTyped

LEMMA AgeKeeps ==
  ASSUME BatchInv, NEW d \in DOMAIN sets, Batch!Age(d)
  PROVE  BatchInv'
<1>1. sets' = [sets EXCEPT ![d] = "old"] /\ UNCHANGED <<rows, task, test, proven, slicing>>
  BY DEF Batch!Age
<1>2. \A e \in DOMAIN sets' : e \subseteq Batch!RowIds /\ sets'[e] \in {"fresh", "old"}
  BY <1>1 DEF BatchInv, BatchTyped
<1>3. Batch!KeyedSlice'
  BY <1>1 DEF BatchInv, Batch!KeyedSlice, Batch!Tested
<1> QED
  BY <1>1, <1>2, <1>3, SliceMoves DEF BatchInv, BatchTyped

-----------------------------------------------------------------------------
LEMMA InitBatch ==
  ASSUME Batch!Init
  PROVE  BatchInv
<1>1. \A b \in Batches : DOMAIN rows[b] = {}
  BY DEF Batch!Init
<1>2. Batch!Live = {}
  BY <1>1 DEF Batch!Live, Batch!With, Batch!RowIds
<1>3. /\ DOMAIN rows = Batches /\ task \in [Batches -> {"none", "waiting", "active", "done"}]
      /\ test = Nothing /\ proven = {{}} /\ DOMAIN sets = {} /\ slicing = Nothing
  BY DEF Batch!Init
<1>4. BatchTyped /\ Together /\ TestTrue
  BY <1>1, <1>3 DEF BatchTyped, Together, TestTrue
<1> QED
  BY <1>2, <1>3, <1>4 DEF BatchInv, Batch!LiveIsProven, Batch!OnePerSlot, Batch!KeyedSlice, Batch!Tested

LEMMA StepBatch ==
  ASSUME BatchInv, [Batch!Next]_(Batch!vars)
  PROVE  BatchInv'
<1>1. CASE \E b \in Batches :
             \/ \E s \in Shapes : Batch!Store(b, s)
             \/ Batch!Enqueue(b) \/ Batch!EnqueueFailed(b) \/ Batch!Abandon(b)
             \/ Batch!Start(b) \/ Batch!WriteFailure(b)
  BY <1>1, StoreKeeps, CallKeeps, FailuresKeep, StartKeeps
<1>2. CASE \E s \in Batch!Slots : Batch!revertToInstalled(s)
  BY <1>2, RevertKeeps
<1>3. CASE Batch!Plan \/ Batch!Refuse \/ Batch!Fail \/ Batch!Pass
  BY <1>3, PlanKeeps, RefuseKeeps, FailKeeps, PassKeeps
<1>4. CASE Batch!Swap \/ Batch!Complete \/ Batch!Crash
  BY <1>4, SwapKeeps, CompleteKeeps, CrashKeeps
<1>5. CASE Batch!Request \/ Batch!Begin \/ Batch!Beside \/ Batch!Sliced
  BY <1>5, RequestKeeps, BeginKeeps, BesideKeeps, SlicedKeeps
<1>6. CASE \E d \in DOMAIN sets : Batch!Age(d)
  BY <1>6, AgeKeeps
<1>7. CASE UNCHANGED Batch!vars
  <2>1. UNCHANGED <<rows, task, test, proven, sets, slicing>>
    BY <1>7 DEF Batch!vars
  <2>2. Batch!KeyedSlice'
    BY <2>1 DEF BatchInv, Batch!KeyedSlice, Batch!Tested
  <2> QED
    BY <2>1, <2>2, SliceMoves DEF BatchInv, BatchTyped
<1> QED
  BY <1>1, <1>2, <1>3, <1>4, <1>5, <1>6, <1>7 DEF Batch!Next

\* What the calls and the listeners leave behind.
CallsTyped ==
  /\ call \in [Batches -> {"none", "adding", "failing", "over"}]
  /\ report \subseteq Batches /\ stranded \subseteq Batches

LEMMA StepCalls ==
  ASSUME BatchInv, CallsTyped, [Batch!Next]_(Batch!vars)
  PROVE  CallsTyped'
<1>1. test # Nothing => test.batch \in Batches
  BY DEF BatchInv, BatchTyped
<1>2. CASE \E b \in Batches :
             \/ \E s \in Shapes : Batch!Store(b, s)
             \/ Batch!Enqueue(b) \/ Batch!EnqueueFailed(b) \/ Batch!Abandon(b)
             \/ Batch!Start(b) \/ Batch!WriteFailure(b)
  <2>1. PICK b \in Batches :
             \/ \E s \in Shapes : Batch!Store(b, s)
             \/ Batch!Enqueue(b) \/ Batch!EnqueueFailed(b) \/ Batch!Abandon(b)
             \/ Batch!Start(b) \/ Batch!WriteFailure(b)
    BY <1>2
  <2>2. /\ call' = call \/ \E c \in {"adding", "failing", "over"} : call' = [call EXCEPT ![b] = c]
        /\ report' \subseteq report /\ stranded' \subseteq stranded \cup {b}
    BY <2>1 DEF Batch!Store, Batch!Enqueue, Batch!EnqueueFailed, Batch!Abandon, Batch!Start, Batch!WriteFailure
  <2> QED
    BY <2>2 DEF CallsTyped
<1>3. CASE Batch!Fail \/ Batch!Crash
  BY <1>1, <1>3 DEF Batch!Fail, Batch!Crash, CallsTyped
<1>4. CASE \/ \E s \in Batch!Slots : Batch!revertToInstalled(s)
           \/ Batch!Plan \/ Batch!Refuse \/ Batch!Pass \/ Batch!Swap \/ Batch!Complete
  BY <1>4 DEF Batch!revertToInstalled, Batch!Plan, Batch!Refuse, Batch!Pass, Batch!Swap, Batch!Complete, CallsTyped
<1>5. CASE \/ Batch!Request \/ Batch!Begin \/ Batch!Beside \/ Batch!Sliced
           \/ \E d \in DOMAIN sets : Batch!Age(d)
           \/ UNCHANGED Batch!vars
  BY <1>5 DEF Batch!Request, Batch!Begin, Batch!Beside, Batch!Sliced, Batch!Age, Batch!vars, CallsTyped
<1> QED
  BY <1>2, <1>3, <1>4, <1>5 DEF Batch!Next

\* What a reader of the table relies on.
LEMMA BatchServes ==
  ASSUME BatchInv, CallsTyped
  PROVE  ServedIsTested
<1>1. Batch!TypeOK
  <2>1. \A r \in Batch!RowIds : Batch!Row(r[1], r[2]).status \in Batch!Statuses
    BY RowsAre DEF BatchInv, BatchTyped, Stored, Presets, Batch!Row, Statuses, Batch!Statuses
  <2> QED
    BY <2>1 DEF BatchInv, BatchTyped, CallsTyped, Batch!TypeOK
<1>2. Batch!WholeBatch
  <2> SUFFICES ASSUME NEW r \in Batch!RowIds, NEW s \in Batch!RowIds, r[1] = s[1],
                      rows[r[1]][r[2]].status \in Unsettled
               PROVE  rows[s[1]][s[2]].status = rows[r[1]][r[2]].status
    BY DEF Batch!WholeBatch, Batch!With, Batch!Row, Unsettled
  <2>1. Stored(r[1], r[2]) /\ Stored(s[1], s[2])
    BY RowsAre DEF BatchInv
  <2> QED
    BY <2>1 DEF BatchInv, Together, Stored
<1> QED
  BY <1>1, <1>2 DEF BatchInv, ServedIsTested, Batch!ServedIsTested

\* However uploads, tests, reverts, lost answers, failed writes, crashes and slices
\* interleave, the presets that are live together passed their test slices together,
\* those of a batch come to a verdict together, no two serve one slot, and a slice
\* under way loads the presets its key names (slicer-profiles.ts:176-208,
\* profile-test.ts:226-306, profile-set.ts:54-83, index.ts:137-150 of the worker).
THEOREM ServesTested == Batch!Spec => []ServedIsTested
<1>1. Batch!Init => BatchInv /\ CallsTyped
  BY InitBatch DEF Batch!Init, CallsTyped
<1>2. BatchInv /\ CallsTyped /\ [Batch!Next]_(Batch!vars) => (BatchInv /\ CallsTyped)'
  BY StepBatch, StepCalls
<1>3. BatchInv /\ CallsTyped => ServedIsTested
  BY BatchServes
<1> QED
  BY <1>1, <1>2, <1>3, PTL DEF Batch!Spec
===============================================================================
