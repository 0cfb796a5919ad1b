----------------------------- MODULE SlicerPool -----------------------------
(***************************************************************************)
(* SlicerIdentityPool: the uid/gid pairs that slice jobs and profile tests *)
(* run Orca under, and the callers that wait for one.  Which free identity *)
(* is taken does not matter, so they are a set; the waiters are a queue.   *)
(* A run that fails releases as one that succeeds does.                    *)
(***************************************************************************)
EXTENDS Naturals, Sequences, FiniteSets

CONSTANTS
  Identities, \* one per concurrent slice
  Callers,    \* slots of the slice worker, and the profile test's
  Nobody      \* no identity

ASSUME PoolAssumption == Nobody \notin Identities

VARIABLES
  free,    \* identities nobody runs under
  waiters, \* callers whose acquire() has not resolved
  holds    \* the identity of each caller's Orca run

vars == <<free, waiters, holds>>

Waiting == {waiters[i] : i \in DOMAIN waiters}
Idle(c) == holds[c] = Nobody /\ c \notin Waiting

Init ==
  /\ free = Identities
  /\ waiters = <<>>
  /\ holds = [c \in Callers |-> Nobody]

\* Mutant: a stack, as the free identities are.
Enqueued_Stack(c) == <<c>> \o waiters

\* waiters.push
Enqueued(c) == Append(waiters, c)

Acquire(c) ==
  /\ Idle(c)
  /\ \/ \E i \in free :
          /\ free' = free \ {i}
          /\ holds' = [holds EXCEPT ![c] = i]
          /\ UNCHANGED waiters
     \/ /\ free = {}
        /\ waiters' = Enqueued(c)
        /\ UNCHANGED <<free, holds>>

\* Mutant: whoever waits finds out by itself.
Handed_Never == FALSE

\* waiters.shift() finds somebody.
Handed == waiters # <<>>

\* Mutant: the identity goes to the waiter and to the pool.
FreedWith_Always(i) == free \cup {i}

\* What a release leaves free.
FreedWith(i) == IF Handed THEN free ELSE free \cup {i}

Release(c) ==
  /\ holds[c] # Nobody
  /\ free' = FreedWith(holds[c])
  /\ \/ /\ Handed
        /\ holds' = [holds EXCEPT ![c] = Nobody, ![Head(waiters)] = holds[c]]
        /\ waiters' = Tail(waiters)
     \/ /\ ~Handed
        /\ holds' = [holds EXCEPT ![c] = Nobody]
        /\ UNCHANGED waiters

Next == \E c \in Callers : Acquire(c) \/ Release(c)

Spec == Init /\ [][Next]_vars

\* Every Orca run ends, by its timeout if need be, and the finally block releases.
Fairness == \A c \in Callers : WF_vars(Release(c))

FairSpec == Spec /\ Fairness

-----------------------------------------------------------------------------
TypeOK ==
  /\ free \subseteq Identities
  /\ waiters \in Seq(Callers)
  /\ holds \in [Callers -> Identities \cup {Nobody}]

\* No two Orca runs share a uid, and none that runs is free for a third; none is
\* lost either (slicer-pool.ts:4-6).
Conserved ==
  /\ \A c, d \in Callers : c # d /\ holds[c] # Nobody => holds[c] # holds[d]
  /\ free = Identities \ {holds[c] : c \in Callers}

\* Nobody waits beside a free identity, or while it runs.
NoIdleWaiter ==
  /\ waiters # <<>> => free = {}
  /\ \A c \in Waiting : holds[c] = Nobody

\* Whoever waits gets its turn, however often others come back (slicer-pool.ts:6).
EveryCallerServed == \A c \in Callers : c \in Waiting ~> holds[c] # Nobody
=============================================================================
