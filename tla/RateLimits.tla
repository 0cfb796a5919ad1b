------------------------------ MODULE RateLimits ------------------------------
(***************************************************************************)
(* The sliding-window rate limiter, where its hardest use is: the login of *)
(* the one administrator. A login attempt is admitted by the window of its *)
(* address and by one that all addresses share, waits for the lock around  *)
(* the password check, and gives its place in the shared window back when  *)
(* it was no failed guess. Times are ages, in ticks.                       *)
(***************************************************************************)
EXTENDS Naturals, FiniteSets

CONSTANTS
  Attempts,    \* bound: the login requests under way, or done with
  Addresses,
  Window,      \* windowSeconds
  MaxOwn,      \* RATE_LIMITS.adminLogin.max, of one address
  MaxAll,      \* RATE_LIMITS.adminLoginGlobal.max, of all of them
  Delay        \* bound: how long one step of a request may take

VARIABLES
  own,         \* rl:adminLogin:<address>: the ages of its members
  all,         \* rl:adminLoginGlobal:all: its members, [of, age]
  request,     \* the requests
  guesses,     \* the failed guesses, [of, age]
  stuck,       \* requests that are over without a failed guess, and keep their place
  told         \* the refusal of this moment: its bucket and retryAfterSeconds

vars == <<own, all, request, guesses, stuck, told>>

Idle == [at |-> "idle"]
Silent == [retry |-> 0]

Init ==
  /\ own = [i \in Addresses |-> {}] /\ all = {}
  /\ request = [a \in Attempts |-> Idle]
  /\ guesses = {} /\ stuck = {} /\ told = Silent

-----------------------------------------------------------------------------
(* reserveRateLimit: the clock is read by the web process, the script of   *)
(* Redis has its turn later.                                               *)

\* Mutant: the window is as long as half of it.
Pruned_Half(bucket, stamp) == {e \in bucket : 2 * e.age < stamp + Window}

\* ZREMRANGEBYSCORE up to the start of the window.
Pruned(bucket, stamp) == {e \in bucket : e.age < stamp + Window}

Oldest(bucket) == CHOOSE e \in bucket : \A f \in bucket : e.age >= f.age

\* Mutant: the time that has passed, not the time that is left.
RetryAfter_Passed(bucket, stamp) ==
  LET passed == Oldest(bucket).age - stamp IN IF passed > 1 THEN passed ELSE 1

\* Until the oldest member leaves the window, a second at least.
RetryAfter(bucket, stamp) ==
  LET left == Window + stamp - Oldest(bucket).age IN IF left > 1 THEN left ELSE 1

\* Mutant: added first, counted then, as a MULTI does it.
Reserved_Multi(bucket, max, member) == Pruned(bucket, member.age) \cup {member}

\* The bucket after the script: the member is in it when it was admitted.
Reserved(bucket, max, member) ==
  LET kept == Pruned(bucket, member.age)
  IN IF Cardinality(kept) < max THEN kept \cup {member} ELSE kept

Admits(bucket, max, member) == Cardinality(Pruned(bucket, member.age)) < max

Refused(bucket, max, stamp) == [retry |-> RetryAfter(bucket, stamp), bucket |-> bucket, max |-> max]

-----------------------------------------------------------------------------
(* POST /api/admin/login.                                                *)

\* guardMutation: a place in the window of the address, which is never given back.
\* One that has it may still go no further: its body is refused, or Redis' answer lost.
\* A name is used again when nothing remembers its last request.
Arrive(a) ==
  /\ request[a] = Idle
  /\ \A e \in all \cup guesses \cup UNION {own[i] : i \in Addresses} : e.of # a
  /\ \E i \in Addresses, right \in BOOLEAN :
       LET member == [of |-> a, age |-> 0]
       IN /\ own' = [own EXCEPT ![i] = Reserved(@, MaxOwn, member)]
          /\ IF Admits(own[i], MaxOwn, member)
               THEN /\ request' \in {request, [request EXCEPT ![a] = [at |-> "reserving", right |-> right, stamp |-> 0]]}
                    /\ UNCHANGED told
               ELSE told' = Refused(own'[i], MaxOwn, 0) /\ UNCHANGED request
  /\ UNCHANGED <<all, guesses, stuck>>

\* A place in the shared window, before the hash. When the request ends here, because
\* Redis fails or its process stops, the place may have been taken already.
Reserve(a) ==
  /\ request[a].at = "reserving"
  /\ LET member == [of |-> a, age |-> request[a].stamp]
     IN /\ all' = Reserved(all, MaxAll, member)
        /\ IF Admits(all, MaxAll, member)
             THEN /\ request' = [request EXCEPT ![a] = [at |-> "verifying", right |-> @.right, stamp |-> 0]]
                  /\ UNCHANGED told
             ELSE /\ request' = [request EXCEPT ![a] = Idle]
                  /\ told' = Refused(all', MaxAll, request[a].stamp)
  /\ UNCHANGED <<own, guesses, stuck>>

ReserveLost(a) ==
  /\ request[a].at = "reserving"
  /\ LET member == [of |-> a, age |-> request[a].stamp]
     IN \/ UNCHANGED <<all, stuck>>
        \/ /\ all' = Reserved(all, MaxAll, member)
           /\ stuck' = IF Admits(all, MaxAll, member) THEN stuck \cup {a} ELSE stuck
  /\ request' = [request EXCEPT ![a] = Idle]
  /\ UNCHANGED <<own, guesses, told>>

\* refundGlobalAttempt: ZREM, whose failure is passed over.
Refund(a) ==
  \/ all' = {e \in all : e.of # a} /\ UNCHANGED stuck
  \/ stuck' = stuck \cup {a} /\ UNCHANGED all

\* Mutant: a failed guess gets its place back, too.
Verify_Refunded(a) ==
  /\ request[a].at = "verifying"
  /\ Refund(a) /\ request' = [request EXCEPT ![a] = Idle]
  /\ guesses' = IF request[a].right THEN guesses ELSE guesses \cup {[of |-> a, age |-> 0]}
  /\ UNCHANGED <<own, told>>

\* Mutant: busy is an answer of its own, without a refund.
Verify_Busy(a) ==
  /\ request[a].at = "verifying"
  /\ request' = [request EXCEPT ![a] = Idle]
  /\ \/ UNCHANGED <<all, guesses, stuck>>
     \/ request[a].right /\ Refund(a) /\ UNCHANGED guesses
     \/ ~request[a].right /\ guesses' = guesses \cup {[of |-> a, age |-> 0]} /\ UNCHANGED <<all, stuck>>
  /\ UNCHANGED <<own, told>>

\* The lock is busy, the password is right, or this was a failed guess.
Verify(a) ==
  /\ request[a].at = "verifying"
  /\ request' = [request EXCEPT ![a] = Idle]
  /\ \/ Refund(a) /\ UNCHANGED guesses
     \/ ~request[a].right /\ guesses' = guesses \cup {[of |-> a, age |-> 0]} /\ UNCHANGED <<all, stuck>>
  /\ UNCHANGED <<own, told>>

\* Asking Redis for the lock throws, which nothing catches; the process stops under the
\* check or before the refund; the hash cannot be computed, and counts as a wrong one.
VerifyLost(a) ==
  /\ request[a].at = "verifying"
  /\ request' = [request EXCEPT ![a] = Idle]
  /\ stuck' = stuck \cup {a}
  /\ UNCHANGED <<own, all, guesses, told>>

-----------------------------------------------------------------------------
\* What has left the window of every request is forgotten.
Older(bucket) == { [e EXCEPT !.age = @ + 1] : e \in {f \in bucket : f.age + 1 < Window + Delay} }

\* Time passes; a request that has read the clock goes on within the delay.
Tick ==
  /\ \A a \in Attempts : request[a] # Idle => request[a].stamp < Delay
  /\ own' = [i \in Addresses |-> Older(own[i])] /\ all' = Older(all)
  /\ request' = [a \in Attempts |-> IF request[a] = Idle THEN Idle ELSE [request[a] EXCEPT !.stamp = @ + 1]]
  /\ guesses' = Older(guesses)
  /\ stuck' = {a \in stuck : \E e \in Older(all) : e.of = a}
  /\ told' = Silent

Next ==
  \/ \E a \in Attempts : Arrive(a) \/ Reserve(a) \/ ReserveLost(a) \/ Verify(a) \/ VerifyLost(a)
  \/ Tick

Spec == Init /\ [][Next]_vars

-----------------------------------------------------------------------------
\* However the requests of however many addresses cross one another, no more guesses
\* fail in a window (less what the steps of a request take) than the shared limit
\* allows (login/route.ts:35-38, security.ts:208-211).
GuessesBounded == Cardinality({g \in guesses : g.age < Window - 2 * Delay}) <= MaxAll

\* A place of the shared window is taken by a failed guess, or by a request that is
\* not decided. The exceptions keep it until it leaves the window: a refund that failed,
\* a request whose process stopped, whose place was taken with an answer that was lost,
\* whose lock could not be asked for, or whose hash could not be computed. The comment
\* "refund successes and attempts that never ran" does not hold of those
\* (login/route.ts:37-73).
PlacesExplained ==
  \A e \in all : \/ request[e.of].at = "verifying" \/ e.of \in stuck
                 \/ \E g \in guesses : g.of = e.of

\* Rejected requests do not make a bucket grow (security.ts:208-211).
BucketsBounded == Cardinality(all) <= MaxAll /\ \A i \in Addresses : Cardinality(own[i]) <= MaxOwn

\* Who waits as long as he was told, and is alone, gets in (security.ts:227-232).
RetryTrue ==
  told # Silent => Cardinality({e \in told.bucket : e.age + told.retry < Window}) < told.max

LoginBounded == GuessesBounded /\ PlacesExplained /\ BucketsBounded /\ RetryTrue
=============================================================================
