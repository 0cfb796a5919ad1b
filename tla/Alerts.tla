-------------------------------- MODULE Alerts --------------------------------
(***************************************************************************)
(* Operator alerts of one kind: the gate in each web process, the window   *)
(* and the count that the processes share in Redis, the message to         *)
(* Telegram, and the health check that watches the worker's heartbeat.     *)
(* Times are the ticks that are left of a window, or have passed.          *)
(***************************************************************************)
EXTENDS Naturals, Sequences, FiniteSets, Functions

CONSTANTS
  Replicas,     \* web processes
  Slots,        \* bound: alerts under way in one process
  Interval,     \* OPERATOR_ALERT_INTERVAL and ALERT_INTERVAL_MS, 15 minutes
  Threshold,    \* OUTAGE_THRESHOLD_MS
  MaxWithheld,  \* bound: how many withheld alerts are counted
  MaxCrashes,   \* bound: how often a process is restarted
  Never

VARIABLES
  source,    \* what raises the alerts: errors, or the heartbeat monitor
  key,       \* operator-alert:<kind>: the rest of its life
  shared,    \* operator-alert-suppressed:<kind>
  gate,      \* localAlertStates of each process
  calls,     \* sendOperatorAlert under way
  monitor,   \* unhealthySince and lastAlertAt of each process, as ages
  recent,    \* the claims of the last Interval: their age, process and whether Redis granted them
  silence,   \* ticks since a message was sent, refused, or lost with its process
  counts,    \* alerts withheld, how many of them a message named, were lost, and were
             \* counted in Redis and in the process
  crashes

vars == <<source, key, shared, gate, calls, monitor, recent, silence, counts, crashes>>

Far == 3 * Interval + 1
NoCall == [at |-> "none"]
Fresh == [blocked |-> 0, suppressed |-> 0]
Healthy == [since |-> Never, last |-> Never]

Init ==
  /\ source \in {"error", "heartbeat"}
  /\ key = 0 /\ shared = 0
  /\ gate = [r \in Replicas |-> Fresh]
  /\ calls = [c \in Replicas \X Slots |-> NoCall]
  /\ monitor = [r \in Replicas |-> Healthy]
  /\ recent = <<>> /\ silence = Far
  /\ counts = [withheld |-> 0, told |-> 0, lost |-> 0, twice |-> 0] /\ crashes = 0

-----------------------------------------------------------------------------
(* The gate.                                                             *)

\* Mutant: the window is claimed once Redis has answered.
Begin_After(c) ==
  IF gate[c[1]].blocked > 0
    THEN calls' = [calls EXCEPT ![c] = [at |-> "recording"]] /\ UNCHANGED gate
    ELSE calls' = [calls EXCEPT ![c] = [at |-> "claiming"]] /\ UNCHANGED gate

\* claimOperatorAlert up to its first await: the window of the process is taken.
Begin(c) ==
  IF gate[c[1]].blocked > 0
    THEN calls' = [calls EXCEPT ![c] = [at |-> "recording"]] /\ UNCHANGED gate
    ELSE /\ calls' = [calls EXCEPT ![c] = [at |-> "claiming"]]
         /\ gate' = [gate EXCEPT ![c[1]].blocked = Interval]

\* An error path that raises an alert.
Raise(c) ==
  /\ source = "error" /\ calls[c] = NoCall
  /\ Begin(c)
  /\ UNCHANGED <<source, key, shared, monitor, recent, silence, counts, crashes>>

\* A message that names those that were withheld; Telegram takes it or not.
Claimed(c, granted, told, lost) ==
  /\ calls' = [calls EXCEPT ![c] = NoCall]
  /\ counts' = [counts EXCEPT !.told = @ + told, !.lost = @ + lost]
  /\ recent' = Append(recent, [age |-> 0, by |-> <<c[1], crashes>>, granted |-> granted])
  /\ silence' = 0

\* Mutant: without an answer of Redis the alert is withheld.
Claim_Granted(c) ==
  /\ calls[c].at = "claiming"
  /\ \/ /\ calls' = [calls EXCEPT ![c] = [at |-> IF key = 0 THEN "counting" ELSE "recording"]]
        /\ key' = IF key = 0 THEN Interval ELSE key
     \/ /\ calls' = [calls EXCEPT ![c] = [at |-> "recording"]]
        /\ UNCHANGED key
  /\ UNCHANGED <<source, shared, gate, monitor, recent, silence, counts, crashes>>

\* SET NX EX: granted, taken by another process, or no answer: then the alert is sent.
Claim(c) ==
  /\ calls[c].at = "claiming"
  /\ \/ /\ calls' = [calls EXCEPT ![c] = [at |-> IF key = 0 THEN "counting" ELSE "recording"]]
        /\ key' = IF key = 0 THEN Interval ELSE key
        /\ UNCHANGED <<gate, recent, silence, counts>>
     \/ /\ key' \in {key} \cup (IF key = 0 THEN {Interval} ELSE {})
        /\ Claimed(c, FALSE, gate[c[1]].suppressed, 0)
        /\ gate' = [gate EXCEPT ![c[1]].suppressed = 0]
  /\ UNCHANGED <<source, shared, monitor, crashes>>

\* recordSuppressedAlert: counted in Redis, or in the process when Redis fails; in
\* both when Redis counts and its answer is lost.
Record(c) ==
  /\ calls[c].at = "recording"
  /\ calls' = [calls EXCEPT ![c] = NoCall]
  /\ IF counts.withheld = MaxWithheld THEN UNCHANGED <<shared, gate, counts>>
     ELSE \/ /\ counts' = [counts EXCEPT !.withheld = @ + 1]
             /\ \/ shared' = shared + 1 /\ UNCHANGED gate
                \/ gate' = [gate EXCEPT ![c[1]].suppressed = @ + 1] /\ UNCHANGED shared
          \/ /\ counts' = [counts EXCEPT !.withheld = @ + 1, !.twice = @ + 1]
             /\ shared' = shared + 1 /\ gate' = [gate EXCEPT ![c[1]].suppressed = @ + 1]
  /\ UNCHANGED <<source, key, monitor, recent, silence, crashes>>

\* Mutant: the count of the process is reset and not told.
Count_Shared(c) ==
  /\ calls[c].at = "counting"
  /\ Claimed(c, TRUE, shared, 0)
  /\ shared' = 0 /\ gate' = [gate EXCEPT ![c[1]].suppressed = 0]
  /\ UNCHANGED <<source, key, monitor, crashes>>

\* GETDEL of the shared count; when it fails the count stays for a later alert, and
\* is lost when only the answer fails.
Count(c) ==
  /\ calls[c].at = "counting"
  /\ LET own == gate[c[1]].suppressed
     IN \/ Claimed(c, TRUE, shared + own, 0) /\ shared' = 0
        \/ Claimed(c, TRUE, own, 0) /\ UNCHANGED shared
        \/ Claimed(c, TRUE, own, shared) /\ shared' = 0
  /\ gate' = [gate EXCEPT ![c[1]].suppressed = 0]
  /\ UNCHANGED <<source, key, monitor, crashes>>

-----------------------------------------------------------------------------
(* The health check.                                                     *)

\* Mutant: an outage is told from its first observation.
Alarming_AtOnce(m) == m.last \notin 0..Interval - 1

\* observe: the outage has lasted, and the last alert is long ago.
Alarming(m) == m.since > Threshold /\ m.last \notin 0..Interval - 1

\* GET /api/health, one check at a time in a process: it finds Redis and the heartbeat, or not.
Check(r) ==
  /\ source = "heartbeat"
  /\ LET m == [monitor[r] EXCEPT !.since = IF @ = Never THEN 0 ELSE @]
     IN \/ monitor' = [monitor EXCEPT ![r] = Healthy] /\ UNCHANGED <<gate, calls>>
        \/ ~Alarming(m) /\ monitor' = [monitor EXCEPT ![r] = m] /\ UNCHANGED <<gate, calls>>
        \/ /\ Alarming(m)
           /\ monitor' = [monitor EXCEPT ![r] = [m EXCEPT !.last = 0]]
           /\ \E s \in Slots : calls[<<r, s>>] = NoCall /\ Begin(<<r, s>>)
  /\ UNCHANGED <<source, key, shared, recent, silence, counts, crashes>>

-----------------------------------------------------------------------------
(* Around them.                                                          *)

\* A process is restarted: what it had counted itself and its alerts under way are
\* gone, a message that was due with them, and the count it had taken for it.
Restart(r) ==
  /\ crashes < MaxCrashes /\ crashes' = crashes + 1
  /\ gate' = [gate EXCEPT ![r] = Fresh]
  /\ \/ shared' = shared
     \/ shared' = 0 /\ \E s \in Slots : calls[<<r, s>>].at = "counting"
  /\ counts' = [counts EXCEPT !.lost = @ + gate[r].suppressed + (shared - shared')]
  /\ monitor' = [monitor EXCEPT ![r] = Healthy]
  /\ calls' = [c \in DOMAIN calls |-> IF c[1] = r THEN NoCall ELSE calls[c]]
  /\ silence' = IF \E s \in Slots : calls[<<r, s>>].at = "counting" THEN 0 ELSE silence
  /\ UNCHANGED <<source, key, recent>>

\* Time passes; a call takes less than a tick, and health is asked for in every tick.
Tick ==
  LET Older(t, cap) == IF t = Never \/ t = cap THEN t ELSE t + 1
      Less(t) == IF t = 0 THEN 0 ELSE t - 1
  IN /\ \A c \in DOMAIN calls : calls[c] = NoCall
     /\ key' = Less(key)
     /\ gate' = [r \in Replicas |-> [gate[r] EXCEPT !.blocked = Less(@)]]
     /\ monitor' = [r \in Replicas |-> [since |-> Older(monitor[r].since, Threshold + 1),
                                        last |-> Older(monitor[r].last, Interval)]]
     /\ recent' = LET aged == [i \in DOMAIN recent |-> [recent[i] EXCEPT !.age = @ + 1]]
                      over == {i \in DOMAIN aged : aged[i].age >= Interval}
                  IN SubSeq(aged, Cardinality(over) + 1, Len(aged))
     /\ silence' = Older(silence, Far)
     /\ UNCHANGED <<source, shared, calls, counts, crashes>>

Next ==
  \/ \E c \in DOMAIN calls : Raise(c) \/ Claim(c) \/ Record(c) \/ Count(c)
  \/ \E r \in Replicas : Check(r) \/ Restart(r)
  \/ Tick

Spec == Init /\ [][Next]_vars

-----------------------------------------------------------------------------
\* A window brings one message from a process, and one in all of those that Redis
\* granted (telegram.ts:141-143, 154-161).
Spaced ==
  \A i, j \in DOMAIN recent :
    i # j => recent[i].by # recent[j].by /\ ~(recent[i].granted /\ recent[j].granted)

\* An alert is withheld only after a message: within the window of this process, or
\* within one of another that this process met late (telegram.ts:136-139, 163-168).
NeverSilenced ==
  (\E c \in DOMAIN calls : calls[c].at = "recording") =>
    silence < 2 * Interval \/ \E c \in DOMAIN calls : calls[c].at \in {"claiming", "counting"}

\* Every withheld alert is named by a message or still counted, and once, but for those
\* that a process counted or had taken when it was restarted, those that Redis gave up
\* with an answer that was lost, and those whose counting was not answered, which count
\* twice (telegram.ts:116-125, 170-179).
EachCounted ==
  LET kept == SumFunction([r \in Replicas |-> gate[r].suppressed])
  IN counts.withheld + counts.twice = counts.told + counts.lost + shared + kept

\* As long as a monitor withholds, a message of the outage is not older than three
\* windows (worker-heartbeat-alert.ts:31-52, health/route.ts:24-36).
OutageTold ==
  (\E r \in Replicas : monitor[r].last \in 0..Interval - 1) =>
    silence < 3 * Interval \/ \E c \in DOMAIN calls : calls[c] # NoCall

\* No alert is made of a short outage (worker-heartbeat-alert.ts:31-33).
NoFalseAlarm == \A r \in Replicas : monitor[r].last # Never => monitor[r].since = Threshold + 1

AlertsHeard == Spaced /\ NeverSilenced /\ EachCounted /\ OutageTold /\ NoFalseAlarm
=============================================================================
