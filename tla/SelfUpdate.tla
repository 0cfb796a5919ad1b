----------------------------- MODULE SelfUpdate -----------------------------
(* The update of a self-hosted shop (update.sh): back up, tag the images     *)
(* for a rollback, record the revision, fetch, build one service after the   *)
(* other, generate the printer's profiles, restart, and the way back when    *)
(* the new version does not come up. The script may be killed between any    *)
(* two of its steps; nothing remembers where it was.                         *)
(*                                                                           *)
(* A version is a number: the revisions upstream publishes, oldest first. An *)
(* image is the version it was built from.                                   *)
EXTENDS Integers

CONSTANTS Services,   \* SERVICES_BUILT
          Migrate,    \* the service that applies the database migrations
          Top,        \* bound: the last version upstream publishes
          MaxRuns,    \* bound: runs of the script
          MaxKills,   \* bound: runs that are killed
          None        \* no image, no record

VARIABLES head,       \* the revision checked out
          upstream,   \* the newest revision at GitHub
          latest,     \* :latest of each service
          tags,       \* :rollback-<revision> of each service
          up,         \* the image each service was last started from
          schema,     \* the newest migration applied
          record,     \* STATE_FILE: the revision before the last update
          env,        \* SELFHOST_VERSION
          broken,     \* versions that do not come up
          run,        \* [pc, todo, target]: the run under way
          said,       \* how the last run ended
          halfTagged, \* a run was killed while it tagged, since the record was written
          runs, kills

vars == <<head, upstream, latest, tags, up, schema, record, env, broken,
          run, said, halfTagged, runs, kills>>
images == <<latest, tags, up>>

Versions == 1..Top
Quiet == [pc |-> "idle", todo |-> {}, target |-> None]
At(pc) == run.pc = pc
Goto(pc) == run' = [run EXCEPT !.pc = pc, !.todo = Services]
Tick(s) == run' = [run EXCEPT !.todo = @ \ {s}]
End(what) == run' = Quiet /\ said' = what

Init ==
  /\ head = 1 /\ upstream = 1 /\ env = 1 /\ schema = 1 /\ record = None
  /\ latest = [s \in Services |-> 1] /\ up = latest
  /\ tags = [s \in Services |-> [v \in Versions |-> None]]
  /\ broken \in SUBSET (Versions \ {1})
  /\ run = Quiet /\ said = "" /\ runs = 0 /\ kills = 0
  /\ halfTagged = FALSE

Publish ==
  /\ upstream < Top /\ upstream' = upstream + 1
  /\ UNCHANGED <<head, images, schema, record, env, broken, run, said, runs, halfTagged, kills>>

(* stage_fetch: without anything new it ends at once, unless --rebuild. A    *)
(* backup that fails ends it too.                                            *)
Fetch ==
  /\ At("idle") /\ runs < MaxRuns /\ runs' = runs + 1
  /\ \E rebuild \in BOOLEAN :
       IF head = upstream /\ ~rebuild THEN End("up to date")
       ELSE \/ End("no backup")
            \/ said' = "" /\ run' = [pc |-> "tag", todo |-> Services, target |-> upstream]
  /\ UNCHANGED <<head, upstream, images, schema, record, env, broken, halfTagged, kills>>

(* tag_rollback_images: one service; its other rollback tags are removed.    *)
Kept_Target(s) == [v \in Versions |-> IF v = run.target THEN latest[s] ELSE None]
Kept(s) == [v \in Versions |-> IF v = head THEN latest[s] ELSE None]
Tag(s) ==
  /\ At("tag") /\ s \in run.todo /\ Tick(s)
  /\ tags' = [tags EXCEPT ![s] = IF latest[s] = None THEN @ ELSE Kept(s)]
  /\ UNCHANGED <<head, upstream, latest, up, schema, record, env, broken, said, runs, halfTagged, kills>>

recordState ==
  /\ At("tag") /\ run.todo = {} /\ record' = head /\ Goto("merge")
  /\ halfTagged' = FALSE
  /\ UNCHANGED <<head, upstream, images, schema, env, broken, said, runs, kills>>

Merge ==
  /\ At("merge") /\ head' = run.target /\ Goto("env")
  /\ UNCHANGED <<upstream, images, schema, record, env, broken, said, runs, halfTagged, kills>>

(* stage_apply, in the script that was just fetched.                         *)
WriteEnv ==
  /\ At("env") /\ env' = head /\ Goto("build")
  /\ UNCHANGED <<head, upstream, images, schema, record, broken, said, runs, halfTagged, kills>>

(* docker compose build: the services are independent targets.               *)
Build(s) ==
  /\ At("build") /\ s \in run.todo /\ Tick(s)
  /\ latest' = [latest EXCEPT ![s] = head]
  /\ UNCHANGED <<head, upstream, tags, up, schema, record, env, broken, said, runs, halfTagged, kills>>

Built_Early ==
  /\ At("build") /\ Goto("restart")
  /\ UNCHANGED <<head, upstream, images, schema, record, env, broken, said, runs, halfTagged, kills>>
Built ==
  /\ At("build") /\ run.todo = {} /\ Goto("restart")
  /\ UNCHANGED <<head, upstream, images, schema, record, env, broken, said, runs, halfTagged, kills>>

(* The build, or the profiles made from the new worker image, failed: only   *)
(* the code goes back.                                                       *)
restorePreviousCode ==
  /\ At("build") /\ head' = record /\ End("put back")
  /\ UNCHANGED <<upstream, images, schema, record, env, broken, runs, halfTagged, kills>>

(* docker compose up: migrate runs first; web and worker wait for it. A      *)
(* broken version may fail before or after its migrations.                   *)
Restart(after) ==
  /\ up' = latest /\ Goto(after)
  /\ \/ schema' = IF latest[Migrate] > schema THEN latest[Migrate] ELSE schema
     \/ latest[Migrate] \in broken /\ UNCHANGED schema

Up ==
  /\ At("restart") /\ Restart("health")
  /\ UNCHANGED <<head, upstream, latest, tags, record, env, broken, said, runs, halfTagged, kills>>

(* wait_healthy *)
Healthy == \A s \in Services : up[s] \notin broken

Verdict ==
  /\ At("health")
  /\ \/ Healthy /\ End("updated")
     \/ ~Healthy /\ End("left as is")
     \/ ~Healthy /\ Goto("rollback") /\ UNCHANGED said
  /\ UNCHANGED <<head, upstream, images, schema, record, env, broken, runs, halfTagged, kills>>

AskRollback ==
  /\ At("idle") /\ runs < MaxRuns /\ runs' = runs + 1
  /\ IF record = None THEN End("nothing to go back to") ELSE Goto("rollback") /\ said' = ""
  /\ UNCHANGED <<head, upstream, images, schema, record, env, broken, halfTagged, kills>>

(* rollback: the images must be there for every service before it starts.    *)
Saved(v) == \A s \in Services : tags[s][v] # None

BeginRollback ==
  /\ At("rollback")
  /\ IF Saved(record) THEN head' = record /\ Goto("retag") /\ UNCHANGED said
     ELSE End("images gone") /\ UNCHANGED head
  /\ UNCHANGED <<upstream, images, schema, record, env, broken, runs, halfTagged, kills>>

Retag(s) ==
  /\ At("retag") /\ s \in run.todo /\ Tick(s)
  /\ latest' = [latest EXCEPT ![s] = tags[s][record]]
  /\ UNCHANGED <<head, upstream, tags, up, schema, record, env, broken, said, runs, halfTagged, kills>>

Down ==
  /\ At("retag") /\ run.todo = {}
  /\ env' = record /\ Restart("verify")
  /\ UNCHANGED <<head, upstream, latest, tags, record, broken, said, runs, halfTagged, kills>>

Verify ==
  /\ At("verify") /\ End(IF Healthy THEN "back" ELSE "did not come up either")
  /\ UNCHANGED <<head, upstream, images, schema, record, env, broken, runs, halfTagged, kills>>

Killed ==
  /\ ~At("idle") /\ kills < MaxKills /\ kills' = kills + 1 /\ End("killed")
  /\ halfTagged' = (halfTagged \/ At("tag"))
  /\ UNCHANGED <<head, upstream, images, schema, record, env, broken, runs>>

Next ==
  \/ Publish \/ Fetch \/ recordState \/ Merge \/ WriteEnv \/ Built \/ restorePreviousCode
  \/ Up \/ Verdict \/ AskRollback \/ BeginRollback \/ Down \/ Verify \/ Killed
  \/ \E s \in Services : Tag(s) \/ Build(s) \/ Retag(s)

Spec == Init /\ [][Next]_vars

-----------------------------------------------------------------------------
Maybe(S) == S \cup {None}

TypeOK ==
  /\ {head, upstream, env, schema} \subseteq Versions /\ record \in Maybe(Versions)
  /\ {latest, up} \subseteq [Services -> Versions]
  /\ tags \in [Services -> [Versions -> Maybe(Versions)]]
  /\ broken \subseteq Versions /\ run.todo \subseteq Services
  /\ run.target \in Maybe(Versions)

(* From the moment the revision is recorded until the next run starts to tag, *)
(* the rollback finds an image of every service for it: no failed build, no   *)
(* repeated run, no rollback and no kill in between may take the way back     *)
(* away. Only a run that is killed while it tags does, which has removed the  *)
(* tags of that revision and not yet recorded its own (update.sh:68-84).     *)
WayBack ==
  record # None /\ ~halfTagged /\ ~At("tag") => Saved(record)

(* When a run reports the shop as updated, the site really runs the revision  *)
(* that is checked out, every service of it, the version .env names is the    *)
(* same one, and its migrations are in, whatever earlier runs left half done. *)
UpdatedIsTrue ==
  said = "updated" => /\ \A s \in Services : up[s] = head
                      /\ env = head /\ schema >= head

(* update.sh:66: "Tag the images running now BEFORE building: the build moves *)
(* :latest". Once a run has recorded its revision, the images kept for it are *)
(* the ones the site is running.                                              *)
KeptIsRunning ==
  At("merge") /\ kills = 0 => \A s \in Services : tags[s][record] = up[s]

(* An update keeps its way back, unless it is killed while it tags, and never *)
(* claims too much.                                                          *)
UpdateHonest == TypeOK /\ WayBack /\ UpdatedIsTrue
=============================================================================
