---------------------------- MODULE ParseRunner ----------------------------
(***************************************************************************)
(* The parse child and the orchestrator's half around it: uploads, one at  *)
(* a time, and the previews that slices render for models without one.     *)
(* Every child runs under the one parser uid.  A render works in the       *)
(* directory named after its model, which two slices of it share.          *)
(***************************************************************************)
EXTENDS Naturals

CONSTANTS
  Uploads,   \* tickets of the ingest queue
  Renders,   \* slices of one stored model that reach ensureThumbnail
  MaxStarts, \* bound: starts of the orchestrator
  None

VARIABLES
  phase,   \* where each runner is
  given,   \* what its child will make of the input: "ok", "public" or "crash"
  child,   \* its process
  said,    \* the last line of its output, and how it will end
  heard,   \* what the parent makes of that
  killer,  \* who killed the child of an upload
  scratch, \* each work directory: "gone", "empty" or "full" (the child's files are in it)
  answer,  \* what processUpload gets
  png,     \* the preview file of the model: the render that wrote it
  model,   \* its row: "bare", "shown" (thumbPath is set) or "deleted"
  starts

vars == <<phase, given, child, said, heard, killer, scratch, answer, png, model, starts>>

Runners == Uploads \cup Renders
workDir(r) == IF r \in Uploads THEN r ELSE "model"
Active(r) == phase[r] \notin {"idle", "over"}

(* What the child makes of its input. *)

Inputs == [format: {"mesh", "step"}, step: {"ok", "bad", "slow", "huge"}, mesh: {"ok", "invalid", "toobig", "crash"}]

\* The converter always exits 0: what counts is its last line and its file.
convertStepToStl(i) ==
  CASE i.step = "bad"  -> "STEP_CONVERT_FAILED"
    [] i.step = "slow" -> "STEP_CONVERT_TIMEOUT"
    [] i.step = "huge" -> "STEP_MESH_TOO_LARGE"
    [] OTHER -> "ok"

executeParseChild(i) ==
  CASE i.format = "step" /\ convertStepToStl(i) # "ok" -> "public"
    [] i.mesh \in {"invalid", "toobig"} -> "public"
    [] i.mesh = "crash" -> "crash"
    [] OTHER -> "ok"

Ending(result) ==
  CASE result = "ok"     -> [code |-> "0", line |-> "ok"]
    [] result = "public" -> [code |-> "64", line |-> "public"]
    [] OTHER -> [code |-> "70", line |-> "none"]

parseChildOutput_AnyCode(h) == IF h.line \in {"ok", "public"} THEN h.line ELSE "failed"
parseChildOutput(h) ==
  CASE h.timedOut                            -> "timeout"
    [] h.code = "64" /\ h.line = "public"    -> "public"
    [] h.code = "0" /\ h.line = "ok"         -> "ok"
    [] h.code = "SIGKILL"                    -> "killed"
    [] h.code \in {"0", "64"}                -> "contract"
    [] OTHER                                 -> "failed"

Init ==
  /\ phase = [r \in Runners |-> "idle"]
  /\ given = [r \in Runners |-> None]
  /\ child = [r \in Runners |-> "none"]
  /\ said = [r \in Runners |-> None]
  /\ heard = [r \in Runners |-> None]
  /\ killer = [u \in Uploads |-> None]
  /\ scratch = [d \in Uploads \cup {"model"} |-> "gone"]
  /\ answer = [u \in Uploads |-> None]
  /\ png = None
  /\ model = "bare"
  /\ starts = 1

\* removeParseWorkDir: in the catch of a parse, in the finally of a render.
Kept_Uploads(r, a) == r \in Uploads
Kept(r, a) == r \in Uploads /\ a = "ok"
Answered(r, a) ==
  /\ answer' = IF r \in Uploads THEN [answer EXCEPT ![r] = a] ELSE answer
  /\ scratch' = IF Kept(r, a) THEN scratch ELSE [scratch EXCEPT ![workDir(r)] = "gone"]
  /\ phase' = [phase EXCEPT ![r] = IF a = "ok" THEN "answered" ELSE "over"]
  /\ given' = IF r \in Uploads THEN given ELSE [given EXCEPT ![r] = None]

\* stageParseInput, with its size and hash checks.
Stage(r, i) ==
  /\ phase[r] = "idle"
  /\ r \in Uploads => \A u \in Uploads \ {r} : ~Active(u)
  /\ r \in Renders => model = "bare" /\ i.format = "mesh"
  /\ phase' = [phase EXCEPT ![r] = "staged"]
  /\ given' = [given EXCEPT ![r] = executeParseChild(i)]
  /\ scratch' = [scratch EXCEPT ![workDir(r)] = "empty"]
  /\ UNCHANGED <<child, said, heard, killer, answer, png, model, starts>>

StageFails(r) ==
  /\ phase[r] = "idle"
  /\ r \in Uploads => \A u \in Uploads \ {r} : ~Active(u)
  /\ r \in Renders => model = "bare"
  /\ Answered(r, "failed")
  /\ UNCHANGED <<child, said, heard, killer, png, model, starts>>

\* ensureThumbnail has nothing to do.
Skip(r) ==
  /\ r \in Renders /\ phase[r] = "idle" /\ model # "bare"
  /\ phase' = [phase EXCEPT ![r] = "over"]
  /\ UNCHANGED <<given, child, said, heard, killer, scratch, answer, png, model, starts>>

\* spawn reports an error when the directory it should run in is gone.
Spawn(r) ==
  /\ phase[r] = "staged"
  /\ IF scratch[workDir(r)] = "gone"
     THEN /\ phase' = [phase EXCEPT ![r] = "reaping"]
          /\ heard' = [heard EXCEPT ![r] = parseChildOutput([code |-> "-1", line |-> "none", timedOut |-> FALSE])]
          /\ UNCHANGED child
     ELSE /\ phase' = [phase EXCEPT ![r] = "running"]
          /\ child' = [child EXCEPT ![r] = "running"]
          /\ UNCHANGED heard
  /\ UNCHANGED <<given, said, killer, scratch, answer, png, model, starts>>

\* The child writes its files to the path it was given, with "wx", and then its last line.
Speak(r) ==
  /\ child[r] = "running"
  /\ LET here == scratch[workDir(r)] = "empty"
         done == given[r]
     IN /\ said' = [said EXCEPT ![r] = Ending(IF done = "ok" /\ ~here THEN "crash" ELSE done)]
        /\ scratch' = [scratch EXCEPT ![workDir(r)] = IF done = "ok" /\ here THEN "full" ELSE @]
  /\ child' = [child EXCEPT ![r] = "spoken"]
  /\ UNCHANGED <<phase, given, heard, killer, answer, png, model, starts>>

Killed(victims, by) ==
  LET hit == {r \in victims : child[r] \in {"running", "spoken"}}
  IN /\ child' = [r \in Runners |-> IF r \in hit THEN "ended" ELSE child[r]]
     /\ said' = [r \in Runners |-> IF r \in hit
                    THEN [code |-> "SIGKILL", line |-> IF child[r] = "spoken" THEN said[r].line ELSE "none"]
                    ELSE said[r]]
     /\ killer' = [r \in Uploads |-> IF r \in hit THEN by ELSE killer[r]]

\* The kernel prefers the children when the container is out of memory.
OutOfMemory(r) ==
  /\ child[r] \in {"running", "spoken"}
  /\ Killed({r}, "kernel")
  /\ UNCHANGED <<phase, given, heard, scratch, answer, png, model, starts>>

\* "exit" may come before the pipe has been read to its end; what is left in it is dropped.
Exit(r) ==
  /\ phase[r] = "running" /\ child[r] \in {"spoken", "ended"}
  /\ \E line \in {said[r].line, "none"} :
       heard' = [heard EXCEPT ![r] = parseChildOutput([code |-> said[r].code, line |-> line, timedOut |-> FALSE])]
  /\ child' = [child EXCEPT ![r] = "ended"]
  /\ said' = [said EXCEPT ![r] = None]
  /\ phase' = [phase EXCEPT ![r] = "reaping"]
  /\ UNCHANGED <<given, killer, scratch, answer, png, model, starts>>

Expired_Ended(r) == phase[r] = "running" /\ child[r] = "ended"
Expired(r) == phase[r] = "running"
Timeout(r) ==
  /\ Expired(r)
  /\ Killed({r}, "timer")
  /\ heard' = [heard EXCEPT ![r] = parseChildOutput([code |-> "-1", line |-> "none", timedOut |-> TRUE])]
  /\ phase' = [phase EXCEPT ![r] = "reaping"]
  /\ UNCHANGED <<given, scratch, answer, png, model, starts>>

\* verifyOutputFile: the declared files have to be there.
Verified(r) == scratch[workDir(r)] = "full"

\* killIdentityProcesses(parserUid): every process of the uid, whoever started it;
\* then the answer.
Reaped(r) == Runners
Report(r) ==
  /\ phase[r] = "reaping"
  /\ Killed(Reaped(r), "runner")
  /\ Answered(r, IF heard[r] = "ok" /\ ~Verified(r) THEN "failed" ELSE heard[r])
  /\ heard' = [heard EXCEPT ![r] = None]
  /\ UNCHANGED <<png, model, starts>>

\* processUpload promotes the models and removes the work directory.
Promote(r) ==
  /\ r \in Uploads /\ phase[r] = "answered"
  /\ scratch' = [scratch EXCEPT ![r] = "gone"]
  /\ phase' = [phase EXCEPT ![r] = "over"]
  /\ UNCHANGED <<given, child, said, heard, killer, answer, png, model, starts>>

\* ensureThumbnail, writeFile with "wx": a file that is there already is an error.
Writable_Always == TRUE
Writable == png = None
Write(r) ==
  /\ r \in Renders /\ phase[r] = "answered"
  /\ phase' = [phase EXCEPT ![r] = IF Writable THEN "written" ELSE "over"]
  /\ png' = IF Writable THEN r ELSE png
  /\ UNCHANGED <<given, child, said, heard, killer, scratch, answer, model, starts>>

Record(r) ==
  /\ phase[r] = "written"
  /\ model' = IF model = "deleted" THEN model ELSE "shown"
  /\ phase' = [phase EXCEPT ![r] = "over"]
  /\ UNCHANGED <<given, child, said, heard, killer, scratch, answer, png, starts>>

\* The customer removes the model: the row, and the files the row names.
Delete ==
  /\ model # "deleted"
  /\ png' = IF model = "shown" THEN None ELSE png
  /\ model' = "deleted"
  /\ UNCHANGED <<phase, given, child, said, heard, killer, scratch, answer, starts>>

\* A crash, or the exit after a failed reap: the children go with the container,
\* a stalled upload is failed and never replayed, a slice is.
Restart ==
  /\ starts < MaxStarts /\ \E r \in Runners : Active(r)
  /\ starts' = starts + 1
  /\ child' = [r \in Runners |-> "none"]
  /\ phase' = [r \in Runners |-> IF ~Active(r) THEN phase[r] ELSE IF r \in Uploads THEN "over" ELSE "idle"]
  /\ answer' = [u \in Uploads |-> IF Active(u) THEN None ELSE answer[u]]
  /\ said' = [r \in Runners |-> None]
  /\ heard' = [r \in Runners |-> None]
  /\ killer' = [u \in Uploads |-> IF Active(u) THEN None ELSE killer[u]]
  /\ given' = [r \in Runners |-> IF r \in Renders \/ Active(r) THEN None ELSE given[r]]
  /\ UNCHANGED <<scratch, png, model>>

Step(r) ==
  \/ \E i \in Inputs : Stage(r, i)
  \/ StageFails(r) \/ Skip(r) \/ Spawn(r) \/ Speak(r) \/ OutOfMemory(r) \/ Exit(r) \/ Timeout(r) \/ Report(r)
  \/ Promote(r) \/ Write(r) \/ Record(r)

Next == (\E r \in Runners : Step(r)) \/ Delete \/ Restart

Spec == Init /\ [][Next]_vars

\* The timer fires, the reap ends and the orchestrator goes on; the child need not.
Fairness ==
  \A r \in Runners :
    /\ WF_vars(Spawn(r)) /\ WF_vars(Exit(r) \/ Timeout(r)) /\ WF_vars(Report(r))
    /\ WF_vars(Promote(r)) /\ WF_vars(Write(r)) /\ WF_vars(Record(r))

FairSpec == Spec /\ Fairness

-----------------------------------------------------------------------------
TypeOK ==
  /\ phase \in [Runners -> {"idle", "staged", "running", "reaping", "answered", "written", "over"}]
  /\ child \in [Runners -> {"none", "running", "spoken", "ended"}]
  /\ killer \in [Uploads -> {None, "kernel", "timer", "runner"}]
  /\ scratch \in [Uploads \cup {"model"} -> {"gone", "empty", "full"}]
  /\ answer \in [Uploads -> {None, "ok", "public", "killed", "timeout", "contract", "failed"}]
  /\ png \in {None} \cup Renders /\ model \in {"bare", "shown", "deleted"}
  /\ starts \in 1..MaxStarts

\* What the customer is told of an upload is what its own child said: models only
\* after a parse that ended well and left its files, a verdict on the file only
\* when the parser gave one, and never a verdict because the work was disturbed.
OwnVerdict ==
  \A u \in Uploads :
    /\ answer[u] = "ok" => given[u] = "ok" /\ killer[u] = None
    /\ answer[u] = "public" => given[u] = "public" /\ killer[u] = None
    /\ answer[u] = "ok" /\ phase[u] = "answered" => scratch[u] = "full"

\* A runner is done with its child before it says anything: no process of it is
\* left under the uid, and a finished upload has left no files in the scratch area.
NothingLeft ==
  \A r \in Runners :
    /\ phase[r] \in {"answered", "written"} => child[r] \in {"none", "ended"}
    /\ r \in Uploads /\ phase[r] = "over" /\ starts = 1 => scratch[r] = "gone"

\* The first slice wins: a preview that the row names is there and is never
\* written again, however many slices of the model render one.
FirstWins == [][model = "shown" /\ model' = "shown" => png # None /\ png' = png]_<<model, png>>

\* Every parse comes to an answer, even when its child hangs or the scratch
\* directory is taken away under it.
EveryParseEnds == \A r \in Runners : (phase[r] = "staged") ~> (phase[r] \in {"over", "idle"})

\* The comment of parseChildOutput: a SIGKILL nobody commanded is the kernel's.
KilledIsMemory == \A u \in Uploads : answer[u] = "killed" => killer[u] = "kernel"

\* A parser child's verdict, files and preview are its own.
OwnResults == [](TypeOK /\ OwnVerdict /\ NothingLeft) /\ FirstWins
=============================================================================
