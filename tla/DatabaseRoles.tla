--------------------------- MODULE DatabaseRoles ---------------------------
(* The rights of the two runtime roles in Postgres. The migrate task gives   *)
(* them anew before every start of the shop (provision-database.mjs): it     *)
(* takes all of them away and grants the present list, one statement after   *)
(* the other in psql, each committed by itself. The shop that is replaced by *)
(* the start still runs meanwhile, and the task may break off.               *)
(*                                                                           *)
(* A right is <<role, operation, table, columns>>; "*" stands for a grant on *)
(* the whole table. The columns of a slice result and of a profile upload are*)
(* grouped by who may write them.                                            *)
EXTENDS Integers, Sequences, Functions

CONSTANTS MaxStarts   \* bound: runs of the migrate task

VARIABLES rights,     \* what Postgres has granted
          at,         \* the statement that comes next; 0: no task runs
          provisioned,\* this version's task has taken the old rights away
          broken,     \* the last task broke off
          refused,    \* statements of the shop that were refused
          starts

vars == <<rights, at, provisioned, broken, refused, starts>>

Runtime == {"web", "worker"}
On(role, ops, tables, columns) == {role} \X ops \X tables \X columns
Whole == {"*"}
Quotes == {"Quotation", "QuotationItem", "StatusHistory", "QuotationCounter"}
Changes == {"INSERT", "UPDATE", "DELETE"}

Revoked(tables) == [takes |-> tables, gives |-> {}]
Granted(gives) == [takes |-> {}, gives |-> gives]
Tables == Quotes \union {"AppSetting", "UploadedModel", "SliceResult", "SlicerProfileUpload"}

(* The statements after the roles exist, in their order.                     *)
Grants == <<
  Granted(On("web", {"SELECT"} \union Changes, Quotes, Whole)),
  Granted(On("web", {"SELECT", "INSERT", "UPDATE"}, {"AppSetting"}, Whole)),
  Granted(On("worker", {"SELECT"}, {"AppSetting"}, Whole)),
  Granted(On("web", {"SELECT", "UPDATE", "DELETE"}, {"UploadedModel"}, Whole)),
  Granted(On("web", {"SELECT"}, {"SliceResult"}, Whole)),
  Granted(On("web", {"INSERT"}, {"SliceResult"}, {"identity", "lifecycle", "version"})),
  Granted(On("web", {"UPDATE"}, {"SliceResult"}, {"lifecycle", "failure"})),
  Granted(On("web", {"SELECT"}, {"SlicerProfileUpload"}, Whole)),
  Granted(On("web", {"INSERT"}, {"SlicerProfileUpload"}, {"upload", "status"})),
  Granted(On("web", {"UPDATE"}, {"SlicerProfileUpload"}, {"status", "error"})),
  Granted(On("worker", {"SELECT", "UPDATE"}, {"SlicerProfileUpload"}, Whole)),
  Granted(On("worker", {"SELECT"} \union Changes, {"UploadedModel"}, Whole)),
  Granted(On("worker", {"SELECT", "UPDATE"}, {"SliceResult"}, Whole)),
  Granted(On("worker", {"SELECT", "DELETE"}, {"Quotation"}, Whole)),
  Granted(On("worker", {"SELECT"}, {"QuotationItem"}, Whole)) >>
Statements_NeverRevoked == Grants
Statements == <<Revoked(Tables)>> \o Grants

Applied(held, statement) ==
  {r \in held : r[3] \notin statement.takes} \union statement.gives

(* What is granted once the list has been executed over nothing.             *)
AllGranted == UNION {s.gives : s \in Range(Statements)}

(* A statement needs its operation on the whole table or on every column it  *)
(* names.                                                                    *)
Allowed(s) ==
  \/ <<s.role, s.op, s.table, "*">> \in rights
  \/ \A c \in s.columns : <<s.role, s.op, s.table, c>> \in rights
Use(role, op, table, columns) == [role |-> role, op |-> op, table |-> table, columns |-> columns]

(* What the shop's own code writes and reads.                                *)
requestSlice == Use("web", "INSERT", "SliceResult", {"identity", "lifecycle", "version"})
retrySlice == Use("web", "UPDATE", "SliceResult", {"lifecycle", "failure"})
writeMeasured == Use("worker", "UPDATE", "SliceResult", {"lifecycle", "measured", "version"})
insertModel == Use("worker", "INSERT", "UploadedModel", {"*"})
claimModel == Use("web", "UPDATE", "UploadedModel", {"*"})
removeModel(role) == Use(role, "DELETE", "UploadedModel", {"*"})
queueProfileUpload == Use("web", "INSERT", "SlicerProfileUpload", {"upload", "status"})
revertToInstalled == Use("web", "UPDATE", "SlicerProfileUpload", {"status"})
notQueued == Use("web", "UPDATE", "SlicerProfileUpload", {"status", "error"})
goLive == Use("worker", "UPDATE", "SlicerProfileUpload", {"upload", "status", "error", "resolved"})
createQuotation(op, table) == Use("web", op, table, {"*"})
expireQuotation == Use("worker", "DELETE", "Quotation", {"*"})
readPolicy == Use("worker", "SELECT", "AppSetting", {"*"})
saveSetting(op) == Use("web", op, "AppSetting", {"*"})
Uses ==
  {requestSlice, retrySlice, writeMeasured, insertModel, claimModel, queueProfileUpload,
   revertToInstalled, notQueued, goLive, expireQuotation, readPolicy}
  \union {removeModel(r) : r \in Runtime} \union {saveSetting(o) : o \in {"INSERT", "UPDATE"}}
  \union {createQuotation(o, t) : o \in {"INSERT", "UPDATE"}, t \in Quotes}

(* What only the worker writes: measurements, resolved presets, new models.  *)
Trusted ==
  { Use("web", op, "SliceResult", {c}) : op \in {"INSERT", "UPDATE"}, c \in {"measured"} }
  \union { Use("web", op, "SlicerProfileUpload", {"resolved"}) : op \in {"INSERT", "UPDATE"} }
  \union { Use("web", "INSERT", "UploadedModel", {"*"}) }
  \union { Use("web", "UPDATE", "SliceResult", {"identity"}) }
  \union { Use("worker", op, "AppSetting", {"*"}) : op \in {"INSERT", "UPDATE", "DELETE"} }

(* Rights an earlier version may have left: the upload transport once        *)
(* inserted models itself, and the web owned the whole slice result.         *)
Earlier == On("web", {"INSERT"}, {"UploadedModel"}, Whole)
           \union On("web", {"INSERT", "UPDATE"}, {"SliceResult"}, Whole)

Init ==
  /\ \E old \in SUBSET Earlier : rights = AllGranted \union old
  /\ at = 0 /\ provisioned = FALSE /\ broken = FALSE /\ refused = {} /\ starts = 0

Migrate ==
  /\ at = 0 /\ starts < MaxStarts /\ starts' = starts + 1 /\ at' = 1
  /\ UNCHANGED <<rights, provisioned, broken, refused>>

Statement ==
  /\ at \in 1..Len(Statements)
  /\ rights' = Applied(rights, Statements[at])
  /\ at' = IF at = Len(Statements) THEN 0 ELSE at + 1
  /\ provisioned' = TRUE
  /\ broken' = (broken /\ at # Len(Statements))
  /\ UNCHANGED <<refused, starts>>

(* ON_ERROR_STOP, or the task is killed: what was executed stays.            *)
BreakOff ==
  /\ at # 0 /\ at' = 0 /\ broken' = TRUE
  /\ UNCHANGED <<rights, provisioned, refused, starts>>

(* A statement of the shop that still runs.                                  *)
Execute(s) ==
  /\ ~Allowed(s) /\ refused = {}
  /\ refused' = {[use |-> s, live |-> at # 0 \/ broken]}
  /\ UNCHANGED <<rights, at, provisioned, broken, starts>>

Next == Migrate \/ Statement \/ BreakOff \/ \E s \in Uses : Execute(s)

Spec == Init /\ [][Next]_vars

-----------------------------------------------------------------------------
TypeOK == at \in 0..Len(Statements) /\ starts \in 0..MaxStarts

(* The list is enough for everything the code writes: a shop whose task ended*)
(* is never refused. It can be while the task runs, and stays so after a task*)
(* that broke off, until the next one ends.                                  *)
GrantsFit ==
  /\ at = 0 /\ ~broken => \A s \in Uses : Allowed(s)
  /\ \A r \in refused : r.live

(* "Trusted worker output": from the first statement of this version's task, *)
(* however often it breaks off and whatever an earlier version had granted,  *)
(* the web never holds a right to write what only the worker measures.       *)
WorkerOutputTrusted == provisioned => \A s \in Trusted : ~Allowed(s)

RightsFit == TypeOK /\ GrantsFit /\ WorkerOutputTrusted
=============================================================================
