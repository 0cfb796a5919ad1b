--------------------------- MODULE QuotationStore ---------------------------
(***************************************************************************)
(* Uploaded models, the quotations that claim them, and the files on disk: *)
(* checkout, the customer's clean-up of a quote, the operator's status     *)
(* changes and deletions, the worker's ingest, and its retention sweep.    *)
(*                                                                         *)
(* A step is one database statement or transaction, or one round of        *)
(* unlinks.  All models belong to one quote session, the only one that may *)
(* claim or clear them.  Quotations are numbered in the order the counter  *)
(* hands the numbers out.  Time is what the sweep's cutoffs compare:       *)
(* whether an upload, a quotation or a file has become old enough.         *)
(***************************************************************************)
EXTENDS Naturals, FiniteSets

CONSTANTS
  Models,      \* bound: the UUIDs ingest hands out
  Cad,         \* the models that were converted from STEP
  MaxQuotes,   \* bound: quotation numbers
  Customers,   \* requests of the quote session
  Admins,      \* requests of the operator
  MaxFaults    \* bound: sweeps that die, COMMITs without an answer

ASSUME QuotationAssumption ==
  /\ Cad \subseteq Models
  /\ MaxQuotes \in Nat
  /\ Customers \cap Admins = {}
  /\ MaxFaults \in Nat

VARIABLES
  fresh,      \* ids not yet handed out
  persisting, \* models whose files ingest has written and whose row it has not
  doubted,    \* ... whose COMMIT took effect and was not answered
  withdrawn,  \* ... whose files the rollback removes, after its deleteMany
  rows,       \* UploadedModel rows
  stored,     \* ... whose storedPath is not empty
  submitted,  \* models whose submittedAt was ever set
  disk,       \* files
  quote,      \* Quotation rows with their items
  numbers,    \* the quotation counter
  old,        \* what has outlived its cutoff
  web,        \* requests
  sweep,      \* runRetention
  faults      \* faults so far

ingest == <<persisting, doubted, withdrawn>>
vars == <<fresh, ingest, rows, stored, submitted, disk, quote, numbers, old, web,
          sweep, faults>>

Quotes == 1..MaxQuotes
Actors == Customers \cup Admins
\* DELIVERED is finished as COMPLETED is; the open statuses differ in name only.
Open == {"PENDING", "PRINTING"}
Terminal == {"COMPLETED", "CANCELLED"}
Kinds == {"mesh", "step"}

Mesh(m) == <<m, "mesh">>
Step(m) == <<m, "step">>
Files(m) == {Mesh(m)} \cup (IF m \in Cad THEN {Step(m)} ELSE {})

Exists(q) == quote[q].status \in Open \cup Terminal
Attached(m) == \E q \in Quotes : Exists(q) /\ m \in quote[q].items

NoQuote == [status |-> "NONE", items |-> {}]
IdleWeb == [pc |-> "idle", quote |-> 0, seen |-> "NONE", want |-> "NONE", todo |-> {},
            victims |-> {}]
IdleSweep == [pc |-> "idle", records |-> {}, quotes |-> {}, todo |-> {}, victims |-> {},
              files |-> {}]

Init ==
  /\ fresh = Models
  /\ persisting = {} /\ doubted = {} /\ withdrawn = {}
  /\ rows = {}
  /\ stored = {}
  /\ submitted = {}
  /\ disk = {}
  /\ quote = [q \in Quotes |-> NoQuote]
  /\ numbers = 0
  /\ old = [uploads |-> {}, quotes |-> {}, records |-> {}, files |-> {}]
  /\ web = [p \in Actors |-> IdleWeb]
  /\ sweep = IdleSweep
  /\ faults = 0

store == <<fresh, ingest, rows, stored, submitted, disk, quote, numbers, old>>

-----------------------------------------------------------------------------
(* persistPreparedUpload: the files first, then the row                    *)

WriteArtifacts(m) ==
  /\ m \in fresh
  /\ fresh' = fresh \ {m}
  /\ persisting' = persisting \cup {m}
  /\ disk' = disk \cup Files(m)
  /\ UNCHANGED <<doubted, withdrawn, rows, stored, submitted, quote, numbers, old, web,
                 sweep, faults>>

CommitUpload(m) ==
  /\ m \in persisting
  /\ persisting' = persisting \ {m}
  /\ rows' = rows \cup {m}
  /\ stored' = stored \cup {m}
  /\ UNCHANGED <<fresh, doubted, withdrawn, submitted, disk, quote, numbers, old, web,
                 sweep, faults>>

\* The transaction failed: remove the files, those that go; or the worker died first.
AbortUpload(m) ==
  /\ m \in persisting
  /\ persisting' = persisting \ {m}
  /\ \E gone \in SUBSET Files(m) : disk' = disk \ gone
  /\ UNCHANGED <<fresh, doubted, withdrawn, rows, stored, submitted, quote, numbers, old,
                 web, sweep, faults>>

\* The transaction took effect and the answer to its COMMIT is lost.
LoseCommit(m) ==
  /\ m \in persisting
  /\ faults < MaxFaults
  /\ faults' = faults + 1
  /\ persisting' = persisting \ {m}
  /\ doubted' = doubted \cup {m}
  /\ rows' = rows \cup {m}
  /\ stored' = stored \cup {m}
  /\ UNCHANGED <<fresh, withdrawn, submitted, disk, quote, numbers, old, web, sweep>>

-----------------------------------------------------------------------------
(* Rows that go                                                            *)

\* Mutant: the row is deleted on the strength of the earlier snapshot.
Deletable_Snapshot(m) == m \in rows

\* deleteMany where items none: its count says whether the caller owns the files.
Deletable(m) == m \in rows /\ ~Attached(m)

DropRow(m) ==
  IF Deletable(m)
  THEN rows' = rows \ {m} /\ stored' = stored \ {m}
  ELSE UNCHANGED <<rows, stored>>

\* The rollback of an unanswered COMMIT: deleteMany, whose count it does not look at.
\* When that fails, or the worker stops, the row and its files stay.
Rollback(m) ==
  /\ m \in doubted
  /\ doubted' = doubted \ {m}
  /\ \/ DropRow(m) /\ withdrawn' = withdrawn \cup {m}
     \/ UNCHANGED <<rows, stored, withdrawn>>
  /\ UNCHANGED <<fresh, persisting, submitted, disk, quote, numbers, old, web, sweep, faults>>

\* ... then every file it has written, one after the other; some may stay.
Withdraw(f) ==
  /\ f[1] \in withdrawn
  /\ f \in disk
  /\ disk' = disk \ {f}
  /\ UNCHANGED <<fresh, ingest, rows, stored, submitted, quote, numbers, old, web, sweep,
                 faults>>

-----------------------------------------------------------------------------
(* Requests of the quote session                                           *)

WebGoto(p, pc) == web' = [web EXCEPT ![p].pc = pc]
WebDone(p) == web' = [web EXCEPT ![p] = IdleWeb]

\* Every model is session-owned, not submitted and sliced.
BeginCheckout(c, S) ==
  /\ web[c].pc = "idle"
  /\ S # {}
  /\ S \subseteq rows \ submitted
  /\ web' = [web EXCEPT ![c].pc = "claim", ![c].todo = S]
  /\ UNCHANGED <<store, sweep, faults>>

\* Mutant: the transaction trusts the validation loop.
Claimable_AnyRow(m) == m \in rows

Claimable(m) == m \in rows /\ m \notin submitted /\ ~Attached(m)

\* One transaction: claim all models, take the next number, create the quotation.
Claim(c) ==
  LET S == web[c].todo IN
  /\ web[c].pc = "claim"
  /\ WebDone(c)
  /\ \/ /\ \A m \in S : Claimable(m)
        /\ numbers < MaxQuotes
        /\ numbers' = numbers + 1
        /\ quote' = [quote EXCEPT ![numbers + 1] = [status |-> "PENDING", items |-> S]]
        /\ submitted' = submitted \cup S
     \/ /\ ~\A m \in S : Claimable(m)
        /\ UNCHANGED <<numbers, quote, submitted>>
  /\ UNCHANGED <<fresh, ingest, rows, stored, disk, old, sweep, faults>>

\* DELETE of one model, or of every unattached one the page does not keep.
BeginClear(c, S) ==
  /\ web[c].pc = "idle"
  /\ S # {}
  /\ S \subseteq {m \in rows : ~Attached(m)}
  /\ web' = [web EXCEPT ![c].pc = "clear", ![c].todo = S]
  /\ UNCHANGED <<store, sweep, faults>>

\* Mutant: the count is ignored, so the files go even when the row stayed.
WebDropRow_NoCount(p, pc, m) ==
  /\ web[p].pc = pc
  /\ web[p].victims = {}
  /\ m \in web[p].todo
  /\ DropRow(m)
  /\ web' = [web EXCEPT ![p].todo = @ \ {m}, ![p].victims = {m}]
  /\ UNCHANGED <<fresh, ingest, submitted, disk, quote, numbers, old, sweep, faults>>

\* Next model of a list: delete its row, and only then touch its files.
WebDropRow(p, pc, m) ==
  /\ web[p].pc = pc
  /\ web[p].victims = {}
  /\ m \in web[p].todo
  /\ DropRow(m)
  /\ web' = [web EXCEPT ![p].todo = @ \ {m}, ![p].victims = IF Deletable(m) THEN {m} ELSE {}]
  /\ UNCHANGED <<fresh, ingest, submitted, disk, quote, numbers, old, sweep, faults>>

\* The routes unlink the mesh and leave a STEP source to the sweep.
WebUnlink(p) ==
  /\ web[p].victims # {}
  /\ disk' = disk \ {Mesh(m) : m \in web[p].victims}
  /\ web' = [web EXCEPT ![p].victims = {}]
  /\ UNCHANGED <<fresh, ingest, rows, stored, submitted, quote, numbers, old, sweep, faults>>

WebFinish(p) ==
  /\ web[p].pc \in {"clear", "deleteModels"}
  /\ web[p].todo = {}
  /\ web[p].victims = {}
  /\ WebDone(p)
  /\ UNCHANGED <<store, sweep, faults>>

\* A failed call, or the web process stopping.
WebDies(p) ==
  /\ web[p] # IdleWeb
  /\ WebDone(p)
  /\ UNCHANGED <<store, sweep, faults>>

-----------------------------------------------------------------------------
(* Requests of the operator                                                *)

\* Mutant: any status may follow any other.
MayFollow_Any(seen, want) == seen # want

\* A finished quotation is not reopened.
MayFollow(seen, want) == seen # want /\ (seen \in Terminal => want \in Terminal)

\* PATCH reads the status ...
ReadStatus(a, q, want) ==
  /\ web[a].pc = "idle"
  /\ Exists(q)
  /\ MayFollow(quote[q].status, want)
  /\ web' = [web EXCEPT ![a] = [IdleWeb EXCEPT !.pc = "patch", !.quote = q,
                                               !.seen = quote[q].status, !.want = want]]
  /\ UNCHANGED <<store, sweep, faults>>

\* Mutant: the update does not name the status that was read.
Unmoved_Any(a) == Exists(web[a].quote)

Unmoved(a) == quote[web[a].quote].status = web[a].seen

\* ... and writes only over the one it read; any update restarts the clock.
Patch(a) ==
  LET q == web[a].quote IN
  /\ web[a].pc = "patch"
  /\ IF Unmoved(a)
     THEN /\ quote' = [quote EXCEPT ![q].status = web[a].want]
          /\ old' = [old EXCEPT !.quotes = @ \ {q}, !.records = @ \ {q}]
     ELSE UNCHANGED <<quote, old>>
  /\ WebDone(a)
  /\ UNCHANGED <<fresh, ingest, rows, stored, submitted, disk, numbers, sweep, faults>>

\* DELETE reads the quotation with its items ...
ReadForDelete(a, q) ==
  /\ web[a].pc = "idle"
  /\ Exists(q)
  /\ web' = [web EXCEPT ![a].pc = "delete", ![a].quote = q, ![a].todo = quote[q].items]
  /\ UNCHANGED <<store, sweep, faults>>

\* ... deletes it with its items and history (or fails: it is gone) ...
DeleteQuote(a) ==
  LET q == web[a].quote IN
  /\ web[a].pc = "delete"
  /\ IF Exists(q)
     THEN /\ quote' = [quote EXCEPT ![q].status = "GONE"]
          /\ WebGoto(a, "deleteModels")
     ELSE /\ WebDone(a)
          /\ UNCHANGED quote
  /\ UNCHANGED <<fresh, ingest, rows, stored, submitted, disk, numbers, old, sweep, faults>>

WebStep(p) ==
  \/ Claim(p) \/ WebUnlink(p) \/ WebFinish(p) \/ Patch(p) \/ DeleteQuote(p)
  \* ... and then its models, one by one.
  \/ \E m \in Models, pc \in {"clear", "deleteModels"} : WebDropRow(p, pc, m)

-----------------------------------------------------------------------------
(* runRetention: uploads, files of finished quotations, their records, and *)
(* files that nothing in the database names.                               *)

SweepIdle == sweep.pc = "idle"

\* Stage 1 starts from a snapshot of old unattached uploads.  A purge asked for
\* by the operator never deletes quotations, nor does a policy that keeps them:
\* "records" is what stage 3 may delete.
StartSweep(keep) ==
  /\ SweepIdle
  /\ sweep' = [IdleSweep EXCEPT !.pc = "uploads",
                                !.records = IF keep THEN {} ELSE Quotes,
                                !.todo = {m \in rows \cap old.uploads : ~Attached(m)}]
  /\ UNCHANGED <<store, web, faults>>

\* Stages 1 and 3 delete rows the same way, re-checking in the statement.
SweepDropRow(m) ==
  /\ sweep.pc \in {"uploads", "recordModels"}
  /\ sweep.victims = {}
  /\ m \in sweep.todo
  /\ DropRow(m)
  /\ sweep' = [sweep EXCEPT !.todo = @ \ {m}, !.victims = IF Deletable(m) THEN {m} ELSE {}]
  /\ UNCHANGED <<fresh, ingest, submitted, disk, quote, numbers, old, web, faults>>

\* Mesh, then source; an error is logged and ends the round.
SweepUnlink ==
  LET all == UNION {Files(m) : m \in sweep.victims} IN
  /\ sweep.pc # "purge"
  /\ sweep.victims # {}
  /\ disk' \in {disk, disk \ {f \in all : f[2] = "mesh"}, disk \ all}
  /\ sweep' = [sweep EXCEPT !.victims = {}]
  /\ UNCHANGED <<fresh, ingest, rows, stored, submitted, quote, numbers, old, web, faults>>

RoundDone(pc) == sweep.pc = pc /\ sweep.todo = {} /\ sweep.victims = {}

Finished(q) == quote[q].status \in Terminal

\* Stage 2 starts from a snapshot of the finished quotations old enough.
StartFiles ==
  /\ RoundDone("uploads")
  /\ sweep' = [sweep EXCEPT !.pc = "files",
                 !.todo = UNION {quote[q].items : q \in {q \in old.quotes : Finished(q)}}]
  /\ UNCHANGED <<store, web, faults>>

\* updateMany: every quotation of the model is finished and old (perhaps none is left).
Purgeable(m) ==
  /\ m \in rows
  /\ \A q \in Quotes : Exists(q) /\ m \in quote[q].items => Finished(q) /\ q \in old.quotes

\* The model is read, and skipped when its file is gone or still referenced.
CheckFile(m) ==
  /\ sweep.pc = "files"
  /\ sweep.victims = {}
  /\ m \in sweep.todo
  /\ sweep' = IF m \in stored /\ Purgeable(m)
              THEN [sweep EXCEPT !.pc = "purge", !.victims = {m}]
              ELSE [sweep EXCEPT !.todo = @ \ {m}]
  /\ UNCHANGED <<store, web, faults>>

\* Mutant: the files go even when the statement cleared no path.
ClearPath_NoCount ==
  /\ sweep.pc = "purge"
  /\ stored' = stored \ {m \in sweep.victims : Purgeable(m)}
  /\ sweep' = [sweep EXCEPT !.pc = "files", !.todo = @ \ sweep.victims]
  /\ UNCHANGED <<fresh, ingest, rows, submitted, disk, quote, numbers, old, web, faults>>

\* Clear the stored path, re-asserting every reference, and own the file if it counts.
ClearPath ==
  LET owned == {m \in sweep.victims : Purgeable(m)} IN
  /\ sweep.pc = "purge"
  /\ stored' = stored \ owned
  /\ sweep' = [sweep EXCEPT !.pc = "files", !.victims = owned, !.todo = @ \ sweep.victims]
  /\ UNCHANGED <<fresh, ingest, rows, submitted, disk, quote, numbers, old, web, faults>>

\* Stage 3 starts from a snapshot of the finished quotations past their own cutoff.
StartRecords ==
  /\ RoundDone("files")
  /\ sweep' = [sweep EXCEPT !.pc = "records",
                 !.quotes = {q \in old.records \cap sweep.records : Finished(q)}]
  /\ UNCHANGED <<store, web, faults>>

\* Delete the record if it is still finished and old, and go through its models.
DeleteRecord(q) ==
  LET deleted == Finished(q) /\ q \in old.records IN
  /\ sweep.pc = "records"
  /\ q \in sweep.quotes
  /\ quote' = IF deleted THEN [quote EXCEPT ![q].status = "GONE"] ELSE quote
  /\ sweep' = [sweep EXCEPT !.quotes = @ \ {q},
                            !.pc = IF deleted THEN "recordModels" ELSE @,
                            !.todo = IF deleted THEN quote[q].items ELSE {}]
  /\ UNCHANGED <<fresh, ingest, rows, stored, submitted, disk, numbers, old, web, faults>>

RecordDone ==
  /\ RoundDone("recordModels")
  /\ sweep' = [sweep EXCEPT !.pc = "records"]
  /\ UNCHANGED <<store, web, faults>>

\* reconcileOrphans lists the files past the grace ...
ListFiles ==
  /\ sweep.pc = "records"
  /\ sweep.quotes = {}
  /\ sweep' = [sweep EXCEPT !.pc = "list", !.files = disk \cap old.files]
  /\ UNCHANGED <<store, web, faults>>

\* Mutant: any row keeps its file, even one whose path was cleared.
Keep_AnyRow(f) == f[1] \in rows

\* ... asks the database which of them a stored path names ...
Keep(f) == f[1] \in stored

ResolveKeep ==
  /\ sweep.pc = "list"
  /\ sweep' = [sweep EXCEPT !.pc = "reconcile", !.files = {f \in @ : ~Keep(f)}]
  /\ UNCHANGED <<store, web, faults>>

\* ... and unlinks the others, one after the other.
UnlinkOrphan(f) ==
  /\ sweep.pc = "reconcile"
  /\ f \in sweep.files
  /\ disk' = disk \ {f}
  /\ sweep' = [sweep EXCEPT !.files = @ \ {f}]
  /\ UNCHANGED <<fresh, ingest, rows, stored, submitted, quote, numbers, old, web, faults>>

EndSweep ==
  /\ sweep.pc = "reconcile"
  /\ sweep.files = {}
  /\ sweep' = IdleSweep
  /\ UNCHANGED <<store, web, faults>>

\* The worker stops, or a statement of the sweep fails.
SweepDies ==
  /\ ~SweepIdle
  /\ faults < MaxFaults
  /\ faults' = faults + 1
  /\ sweep' = IdleSweep
  /\ UNCHANGED <<store, web>>

SweepStep ==
  \/ \E m \in Models : SweepDropRow(m) \/ CheckFile(m)
  \/ SweepUnlink \/ StartFiles \/ ClearPath \/ StartRecords
  \/ \E q \in Quotes : DeleteRecord(q)
  \/ RecordDone \/ ListFiles \/ ResolveKeep
  \/ \E m \in Models, k \in Kinds : UnlinkOrphan(<<m, k>>)
  \/ EndSweep

-----------------------------------------------------------------------------
(* Time                                                                    *)

\* Nor does the cutoff of an upload pass while its own job is rolling it back.
AgeUpload(m) ==
  /\ m \in rows \ (old.uploads \cup doubted)
  /\ old' = [old EXCEPT !.uploads = @ \cup {m}]
  /\ UNCHANGED <<fresh, ingest, rows, stored, submitted, disk, quote, numbers, web, sweep,
                 faults>>

AgeQuote(q) ==
  /\ Exists(q)
  /\ \/ q \notin old.quotes /\ old' = [old EXCEPT !.quotes = @ \cup {q}]
     \/ q \notin old.records /\ old' = [old EXCEPT !.records = @ \cup {q}]
  /\ UNCHANGED <<fresh, ingest, rows, stored, submitted, disk, quote, numbers, web, sweep,
                 faults>>

\* Ingest commits or fails long before its files pass the two-hour grace.
AgeFile(f) ==
  /\ f \in disk \ old.files
  /\ f[1] \notin persisting \cup doubted
  /\ old' = [old EXCEPT !.files = @ \cup {f}]
  /\ UNCHANGED <<fresh, ingest, rows, stored, submitted, disk, quote, numbers, web, sweep,
                 faults>>

Next ==
  \/ \E m \in Models :
       \/ WriteArtifacts(m) \/ CommitUpload(m) \/ AbortUpload(m) \/ LoseCommit(m) \/ Rollback(m)
       \/ AgeUpload(m)
  \/ \E c \in Customers, S \in SUBSET Models : BeginCheckout(c, S) \/ BeginClear(c, S)
  \/ \E a \in Admins, q \in Quotes :
       \/ ReadForDelete(a, q)
       \/ \E want \in Open \cup Terminal : ReadStatus(a, q, want)
  \/ \E p \in Actors : WebStep(p) \/ WebDies(p)
  \/ \E keep \in BOOLEAN : StartSweep(keep)
  \/ SweepStep \/ SweepDies
  \/ \E q \in Quotes : AgeQuote(q)
  \/ \E m \in Models, k \in Kinds : AgeFile(<<m, k>>) \/ Withdraw(<<m, k>>)

Spec == Init /\ [][Next]_vars

(* The daily job scheduler starts sweeps, a sweep that is not interrupted  *)
(* ends, a running upload commits or fails, and time passes.  Nobody owes  *)
(* a request or a fault.                                                   *)
Fairness ==
  /\ WF_vars(StartSweep(FALSE))
  /\ WF_vars(SweepStep)
  /\ \A m \in Models : WF_vars(CommitUpload(m) \/ AbortUpload(m)) /\ WF_vars(Rollback(m))
  /\ \A m \in Models, k \in Kinds : WF_vars(AgeFile(<<m, k>>))

FairSpec == Spec /\ Fairness

-----------------------------------------------------------------------------
QuoteRows == [status : {"NONE", "GONE"} \cup Open \cup Terminal, items : SUBSET Models]
WebPcs == {"idle", "claim", "clear", "patch", "delete", "deleteModels"}
WebStates ==
  [pc : WebPcs, quote : 0..MaxQuotes, seen : {"NONE"} \cup Open \cup Terminal,
   want : {"NONE"} \cup Open \cup Terminal, todo : SUBSET Models, victims : SUBSET Models]
SweepPcs ==
  {"idle", "uploads", "files", "purge", "records", "recordModels", "list", "reconcile"}
SweepStates ==
  [pc : SweepPcs, records : SUBSET Quotes, quotes : SUBSET Quotes, todo : SUBSET Models,
   victims : SUBSET Models, files : SUBSET (Models \X Kinds)]
Olds ==
  [uploads : SUBSET Models, quotes : SUBSET Quotes, records : SUBSET Quotes,
   files : SUBSET (Models \X Kinds)]

TypeOK ==
  /\ fresh \subseteq Models
  /\ persisting \subseteq Models /\ doubted \subseteq Models /\ withdrawn \subseteq Models
  /\ rows \subseteq Models
  /\ stored \subseteq rows
  /\ submitted \subseteq Models
  /\ disk \subseteq Models \X Kinds
  /\ quote \in [Quotes -> QuoteRows]
  /\ numbers \in 0..MaxQuotes
  /\ old \in Olds
  /\ web \in [Actors -> WebStates]
  /\ sweep \in SweepStates
  /\ faults \in 0..MaxFaults

\* A stored path names a file that is there: rows go first and files after, and
\* the sweep never takes a live row's file for an orphan (retention.ts:43-131).
\* With one exception: the rollback of an unanswered COMMIT removes the files of a
\* model that a checkout has sold before its deleteMany (ingest.ts:325-354).
StoredFileKept == \A m \in stored : Mesh(m) \in disk \/ m \in withdrawn \cap submitted

\* Whatever the sweep, the customer and the operator do at the same time, an open
\* quotation keeps its models and the paths of their files (models/route.ts:139-156,
\* retention.ts:336-352).
OpenQuoteHasFiles ==
  \A q \in Quotes :
    quote[q].status \in Open => quote[q].items \subseteq stored

\* Two checkouts never sell the same model (quotations/route.ts:279-293).
NoDoubleSale ==
  \A q, r \in Quotes : q # r => quote[q].items \cap quote[r].items = {}

\* A finished quotation stays finished: retention may rely on it
\* (admin/quotations/[id]/route.ts:44-62).
FinishedStaysFinished ==
  [][\A q \in Quotes : Finished(q) => quote'[q].status \in Terminal \cup {"GONE"}]_vars

\* A file that no stored path names and no upload is writing goes away, crashed
\* uploads, interrupted sweeps and STEP sources included.
OrphansCollected ==
  \A m \in Models, k \in Kinds :
    <<m, k>> \in disk /\ m \notin stored \cup persisting ~> <<m, k>> \notin disk
=============================================================================
