------------------------ MODULE QuotationStoreProofs ------------------------
(***************************************************************************)
(* Theorems about QuotationStore for every set of models and requests, and *)
(* any number of quotations: the type invariant, StoredFileKept,           *)
(* OpenQuoteHasFiles, NoDoubleSale and FinishedStaysFinished.              *)
(*                                                                         *)
(* The argument.  An id is handed out once, so a model whose row is gone   *)
(* never comes back: whoever deleted a row owns its files for good         *)
(* (Owned), and a file that was past its grace and had no stored path when *)
(* the sweep asked never gets one (Orphaned).  The rollback of an upload   *)
(* whose COMMIT was not answered is the exception: it takes the files of a *)
(* row its deleteMany left, and a row it leaves is sold (Fenced).  A model *)
(* that was never submitted still has its path, because only stage 2 of    *)
(* the sweep clears one and it only looks at models of quotations (Sold):  *)
(* this is what makes the paths of a fresh quotation safe.  They stay safe *)
(* because a status that was read open is replaced only while it is still  *)
(* there (Patching).                                                       *)
(***************************************************************************)
EXTENDS QuotationStore, TLAPS

\* Ids move from fresh to persisting to rows and never back; a file's model was
\* handed out, and is not being written any more once it is old.
Ids ==
  /\ rows \cap fresh = {} /\ rows \cap persisting = {} /\ persisting \cap fresh = {}
  /\ (doubted \cup withdrawn) \cap (fresh \cup persisting) = {}
  /\ \A f \in disk : f[1] \notin fresh
  /\ \A f \in old.files : f[1] \notin fresh \cup persisting

\* The files of stored models and of running uploads are there, unless a rollback
\* takes them.
FilesThere == \A m \in stored \cup persisting : Mesh(m) \in disk \/ m \in withdrawn

\* A rollback removes the files of a row only if a checkout has sold it.
Fenced == rows \cap withdrawn \subseteq submitted

\* Whoever is about to unlink a model's files owns them for good.
Owned ==
  /\ \A p \in Actors : \A m \in web[p].victims : m \notin stored \cup persisting \cup fresh
  /\ sweep.pc # "purge" => \A m \in sweep.victims : m \notin stored \cup persisting \cup fresh

\* What the sweep takes for an orphan is one, and stays one.
Orphaned ==
  \A f \in sweep.files :
    /\ f[1] \notin persisting \cup fresh
    /\ sweep.pc = "reconcile" => f[1] \notin stored

\* Quotations hold submitted models; only those lose their path while they have a
\* row.  Numbers are handed out in order.
Sold ==
  /\ \A q \in Quotes : quote[q].items \subseteq submitted
  /\ \A q \in Quotes : q > numbers => quote[q] = NoQuote
  /\ rows \ stored \subseteq submitted
  /\ sweep.pc \in {"files", "purge"} => sweep.todo \cup sweep.victims \subseteq submitted

\* A status change under way was allowed by the status it read.
Patching ==
  \A a \in Actors :
    web[a].pc = "patch" =>
      /\ web[a].seen \in Open \cup Terminal
      /\ web[a].want \in Open \cup Terminal
      /\ web[a].seen \in Terminal => web[a].want \in Terminal

IInv ==
  /\ TypeOK /\ Ids /\ FilesThere /\ Fenced /\ Owned /\ Orphaned /\ Sold /\ Patching
  /\ OpenQuoteHasFiles /\ NoDoubleSale

-----------------------------------------------------------------------------
(* The disjuncts of Next, by component                                     *)

IngestAct ==
  \/ \E m \in Models :
       WriteArtifacts(m) \/ CommitUpload(m) \/ AbortUpload(m) \/ LoseCommit(m) \/ Rollback(m)
  \/ \E m \in Models, k \in Kinds : Withdraw(<<m, k>>)
WebAct ==
  \/ \E c \in Customers, S \in SUBSET Models : BeginCheckout(c, S) \/ BeginClear(c, S)
  \/ \E a \in Admins, q \in Quotes :
       \/ ReadForDelete(a, q)
       \/ \E want \in Open \cup Terminal : ReadStatus(a, q, want)
  \/ \E p \in Actors : WebStep(p) \/ WebDies(p)
SweepAct == SweepStep \/ SweepDies \/ \E keep \in BOOLEAN : StartSweep(keep)
TimeAct ==
  \/ \E m \in Models : AgeUpload(m)
  \/ \E q \in Quotes : AgeQuote(q)
  \/ \E m \in Models, k \in Kinds : AgeFile(<<m, k>>)

LEMMA NextSplit == Next => IngestAct \/ WebAct \/ SweepAct \/ TimeAct
BY DEF Next, IngestAct, WebAct, SweepAct, TimeAct

-----------------------------------------------------------------------------
(* Typing                                                                  *)

\* The finite sets of states, as membership facts.
LEMMA Members ==
  /\ {"idle", "claim", "clear", "patch", "delete", "deleteModels"} \subseteq WebPcs
  /\ {"idle", "uploads", "files", "purge", "records", "recordModels", "list", "reconcile"}
       \subseteq SweepPcs
  /\ "PENDING" \in Open /\ "NONE" \notin Open \cup Terminal /\ "GONE" \notin Open \cup Terminal
  /\ Open \cap Terminal = {}
BY DEF WebPcs, SweepPcs, Open, Terminal

LEMMA IdleType == IdleWeb \in WebStates /\ IdleSweep \in SweepStates /\ NoQuote \in QuoteRows
BY QuotationAssumption, Members
   DEF IdleWeb, WebStates, IdleSweep, SweepStates, NoQuote, QuoteRows

LEMMA FilesType == \A m \in Models : Files(m) \subseteq Models \X Kinds /\ Mesh(m) \in Models \X Kinds
BY DEF Files, Mesh, Step, Kinds

LEMMA InitType == Init => TypeOK
BY IdleType, QuotationAssumption DEF Init, TypeOK, Olds

\* Ingest and time keep the types.
LEMMA IngestType ==
  ASSUME TypeOK,
         \/ IngestAct
         \/ \E m \in Models : AgeUpload(m)
         \/ \E q \in Quotes : AgeQuote(q)
         \/ \E m \in Models, k \in Kinds : AgeFile(<<m, k>>)
  PROVE  TypeOK'
<1>1. ASSUME NEW m \in Models, WriteArtifacts(m) \/ CommitUpload(m) \/ AbortUpload(m)
      PROVE  TypeOK'
  BY <1>1, FilesType DEF TypeOK, WriteArtifacts, CommitUpload, AbortUpload
<1>2. ASSUME NEW m \in Models, AgeUpload(m) PROVE TypeOK'
  BY <1>2 DEF TypeOK, AgeUpload, Olds, ingest
<1>3. ASSUME NEW q \in Quotes, AgeQuote(q) PROVE TypeOK'
  BY <1>3 DEF TypeOK, AgeQuote, Olds, ingest
<1>4. ASSUME NEW m \in Models, NEW k \in Kinds, AgeFile(<<m, k>>) PROVE TypeOK'
  BY <1>4 DEF TypeOK, AgeFile, Olds, ingest
<1>5. ASSUME NEW m \in Models, LoseCommit(m) PROVE TypeOK'
  <2>1. faults' \in 0..MaxFaults BY <1>5, QuotationAssumption DEF TypeOK, LoseCommit
  <2> QED BY <1>5, <2>1 DEF TypeOK, LoseCommit
<1>6. ASSUME NEW m \in Models, Rollback(m) PROVE TypeOK'
  BY <1>6 DEF TypeOK, Rollback, DropRow
<1>7. ASSUME NEW m \in Models, NEW k \in Kinds, Withdraw(<<m, k>>) PROVE TypeOK'
  BY <1>7 DEF TypeOK, Withdraw, ingest
<1> QED BY <1>1, <1>2, <1>3, <1>4, <1>5, <1>6, <1>7 DEF IngestAct

\* Requests keep the types.
LEMMA WebType ==
  ASSUME TypeOK, WebAct
  PROVE  TypeOK'
<1>n. \A q \in Quotes : q \in 0..MaxQuotes BY QuotationAssumption DEF Quotes
<1>w. web \in [Actors -> WebStates] BY DEF TypeOK
<1>q. quote \in [Quotes -> QuoteRows] BY DEF TypeOK
<1>1. ASSUME NEW c \in Customers, NEW S \in SUBSET Models,
             BeginCheckout(c, S) \/ BeginClear(c, S)
      PROVE  TypeOK'
  <2>1. web' \in [Actors -> WebStates]
    BY <1>1, <1>w, Members DEF BeginCheckout, BeginClear, WebStates
  <2> QED BY <1>1, <2>1 DEF TypeOK, ingest, BeginCheckout, BeginClear, store
<1>2. ASSUME NEW a \in Admins, NEW q \in Quotes, ReadForDelete(a, q) PROVE TypeOK'
  <2>1. quote[q].items \in SUBSET Models BY <1>q DEF QuoteRows
  <2>2. web' \in [Actors -> WebStates]
    BY <1>2, <1>w, <1>n, <2>1, Members DEF ReadForDelete, WebStates
  <2> QED BY <1>2, <2>2 DEF TypeOK, ingest, ReadForDelete, store
<1>3. ASSUME NEW a \in Admins, NEW q \in Quotes, NEW want \in Open \cup Terminal,
             ReadStatus(a, q, want)
      PROVE  TypeOK'
  <2>1. quote[q].status \in Open \cup Terminal BY <1>3 DEF ReadStatus, Exists
  <2>2. [IdleWeb EXCEPT !.pc = "patch", !.quote = q, !.seen = quote[q].status, !.want = want]
          \in WebStates
    BY <1>n, <2>1, Members DEF IdleWeb, WebStates
  <2>3. web' \in [Actors -> WebStates] BY <1>3, <1>w, <2>2 DEF ReadStatus
  <2> QED BY <1>3, <2>3 DEF TypeOK, ingest, ReadStatus, store
<1>4. ASSUME NEW p \in Actors, WebDone(p) PROVE web' \in [Actors -> WebStates]
  BY <1>4, <1>w, IdleType DEF WebDone
<1>5. ASSUME NEW p \in Actors, Claim(p) PROVE TypeOK'
  <2>1. web[p].todo \in SUBSET Models BY <1>w DEF WebStates
  <2>2. [status |-> "PENDING", items |-> web[p].todo] \in QuoteRows
    BY <2>1, Members DEF QuoteRows
  <2>3. quote' \in [Quotes -> QuoteRows] BY <1>5, <1>q, <2>2 DEF Claim
  <2>4. numbers' \in 0..MaxQuotes BY <1>5, QuotationAssumption DEF Claim, TypeOK
  <2> QED BY <1>4, <1>5, <2>1, <2>3, <2>4 DEF TypeOK, ingest, Claim
<1>6. ASSUME NEW p \in Actors, NEW m \in Models, NEW pc, WebDropRow(p, pc, m) PROVE TypeOK'
  <2>1. web' \in [Actors -> WebStates] BY <1>6, <1>w DEF WebDropRow, WebStates
  <2> QED BY <1>6, <2>1 DEF TypeOK, ingest, WebDropRow, DropRow
<1>7. ASSUME NEW p \in Actors, WebUnlink(p) PROVE TypeOK'
  <2>1. web' \in [Actors -> WebStates] BY <1>7, <1>w DEF WebUnlink, WebStates
  <2> QED BY <1>7, <2>1 DEF TypeOK, ingest, WebUnlink
<1>8. ASSUME NEW p \in Actors, WebFinish(p) \/ WebDies(p) PROVE TypeOK'
  BY <1>4, <1>8 DEF TypeOK, ingest, WebFinish, WebDies, store
<1>9. ASSUME NEW p \in Actors, Patch(p) PROVE TypeOK'
  <2>1. web[p].want \in {"NONE"} \cup Open \cup Terminal BY <1>w DEF WebStates
  <2>2. web[p].want \in Open \cup Terminal \/ web[p].want = "NONE" BY <2>1
  <2>3. quote' \in [Quotes -> QuoteRows] BY <1>9, <1>q, <2>2 DEF Patch, QuoteRows
  <2>4. old' \in Olds
    <3>1. old \in Olds BY DEF TypeOK
    <3>2. CASE Unmoved(p)
      <4>1. PICK U \in SUBSET old.quotes, V \in SUBSET old.records :
                   old' = [old EXCEPT !.quotes = U, !.records = V]
        BY <1>9, <3>2 DEF Patch
      <4> QED BY <3>1, <4>1 DEF Olds
    <3>3. CASE ~Unmoved(p) BY <1>9, <3>1, <3>3 DEF Patch
    <3> QED BY <3>2, <3>3
  <2> QED BY <1>4, <1>9, <2>3, <2>4 DEF TypeOK, ingest, Patch
<1>10. ASSUME NEW p \in Actors, DeleteQuote(p) PROVE TypeOK'
  <2>1. quote' \in [Quotes -> QuoteRows] BY <1>10, <1>q DEF DeleteQuote, QuoteRows
  <2>2. web' \in [Actors -> WebStates]
    BY <1>4, <1>10, <1>w, Members DEF DeleteQuote, WebGoto, WebStates
  <2> QED BY <1>10, <2>1, <2>2 DEF TypeOK, ingest, DeleteQuote
<1> QED
  BY <1>1, <1>2, <1>3, <1>5, <1>6, <1>7, <1>8, <1>9, <1>10 DEF WebAct, WebStep

\* The sweep keeps the types.
LEMMA SweepType ==
  ASSUME TypeOK, SweepAct
  PROVE  TypeOK'
<1>s. sweep \in SweepStates BY DEF TypeOK
<1>q. quote \in [Quotes -> QuoteRows] BY DEF TypeOK
<1>1. CASE \E keep \in BOOLEAN : StartSweep(keep)
  <2>1. PICK R \in SUBSET Quotes, T \in SUBSET Models :
               sweep' = [IdleSweep EXCEPT !.pc = "uploads", !.records = R, !.todo = T]
    BY <1>1 DEF StartSweep, TypeOK
  <2>2. sweep' \in SweepStates BY <2>1, Members DEF IdleSweep, SweepStates
  <2> QED BY <1>1, <2>2 DEF TypeOK, ingest, StartSweep, store
<1>2. ASSUME NEW m \in Models, SweepDropRow(m) PROVE TypeOK'
  <2>1. sweep' \in SweepStates BY <1>2, <1>s DEF SweepDropRow, SweepStates
  <2> QED BY <1>2, <2>1 DEF TypeOK, ingest, SweepDropRow, DropRow
<1>3. CASE SweepUnlink
  <2>1. sweep' \in SweepStates BY <1>3, <1>s DEF SweepUnlink, SweepStates
  <2> QED BY <1>3, <2>1 DEF TypeOK, ingest, SweepUnlink
<1>4. CASE StartFiles
  <2>1. UNION {quote[q].items : q \in {q \in old.quotes : Finished(q)}} \in SUBSET Models
    BY <1>q DEF TypeOK, Olds, QuoteRows
  <2>2. sweep' \in SweepStates BY <1>4, <1>s, <2>1, Members DEF StartFiles, SweepStates
  <2> QED BY <1>4, <2>2 DEF TypeOK, ingest, StartFiles, store
<1>5. ASSUME NEW m \in Models, CheckFile(m) PROVE TypeOK'
  <2>1. sweep' \in SweepStates BY <1>5, <1>s, Members DEF CheckFile, SweepStates
  <2> QED BY <1>5, <2>1 DEF TypeOK, ingest, CheckFile, store
<1>6. CASE ClearPath
  <2>1. sweep' \in SweepStates BY <1>6, <1>s, Members DEF ClearPath, SweepStates
  <2> QED BY <1>6, <2>1 DEF TypeOK, ingest, ClearPath
<1>7. CASE StartRecords
  <2>1. sweep' \in SweepStates BY <1>7, <1>s, Members DEF StartRecords, SweepStates
  <2> QED BY <1>7, <2>1 DEF TypeOK, ingest, StartRecords, store
<1>8. ASSUME NEW q \in Quotes, DeleteRecord(q) PROVE TypeOK'
  <2>1. quote[q].items \in SUBSET Models BY <1>q DEF QuoteRows
  <2>2. sweep' \in SweepStates BY <1>8, <1>s, <2>1, Members DEF DeleteRecord, SweepStates
  <2>3. quote' \in [Quotes -> QuoteRows] BY <1>8, <1>q DEF DeleteRecord, QuoteRows
  <2> QED BY <1>8, <2>2, <2>3 DEF TypeOK, ingest, DeleteRecord
<1>9. CASE RecordDone
  <2>1. sweep' \in SweepStates BY <1>9, <1>s, Members DEF RecordDone, SweepStates
  <2> QED BY <1>9, <2>1 DEF TypeOK, ingest, RecordDone, store
<1>10. CASE ListFiles
  <2>1. disk \cap old.files \in SUBSET (Models \X Kinds) BY DEF TypeOK
  <2>2. sweep' \in SweepStates BY <1>10, <1>s, <2>1, Members DEF ListFiles, SweepStates
  <2> QED BY <1>10, <2>2 DEF TypeOK, ingest, ListFiles, store
<1>11. CASE ResolveKeep
  <2>1. sweep' \in SweepStates BY <1>11, <1>s, Members DEF ResolveKeep, SweepStates
  <2> QED BY <1>11, <2>1 DEF TypeOK, ingest, ResolveKeep, store
<1>12. ASSUME NEW f \in Models \X Kinds, UnlinkOrphan(f) PROVE TypeOK'
  <2>1. sweep' \in SweepStates BY <1>12, <1>s DEF UnlinkOrphan, SweepStates
  <2> QED BY <1>12, <2>1 DEF TypeOK, ingest, UnlinkOrphan
<1>13. CASE EndSweep BY <1>13, IdleType DEF TypeOK, ingest, EndSweep, store
<1>14. CASE SweepDies BY <1>14, IdleType, QuotationAssumption DEF TypeOK, ingest, SweepDies, store
<1> QED
  BY <1>1, <1>2, <1>3, <1>4, <1>5, <1>6, <1>7, <1>8, <1>9, <1>10, <1>11, <1>12, <1>13, <1>14
     DEF SweepAct, SweepStep

LEMMA StepType == TypeOK /\ [Next]_vars => TypeOK'
<1> SUFFICES ASSUME TypeOK, [Next]_vars PROVE TypeOK' OBVIOUS
<1>1. CASE UNCHANGED vars BY <1>1 DEF vars, ingest, TypeOK
<1>2. CASE Next BY <1>2, NextSplit, IngestType, WebType, SweepType DEF TimeAct
<1> QED BY <1>1, <1>2

\* Every reachable state is well typed, for all values of the constants.
THEOREM TypeCorrect == Spec => []TypeOK
BY InitType, StepType, PTL DEF Spec

-----------------------------------------------------------------------------
(* Ids and files                                                           *)

LEMMA InitInv == Init => IInv
<1> SUFFICES ASSUME Init PROVE IInv OBVIOUS
<1>1. TypeOK BY InitType
<1>2. Ids /\ FilesThere /\ Fenced BY DEF Init, Ids, FilesThere, Fenced
<1>3. Owned /\ Orphaned /\ Patching
  BY DEF Init, Owned, Orphaned, Patching, IdleWeb, IdleSweep
<1>4. Sold BY DEF Init, Sold, NoQuote, IdleSweep
<1>5. OpenQuoteHasFiles /\ NoDoubleSale
  BY Members DEF Init, OpenQuoteHasFiles, NoDoubleSale, NoQuote
<1> QED BY <1>1, <1>2, <1>3, <1>4, <1>5 DEF IInv

\* What neither ingest nor a file's age moves only takes away.
Shrinks ==
  /\ fresh' = fresh /\ old.files = old'.files
  /\ persisting' = persisting /\ doubted' = doubted /\ withdrawn' = withdrawn
  /\ rows' \subseteq rows /\ stored' \subseteq stored /\ disk' \subseteq disk

LEMMA DropRowShrinks ==
  ASSUME NEW m, DropRow(m) PROVE rows' \subseteq rows /\ stored' \subseteq stored
BY DEF DropRow

LEMMA WebShrinks ==
  ASSUME TypeOK, WebAct
  PROVE  Shrinks
<1>1. ASSUME NEW p \in Actors, Patch(p) PROVE old'.files = old.files
  BY <1>1 DEF Patch, TypeOK, Olds
<1>2. ASSUME NEW p \in Actors, NEW m \in Models, NEW pc, WebDropRow(p, pc, m)
      PROVE  Shrinks
  BY <1>2, DropRowShrinks DEF WebDropRow, Shrinks, ingest
<1> QED
  BY <1>1, <1>2
     DEF Shrinks, ingest, WebAct, store, BeginCheckout, BeginClear, ReadForDelete, ReadStatus, WebStep, WebDies,
         Claim, WebUnlink, WebFinish, Patch, DeleteQuote

LEMMA SweepShrinks ==
  ASSUME SweepAct
  PROVE  Shrinks
<1>1. ASSUME NEW m \in Models, SweepDropRow(m) PROVE Shrinks
  BY <1>1, DropRowShrinks DEF SweepDropRow, Shrinks, ingest
<1>2. CASE SweepUnlink BY <1>2 DEF SweepUnlink, Shrinks, ingest
<1>3. CASE ClearPath BY <1>3 DEF ClearPath, Shrinks, ingest
<1> QED
  BY <1>1, <1>2, <1>3
     DEF Shrinks, ingest, SweepAct, store, SweepStep, SweepDies, StartSweep, StartFiles, CheckFile, StartRecords,
         DeleteRecord, RecordDone, ListFiles, ResolveKeep, UnlinkOrphan, EndSweep

\* Upload and quotation ages are nobody's files.
LEMMA AgeShrinks ==
  ASSUME TypeOK, (\E m \in Models : AgeUpload(m)) \/ (\E q \in Quotes : AgeQuote(q))
  PROVE  Shrinks /\ UNCHANGED <<rows, stored, submitted, disk, quote, numbers, web, sweep>>
BY DEF AgeUpload, AgeQuote, Shrinks, ingest, TypeOK, Olds

LEMMA FileNames ==
  /\ \A m : Mesh(m)[1] = m
  /\ \A m : \A f \in Files(m) : f[1] = m
  /\ \A m : Mesh(m) \in Files(m) /\ Mesh(m)[2] = "mesh"
BY DEF Files, Mesh, Step

LEMMA StepIds ==
  ASSUME TypeOK, Ids, Next
  PROVE  Ids'
<1>1. ASSUME NEW m \in Models, WriteArtifacts(m) PROVE Ids'
  BY <1>1, FileNames DEF WriteArtifacts, Ids
<1>2. ASSUME NEW m \in Models, CommitUpload(m) \/ AbortUpload(m) \/ LoseCommit(m) PROVE Ids'
  BY <1>2 DEF CommitUpload, AbortUpload, LoseCommit, Ids
<1>5. ASSUME NEW m \in Models, Rollback(m) PROVE Ids'
  <2>1. rows' \subseteq rows BY <1>5, DropRowShrinks DEF Rollback
  <2>2. /\ doubted' \cup withdrawn' \subseteq doubted \cup withdrawn
        /\ UNCHANGED <<fresh, persisting, disk, old>>
    BY <1>5 DEF Rollback
  <2> QED BY <2>1, <2>2 DEF Ids
<1>6. ASSUME NEW f, Withdraw(f) PROVE Ids'
  BY <1>6 DEF Withdraw, Ids, ingest
<1>3. ASSUME NEW m \in Models, NEW k \in Kinds, AgeFile(<<m, k>>) PROVE Ids'
  <2>1. old'.files = old.files \cup {<<m, k>>} BY <1>3 DEF AgeFile, TypeOK, Olds
  <2> QED BY <1>3, <2>1 DEF AgeFile, Ids, ingest
<1>4. ASSUME Shrinks PROVE Ids' BY <1>4 DEF Shrinks, Ids
<1> QED
  BY <1>1, <1>2, <1>3, <1>4, <1>5, <1>6, WebShrinks, SweepShrinks, AgeShrinks, NextSplit
     DEF IngestAct, TimeAct

\* Only unlinks take files away: from their owners, and by a rollback.
LEMMA StepFiles ==
  ASSUME TypeOK, Ids, FilesThere, Owned, Orphaned, Next
  PROVE  FilesThere'
<1>1. ASSUME NEW m \in Models, WriteArtifacts(m) \/ CommitUpload(m) \/ LoseCommit(m)
      PROVE  FilesThere'
  BY <1>1, FileNames DEF WriteArtifacts, CommitUpload, LoseCommit, FilesThere
<1>10. ASSUME NEW m \in Models, Rollback(m) PROVE FilesThere'
  <2>1. stored' \subseteq stored BY <1>10, DropRowShrinks DEF Rollback
  <2>2. withdrawn \subseteq withdrawn' /\ UNCHANGED <<persisting, disk>> BY <1>10 DEF Rollback
  <2> QED BY <2>1, <2>2 DEF FilesThere
<1>11. ASSUME NEW m \in Models, NEW k \in Kinds, Withdraw(<<m, k>>) PROVE FilesThere'
  <2>1. m \in withdrawn /\ disk' = disk \ {<<m, k>>} /\ UNCHANGED <<stored, persisting, withdrawn>>
    BY <1>11 DEF Withdraw, ingest
  <2>2. \A n : n # m => Mesh(n) # <<m, k>> BY FileNames
  <2> QED BY <2>1, <2>2 DEF FilesThere
<1>2. ASSUME NEW m \in Models, AbortUpload(m) PROVE FilesThere'
  <2>1. m \notin stored /\ persisting' = persisting \ {m} /\ stored' = stored
    BY <1>2 DEF AbortUpload, Ids, TypeOK
  <2>3. PICK gone \in SUBSET Files(m) : disk' = disk \ gone BY <1>2 DEF AbortUpload
  <2>2. \A n \in stored \cup persisting' : Mesh(n) \notin Files(m)
    BY <2>1, FileNames
  <2> QED BY <1>2, <2>1, <2>2, <2>3 DEF AbortUpload, FilesThere
<1>3. ASSUME Shrinks, disk' = disk PROVE FilesThere'
  BY <1>3 DEF Shrinks, FilesThere
<1>4. ASSUME NEW p \in Actors, WebUnlink(p) PROVE FilesThere'
  <2>1. \A n \in stored \cup persisting : n \notin web[p].victims BY DEF Owned
  <2>2. \A n \in stored \cup persisting : Mesh(n) \notin {Mesh(m) : m \in web[p].victims}
    BY <2>1, FileNames
  <2> QED BY <1>4, <2>2 DEF WebUnlink, FilesThere, ingest
<1>5. CASE SweepUnlink
  <2>1. \A n \in stored \cup persisting : n \notin sweep.victims BY <1>5 DEF Owned, SweepUnlink
  <2>2. \A n \in stored \cup persisting : Mesh(n) \notin UNION {Files(m) : m \in sweep.victims}
    BY <2>1, FileNames
  <2>3. \A n \in stored \cup persisting :
          Mesh(n) \notin {f \in UNION {Files(m) : m \in sweep.victims} : f[2] = "mesh"}
    BY <2>2
  <2>4. \A n \in stored \cup persisting : Mesh(n) \in disk => Mesh(n) \in disk'
    BY <1>5, <2>2, <2>3 DEF SweepUnlink
  <2> QED BY <1>5, <2>4 DEF SweepUnlink, FilesThere, ingest
<1>6. ASSUME NEW f, UnlinkOrphan(f) PROVE FilesThere'
  <2>1. \A n \in stored \cup persisting : Mesh(n) # f
    BY <1>6, FileNames DEF UnlinkOrphan, Orphaned
  <2> QED BY <1>6, <2>1 DEF UnlinkOrphan, FilesThere, ingest
<1>7. ASSUME NEW m \in Models, NEW k \in Kinds, AgeFile(<<m, k>>) PROVE FilesThere'
  BY <1>7 DEF AgeFile, FilesThere, ingest
<1>8. ASSUME WebAct PROVE FilesThere'
  <2>1. disk' = disk \/ \E p \in Actors : WebUnlink(p)
    BY <1>8 DEF WebAct, store, BeginCheckout, BeginClear, ReadForDelete, ReadStatus, WebStep, WebDies,
                Claim, WebDropRow, WebFinish, Patch, DeleteQuote
  <2> QED BY <1>3, <1>4, <1>8, <2>1, WebShrinks
<1>9. ASSUME SweepAct PROVE FilesThere'
  <2>1. disk' = disk \/ SweepUnlink \/ \E m \in Models, k \in Kinds : UnlinkOrphan(<<m, k>>)
    BY <1>9 DEF SweepAct, store, SweepStep, SweepDies, StartSweep, SweepDropRow, ClearPath, StartFiles,
                CheckFile, StartRecords, DeleteRecord, RecordDone, ListFiles, ResolveKeep,
                EndSweep
  <2> QED BY <1>3, <1>5, <1>6, <1>9, <2>1, SweepShrinks
<1> QED
  BY <1>1, <1>2, <1>3, <1>7, <1>8, <1>9, <1>10, <1>11, AgeShrinks, NextSplit
     DEF IngestAct, TimeAct

-----------------------------------------------------------------------------
(* Who owns files                                                          *)

\* Requests gain a victim only by deleting its row.
LEMMA WebVictims ==
  ASSUME TypeOK, Ids, WebAct,
         NEW r \in Actors, NEW n \in web'[r].victims
  PROVE  n \in web[r].victims \/ n \notin stored' \cup persisting' \cup fresh'
<1>w. web \in [Actors -> WebStates] BY DEF TypeOK
<1>i. IdleWeb.victims = {} BY DEF IdleWeb
<1>1. ASSUME NEW p \in Actors, web' = [web EXCEPT ![p] = IdleWeb] PROVE n \in web[r].victims
  BY <1>1, <1>w, <1>i
<1>2. ASSUME NEW c \in Customers, NEW S \in SUBSET Models,
             BeginCheckout(c, S) \/ BeginClear(c, S)
      PROVE  n \in web[r].victims
  BY <1>2, <1>w DEF BeginCheckout, BeginClear, WebStates
<1>3. ASSUME NEW a \in Admins, NEW q \in Quotes, ReadForDelete(a, q) PROVE n \in web[r].victims
  BY <1>3, <1>w DEF ReadForDelete, WebStates
<1>4. ASSUME NEW a \in Admins, NEW q \in Quotes, NEW want \in Open \cup Terminal,
             ReadStatus(a, q, want)
      PROVE  n \in web[r].victims
  <2>1. [IdleWeb EXCEPT !.pc = "patch", !.quote = q, !.seen = quote[q].status,
                        !.want = want].victims = {}
    BY DEF IdleWeb
  <2> QED BY <1>4, <1>w, <2>1 DEF ReadStatus
<1>5. ASSUME NEW p \in Actors, NEW m \in Models, NEW pc, WebDropRow(p, pc, m)
      PROVE  n \in web[r].victims \/ n \notin stored' \cup persisting' \cup fresh'
  <2>1. CASE r # p BY <1>5, <1>w, <2>1 DEF WebDropRow, WebStates
  <2>2. CASE r = p
    <3>1. Deletable(m) /\ n = m BY <1>5, <1>w, <2>2 DEF WebDropRow, WebStates
    <3>2. stored' = stored \ {m} /\ m \in rows
      BY <1>5, <3>1 DEF WebDropRow, DropRow, Deletable
    <3> QED BY <1>5, <3>1, <3>2 DEF WebDropRow, ingest, Ids
  <2> QED BY <2>1, <2>2
<1>6. ASSUME NEW p \in Actors, WebUnlink(p) PROVE n \in web[r].victims
  BY <1>6, <1>w DEF WebUnlink, WebStates
<1>7. ASSUME NEW p \in Actors, DeleteQuote(p) PROVE n \in web[r].victims
  BY <1>7, <1>1, <1>w DEF DeleteQuote, WebDone, WebGoto, WebStates
<1> QED
  BY <1>1, <1>2, <1>3, <1>4, <1>5, <1>6, <1>7
     DEF WebAct, WebStep, Claim, WebFinish, Patch, WebDies, WebDone

\* So does the sweep, or by clearing its path.
LEMMA SweepVictims ==
  ASSUME TypeOK, Ids, SweepAct,
         sweep'.pc # "purge", NEW n \in sweep'.victims
  PROVE  \/ sweep.pc # "purge" /\ n \in sweep.victims
         \/ n \notin stored' \cup persisting' \cup fresh'
<1>s. sweep \in SweepStates BY DEF TypeOK
<1>i. IdleSweep.victims = {} BY DEF IdleSweep
<1>1. ASSUME NEW keep, StartSweep(keep) PROVE FALSE
  BY <1>1 DEF StartSweep, IdleSweep
<1>2. ASSUME NEW m \in Models, SweepDropRow(m)
      PROVE  n \notin stored' \cup persisting' \cup fresh'
  <2>1. Deletable(m) /\ n = m BY <1>2, <1>s DEF SweepDropRow, SweepStates
  <2>2. stored' = stored \ {m} /\ m \in rows
    BY <1>2, <2>1 DEF SweepDropRow, DropRow, Deletable
  <2> QED BY <1>2, <2>1, <2>2 DEF SweepDropRow, ingest, Ids
<1>3. CASE ClearPath
  <2>1. n \in rows /\ n \notin stored' BY <1>3, <1>s DEF ClearPath, Purgeable, SweepStates
  <2> QED BY <1>3, <2>1 DEF ClearPath, ingest, Ids
<1>4. ASSUME SweepUnlink \/ StartFiles \/ StartRecords \/ RecordDone \/ ListFiles \/ ResolveKeep
      PROVE  sweep.pc # "purge" /\ n \in sweep.victims
  BY <1>4, <1>s
     DEF SweepUnlink, StartFiles, StartRecords, RecordDone, RoundDone, ListFiles, ResolveKeep,
         SweepStates
<1>5. ASSUME NEW m \in Models, CheckFile(m) PROVE sweep.pc # "purge" /\ n \in sweep.victims
  BY <1>5, <1>s DEF CheckFile, SweepStates
<1>6. ASSUME NEW q \in Quotes, DeleteRecord(q) PROVE sweep.pc # "purge" /\ n \in sweep.victims
  BY <1>6, <1>s DEF DeleteRecord, SweepStates
<1>7. ASSUME NEW f, UnlinkOrphan(f) PROVE sweep.pc # "purge" /\ n \in sweep.victims
  BY <1>7, <1>s DEF UnlinkOrphan, SweepStates
<1>8. CASE EndSweep \/ SweepDies BY <1>8, <1>i DEF EndSweep, SweepDies
<1> QED BY <1>1, <1>2, <1>3, <1>4, <1>5, <1>6, <1>7, <1>8 DEF SweepAct, SweepStep

\* Ingest asks no request and no sweep, sells nothing, and stores only what it wrote.
LEMMA IngestKeeps ==
  ASSUME IngestAct
  PROVE  /\ UNCHANGED <<submitted, quote, numbers, old, web, sweep>>
         /\ stored' \cup persisting' \cup fresh' \subseteq stored \cup persisting \cup fresh
         /\ persisting' \cup fresh' \subseteq persisting \cup fresh
         /\ rows' \ stored' \subseteq rows \ stored
<1>1. ASSUME NEW m \in Models,
             WriteArtifacts(m) \/ CommitUpload(m) \/ AbortUpload(m) \/ LoseCommit(m)
      PROVE  /\ UNCHANGED <<submitted, quote, numbers, old, web, sweep>>
             /\ stored' \cup persisting' \cup fresh' \subseteq stored \cup persisting \cup fresh
             /\ persisting' \cup fresh' \subseteq persisting \cup fresh
             /\ rows' \ stored' \subseteq rows \ stored
  BY <1>1 DEF WriteArtifacts, CommitUpload, AbortUpload, LoseCommit
<1>2. ASSUME NEW m \in Models, Rollback(m)
      PROVE  /\ UNCHANGED <<submitted, quote, numbers, old, web, sweep>>
             /\ stored' \subseteq stored /\ UNCHANGED <<persisting, fresh>>
             /\ rows' \ stored' \subseteq rows \ stored
  BY <1>2 DEF Rollback, DropRow
<1>3. ASSUME NEW f, Withdraw(f)
      PROVE  UNCHANGED <<submitted, quote, numbers, old, web, sweep, stored, rows, persisting, fresh>>
  BY <1>3 DEF Withdraw, ingest
<1> QED BY <1>1, <1>2, <1>3 DEF IngestAct

LEMMA StepOwned ==
  ASSUME TypeOK, Ids, Owned, Next
  PROVE  Owned'
<1>1. CASE IngestAct
  <2>1. web' = web /\ sweep' = sweep BY <1>1, IngestKeeps
  <2>2. stored' \cup persisting' \cup fresh' \subseteq stored \cup persisting \cup fresh
    BY <1>1, IngestKeeps
  <2> QED BY <2>1, <2>2 DEF Owned
<1>2. ASSUME WebAct PROVE Owned'
  <2>1. Shrinks BY <1>2, WebShrinks
  <2>2. sweep' = sweep
    BY <1>2 DEF WebAct, BeginCheckout, BeginClear, ReadForDelete, ReadStatus, WebStep, WebDies,
                Claim, WebDropRow, WebUnlink, WebFinish, Patch, DeleteQuote
  <2>3. \A r \in Actors : \A n \in web'[r].victims :
          n \in web[r].victims \/ n \notin stored' \cup persisting' \cup fresh'
    BY <1>2, WebVictims
  <2> QED BY <2>1, <2>2, <2>3 DEF Owned, Shrinks
<1>3. ASSUME SweepAct PROVE Owned'
  <2>1. Shrinks BY <1>3, SweepShrinks
  <2>2. web' = web
    BY <1>3 DEF SweepAct, SweepStep, SweepDies, StartSweep, SweepDropRow, SweepUnlink, StartFiles, CheckFile,
                ClearPath, StartRecords, DeleteRecord, RecordDone, ListFiles, ResolveKeep,
                UnlinkOrphan, EndSweep
  <2>3. sweep'.pc # "purge" =>
          \A n \in sweep'.victims :
            \/ sweep.pc # "purge" /\ n \in sweep.victims
            \/ n \notin stored' \cup persisting' \cup fresh'
    BY <1>3, SweepVictims
  <2> QED BY <2>1, <2>2, <2>3 DEF Owned, Shrinks
<1>4. CASE TimeAct BY <1>4 DEF TimeAct, AgeUpload, AgeQuote, AgeFile, Owned, ingest
<1> QED BY <1>1, <1>2, <1>3, <1>4, NextSplit

\* Where the sweep's file list comes from, and when it is taken for orphans.
LEMMA SweepFiles ==
  ASSUME TypeOK, SweepAct, NEW f \in sweep'.files
  PROVE  \/ f \in old.files /\ sweep'.pc # "reconcile"
         \/ f \in sweep.files /\ (sweep'.pc = "reconcile" =>
                                  sweep.pc = "reconcile" \/ f[1] \notin stored')
<1>s. sweep \in SweepStates BY DEF TypeOK
<1>i. IdleSweep.files = {} BY DEF IdleSweep
<1>1. ASSUME NEW keep, StartSweep(keep) PROVE FALSE BY <1>1 DEF StartSweep, IdleSweep
<1>2. CASE ListFiles BY <1>2, <1>s DEF ListFiles, SweepStates
<1>3. CASE ResolveKeep BY <1>3, <1>s DEF ResolveKeep, Keep, SweepStates, store
<1>4. ASSUME NEW m \in Models, SweepDropRow(m) \/ CheckFile(m)
      PROVE  f \in sweep.files /\ (sweep'.pc = "reconcile" => sweep.pc = "reconcile")
  BY <1>4, <1>s DEF SweepDropRow, CheckFile, SweepStates
<1>5. ASSUME SweepUnlink \/ StartFiles \/ ClearPath \/ StartRecords \/ RecordDone
      PROVE  f \in sweep.files /\ (sweep'.pc = "reconcile" => sweep.pc = "reconcile")
  BY <1>5, <1>s DEF SweepUnlink, StartFiles, ClearPath, StartRecords, RecordDone, SweepStates
<1>6. ASSUME NEW q \in Quotes, DeleteRecord(q)
      PROVE  f \in sweep.files /\ (sweep'.pc = "reconcile" => sweep.pc = "reconcile")
  BY <1>6, <1>s DEF DeleteRecord, SweepStates
<1>7. ASSUME NEW g, UnlinkOrphan(g)
      PROVE  f \in sweep.files /\ (sweep'.pc = "reconcile" => sweep.pc = "reconcile")
  BY <1>7, <1>s DEF UnlinkOrphan, SweepStates
<1>8. CASE EndSweep \/ SweepDies BY <1>8, <1>i DEF EndSweep, SweepDies
<1> QED BY <1>1, <1>2, <1>3, <1>4, <1>5, <1>6, <1>7, <1>8 DEF SweepAct, SweepStep

LEMMA WebKeepsSweep == WebAct => sweep' = sweep
BY DEF WebAct, BeginCheckout, BeginClear, ReadForDelete, ReadStatus, WebStep, WebDies, Claim,
       WebDropRow, WebUnlink, WebFinish, Patch, DeleteQuote

LEMMA StepOrphaned ==
  ASSUME TypeOK, Ids, Orphaned, Next
  PROVE  Orphaned'
<1>1. CASE IngestAct BY <1>1, IngestKeeps DEF Orphaned
<1>2. CASE WebAct BY <1>2, WebShrinks, WebKeepsSweep DEF Orphaned, Shrinks
<1>3. CASE SweepAct BY <1>3, SweepShrinks, SweepFiles DEF Orphaned, Shrinks, Ids
<1>4. CASE TimeAct BY <1>4 DEF TimeAct, AgeUpload, AgeQuote, AgeFile, Orphaned, ingest
<1> QED BY <1>1, <1>2, <1>3, <1>4, NextSplit

-----------------------------------------------------------------------------
(* Quotations                                                              *)

\* A row that goes takes its path with it.
LEMMA DropRowPaths ==
  ASSUME NEW m, DropRow(m) PROVE rows' \ stored' \subseteq rows \ stored
BY DEF DropRow

\* Items never change, and a number that was not handed out has no quotation.
KeepsItems ==
  /\ numbers' = numbers /\ submitted' = submitted
  /\ \A q \in Quotes :
       quote'[q].items = quote[q].items /\ (quote[q] = NoQuote => quote'[q] = NoQuote)

LEMMA NotYet == NoQuote.status = "NONE" /\ NoQuote.items = {} BY DEF NoQuote

LEMMA KeptQuotes ==
  ASSUME UNCHANGED <<numbers, submitted, quote>> PROVE KeepsItems
BY DEF KeepsItems

\* An existing quotation may change its status.
LEMMA StatusKeepsItems ==
  ASSUME TypeOK, UNCHANGED <<numbers, submitted>>, NEW r \in Quotes, quote[r].status # "NONE",
         NEW s, quote' = [quote EXCEPT ![r].status = s]
  PROVE  KeepsItems
<1>q. quote \in [Quotes -> QuoteRows] BY DEF TypeOK
<1>1. ASSUME NEW q \in Quotes
      PROVE  quote'[q].items = quote[q].items /\ (quote[q] = NoQuote => quote'[q] = NoQuote)
  <2>1. CASE q # r BY <1>q, <2>1
  <2>2. CASE q = r
    <3>1. quote[q] # NoQuote BY <2>2, NotYet
    <3>2. quote'[q] = [quote[q] EXCEPT !.status = s] BY <1>q, <2>2
    <3>3. quote[q] \in QuoteRows BY <1>q
    <3> QED BY <3>1, <3>2, <3>3 DEF QuoteRows
  <2> QED BY <2>1, <2>2
<1> QED BY <1>1 DEF KeepsItems

LEMMA WebKeepsItems ==
  ASSUME TypeOK, Patching, WebAct, \A p \in Actors : ~Claim(p)
  PROVE  KeepsItems /\ rows' \ stored' \subseteq rows \ stored
<1>w. web \in [Actors -> WebStates] BY DEF TypeOK
<1>1. ASSUME NEW p \in Actors, NEW m \in Models, NEW pc, WebDropRow(p, pc, m)
      PROVE  KeepsItems /\ rows' \ stored' \subseteq rows \ stored
  BY <1>1, KeptQuotes, DropRowPaths DEF WebDropRow
<1>2. ASSUME NEW p \in Actors, Patch(p)
      PROVE  KeepsItems /\ rows' \ stored' \subseteq rows \ stored
  <2>1. CASE Unmoved(p)
    <3>1. web[p].seen \in Open \cup Terminal BY <1>2 DEF Patch, Patching
    <3>2. quote[web[p].quote].status # "NONE" BY <2>1, <3>1, Members DEF Unmoved
    <3>3. quote' = [quote EXCEPT ![web[p].quote].status = web[p].want]
      BY <1>2, <2>1 DEF Patch
    <3>4. CASE web[p].quote \in Quotes BY <1>2, <3>2, <3>3, <3>4, StatusKeepsItems DEF Patch
    <3>5. CASE web[p].quote \notin Quotes
      <4>1. quote' = quote BY <3>3, <3>5 DEF TypeOK
      <4> QED BY <1>2, <4>1, KeptQuotes DEF Patch
    <3> QED BY <1>2, <3>4, <3>5 DEF Patch
  <2>2. CASE ~Unmoved(p) BY <1>2, <2>2, KeptQuotes DEF Patch
  <2> QED BY <2>1, <2>2
<1>3. ASSUME NEW p \in Actors, DeleteQuote(p)
      PROVE  KeepsItems /\ rows' \ stored' \subseteq rows \ stored
  <2>1. CASE Exists(web[p].quote) /\ web[p].quote \in Quotes
    <3>1. quote[web[p].quote].status # "NONE" BY <2>1, Members DEF Exists
    <3> QED BY <1>3, <2>1, <3>1, StatusKeepsItems DEF DeleteQuote
  <2>2. CASE ~Exists(web[p].quote) BY <1>3, <2>2, KeptQuotes DEF DeleteQuote
  <2>3. CASE Exists(web[p].quote) /\ web[p].quote \notin Quotes
    <3>1. quote' = quote BY <1>3, <2>3 DEF DeleteQuote, TypeOK
    <3> QED BY <1>3, <3>1, KeptQuotes DEF DeleteQuote
  <2> QED BY <2>1, <2>2, <2>3
<1> QED
  BY <1>1, <1>2, <1>3, KeptQuotes
     DEF WebAct, store, BeginCheckout, BeginClear, ReadForDelete, ReadStatus, WebStep, WebDies,
         WebUnlink, WebFinish

LEMMA SweepKeepsItems ==
  ASSUME TypeOK, SweepAct
  PROVE  KeepsItems
<1>1. ASSUME NEW q \in Quotes, DeleteRecord(q) PROVE KeepsItems
  <2>1. CASE Finished(q)
    <3>1. quote[q].status # "NONE" BY <2>1, Members DEF Finished
    <3> QED BY <1>1, <2>1, <3>1, StatusKeepsItems, KeptQuotes DEF DeleteRecord
  <2>2. CASE ~Finished(q) BY <1>1, <2>2, KeptQuotes DEF DeleteRecord
  <2> QED BY <2>1, <2>2
<1> QED
  BY <1>1, KeptQuotes
     DEF SweepAct, store, SweepStep, SweepDies, StartSweep, SweepDropRow, SweepUnlink, StartFiles,
         CheckFile, ClearPath, StartRecords, RecordDone, ListFiles, ResolveKeep, UnlinkOrphan,
         EndSweep

\* A checkout that goes through: the new quotation.
LEMMA ClaimEffect ==
  ASSUME TypeOK, Sold, NEW c \in Actors, Claim(c), numbers' # numbers
  PROVE  LET S == web[c].todo  n == numbers + 1 IN
         /\ S \subseteq rows \ submitted /\ n \in Quotes
         /\ numbers' = n /\ submitted' = submitted \cup S /\ UNCHANGED <<rows, stored, sweep>>
         /\ quote[n] = NoQuote
         /\ quote'[n] = [status |-> "PENDING", items |-> S]
         /\ \A q \in Quotes : q # n => quote'[q] = quote[q]
<1> DEFINE S == web[c].todo
           n == numbers + 1
<1>q. quote \in [Quotes -> QuoteRows] BY DEF TypeOK
<1>1. numbers < MaxQuotes /\ numbers' = n /\ submitted' = submitted \cup S
      /\ quote' = [quote EXCEPT ![n] = [status |-> "PENDING", items |-> S]]
      /\ (\A m \in S : Claimable(m)) /\ UNCHANGED <<rows, stored, sweep>>
  BY DEF Claim
<1>2. S \subseteq rows \ submitted BY <1>1 DEF Claimable
<1>3. n \in Quotes /\ n > numbers BY <1>1, QuotationAssumption DEF TypeOK, Quotes
<1>4. quote[n] = NoQuote BY <1>3 DEF Sold
<1> QED BY <1>1, <1>2, <1>3, <1>4, <1>q

LEMMA ClaimElse ==
  ASSUME NEW c, Claim(c), numbers' = numbers, numbers \in Nat
  PROVE  KeepsItems /\ quote' = quote /\ rows' = rows /\ stored' = stored
<1>1. numbers' # numbers + 1 OBVIOUS
<1>2. UNCHANGED <<numbers, submitted, quote>> BY <1>1 DEF Claim
<1> QED BY <1>2, KeptQuotes DEF Claim

\* What keeps the items keeps the first three parts of Sold.
LEMMA KeepSold ==
  ASSUME Sold, KeepsItems, rows' \ stored' \subseteq rows \ stored,
         sweep'.pc \in {"files", "purge"} => sweep'.todo \cup sweep'.victims \subseteq submitted
  PROVE  Sold'
BY DEF Sold, KeepsItems

\* The sweep's second stage goes through models of quotations.
LEMMA SweepTodo ==
  ASSUME TypeOK, Sold, SweepAct, sweep'.pc \in {"files", "purge"}
  PROVE  sweep'.todo \cup sweep'.victims \subseteq submitted
<1>s. sweep \in SweepStates BY DEF TypeOK
<1>1. ASSUME NEW keep, StartSweep(keep) PROVE FALSE BY <1>1 DEF StartSweep, IdleSweep
<1>2. CASE StartFiles
  <2>1. UNION {quote[q].items : q \in {q \in old.quotes : Finished(q)}} \subseteq submitted
    BY DEF Sold, TypeOK, Olds
  <2>2. sweep'.victims = {} BY <1>2, <1>s DEF StartFiles, RoundDone, SweepStates
  <2> QED BY <1>2, <1>s, <2>1, <2>2 DEF StartFiles, SweepStates
<1>3. ASSUME NEW m \in Models, CheckFile(m)
      PROVE  sweep'.todo \cup sweep'.victims \subseteq submitted
  BY <1>3, <1>s DEF CheckFile, Sold, SweepStates
<1>4. CASE ClearPath BY <1>4, <1>s DEF ClearPath, Sold, SweepStates
<1>5. CASE SweepUnlink BY <1>5, <1>s DEF SweepUnlink, Sold, SweepStates
<1>6. ASSUME NEW m \in Models, SweepDropRow(m) PROVE FALSE
  BY <1>6, <1>s DEF SweepDropRow, SweepStates
<1>7. ASSUME NEW q \in Quotes, DeleteRecord(q) PROVE FALSE
  BY <1>7, <1>s DEF DeleteRecord, SweepStates
<1>8. CASE EndSweep \/ SweepDies BY <1>8 DEF EndSweep, SweepDies, IdleSweep
<1>9. ASSUME StartRecords \/ RecordDone \/ ListFiles \/ ResolveKeep PROVE FALSE
  BY <1>9, <1>s DEF StartRecords, RecordDone, ListFiles, ResolveKeep, SweepStates
<1>10. ASSUME NEW f, UnlinkOrphan(f) PROVE FALSE
  BY <1>10, <1>s DEF UnlinkOrphan, SweepStates
<1> QED
  BY <1>1, <1>2, <1>3, <1>4, <1>5, <1>6, <1>7, <1>8, <1>9, <1>10 DEF SweepAct, SweepStep

LEMMA StepSold ==
  ASSUME TypeOK, Ids, Sold, Patching, Next
  PROVE  Sold'
<1>n. numbers \in Nat BY QuotationAssumption DEF TypeOK
<1>1. CASE IngestAct
  <2>1. rows' \ stored' \subseteq rows \ stored /\ sweep' = sweep
        /\ UNCHANGED <<numbers, submitted, quote>>
    BY <1>1, IngestKeeps
  <2> QED BY <2>1, KeptQuotes, KeepSold DEF Sold
<1>2. CASE WebAct
  <2>1. ASSUME NEW c \in Actors, Claim(c), numbers' # numbers PROVE Sold'
    <3> DEFINE S == web[c].todo
               k == numbers + 1
    <3>0. /\ k \in Quotes /\ numbers' = k /\ submitted' = submitted \cup S
          /\ quote'[k] = [status |-> "PENDING", items |-> S]
          /\ \A q \in Quotes : q # k => quote'[q] = quote[q]
          /\ UNCHANGED <<rows, stored, sweep>>
      BY <2>1, ClaimEffect
    <3>1. ASSUME NEW q \in Quotes PROVE quote'[q].items \subseteq submitted'
      <4>1. CASE q = k BY <3>0, <4>1
      <4>2. CASE q # k BY <3>0, <4>2 DEF Sold
      <4> QED BY <4>1, <4>2
    <3>2. ASSUME NEW q \in Quotes, q > numbers' PROVE quote'[q] = NoQuote
      <4>1. q > numbers /\ q # k BY <1>n, <3>0, <3>2 DEF Quotes
      <4> QED BY <3>0, <4>1 DEF Sold
    <3> HIDE DEF S, k
    <3> QED BY <3>0, <3>1, <3>2 DEF Sold
  <2>2. ASSUME NEW c \in Actors, Claim(c), numbers' = numbers PROVE Sold'
    BY <1>n, <1>2, <2>2, ClaimElse, WebKeepsSweep, KeepSold DEF Sold
  <2>3. CASE \A c \in Actors : ~Claim(c)
    BY <1>2, <2>3, WebKeepsItems, WebKeepsSweep, KeepSold DEF Sold
  <2> QED BY <2>1, <2>2, <2>3
<1>3. CASE SweepAct
  <2>1. KeepsItems BY <1>3, SweepKeepsItems
  <2>2. CASE ClearPath /\ sweep.pc = "purge"
    <3>1. rows' \ stored' \subseteq (rows \ stored) \cup submitted
      BY <2>2 DEF ClearPath, Sold
    <3> QED BY <1>3, <2>1, <3>1, SweepTodo DEF Sold, KeepsItems
  <2>3. CASE ~ClearPath
    <3>1. \A m \in Models : SweepDropRow(m) => rows' \ stored' \subseteq rows \ stored
      BY DropRowPaths DEF SweepDropRow
    <3>2. rows' \ stored' \subseteq rows \ stored
      BY <1>3, <2>3, <3>1
         DEF SweepAct, store, SweepStep, SweepDies, StartSweep, SweepUnlink, StartFiles, CheckFile,
             StartRecords, DeleteRecord, RecordDone, ListFiles, ResolveKeep, UnlinkOrphan, EndSweep
    <3> QED BY <1>3, <2>1, <3>2, SweepTodo, KeepSold
  <2> QED BY <2>2, <2>3 DEF ClearPath
<1>4. CASE TimeAct
  <2>1. UNCHANGED <<numbers, submitted, quote, rows, stored, sweep>>
    BY <1>4 DEF TimeAct, AgeUpload, AgeQuote, AgeFile
  <2> QED BY <2>1, KeptQuotes, KeepSold DEF Sold
<1> QED BY <1>1, <1>2, <1>3, <1>4, NextSplit

\* A row a rollback has left is an item of a quotation; one it has not reached is not
\* its concern.
LEMMA StepFenced ==
  ASSUME TypeOK, Ids, Sold, Patching, Fenced, Next
  PROVE  Fenced'
<1>1. ASSUME NEW m \in Models,
             WriteArtifacts(m) \/ CommitUpload(m) \/ AbortUpload(m) \/ LoseCommit(m)
      PROVE  Fenced'
  <2>1. rows' \subseteq rows \cup persisting /\ UNCHANGED <<submitted, withdrawn>>
    BY <1>1 DEF WriteArtifacts, CommitUpload, AbortUpload, LoseCommit
  <2> QED BY <2>1 DEF Ids, Fenced
<1>2. ASSUME NEW m \in Models, Rollback(m) PROVE Fenced'
  <2>1. rows' \subseteq rows BY <1>2, DropRowShrinks DEF Rollback
  <2>2. CASE withdrawn' = withdrawn BY <1>2, <2>1, <2>2 DEF Rollback, Fenced
  <2>3. CASE DropRow(m) /\ withdrawn' = withdrawn \cup {m}
    <3>1. m \in rows' => Attached(m) BY <2>3 DEF DropRow, Deletable
    <3>2. m \in rows' => m \in submitted BY <3>1 DEF Attached, Sold
    <3> QED BY <1>2, <2>1, <2>3, <3>2 DEF Rollback, Fenced
  <2> QED BY <1>2, <2>2, <2>3 DEF Rollback
<1>3. ASSUME NEW f, Withdraw(f) PROVE Fenced'
  BY <1>3 DEF Withdraw, ingest, Fenced
<1>4. ASSUME Shrinks, submitted \subseteq submitted' PROVE Fenced'
  BY <1>4 DEF Shrinks, Fenced
<1>5. CASE WebAct
  <2>1. ASSUME NEW c \in Actors, Claim(c) PROVE submitted \subseteq submitted'
    BY <2>1 DEF Claim
  <2> QED BY <1>4, <1>5, <2>1, WebShrinks, WebKeepsItems DEF KeepsItems
<1>6. CASE SweepAct BY <1>4, <1>6, SweepShrinks, SweepKeepsItems DEF KeepsItems
<1>7. CASE TimeAct
  BY <1>7 DEF TimeAct, AgeUpload, AgeQuote, AgeFile, ingest, Fenced
<1> QED BY <1>1, <1>2, <1>3, <1>5, <1>6, <1>7, NextSplit DEF IngestAct

\* A request is at "patch" only with what ReadStatus put there.
LEMMA StepPatching ==
  ASSUME TypeOK, Patching, Next
  PROVE  Patching'
<1>w. web \in [Actors -> WebStates] BY DEF TypeOK
<1>i. IdleWeb.pc # "patch" BY DEF IdleWeb
<1>1. ASSUME UNCHANGED web PROVE Patching' BY <1>1 DEF Patching
<1>2. ASSUME NEW p \in Actors, web'[p].pc # "patch", web' = [web EXCEPT ![p] = web'[p]]
      PROVE  Patching'
  BY <1>2, <1>w DEF Patching
<1>3. ASSUME NEW p \in Actors, web' = [web EXCEPT ![p] = IdleWeb] PROVE Patching'
  BY <1>3, <1>i, <1>w DEF Patching
<1>4. ASSUME NEW a \in Admins, NEW q \in Quotes, NEW want \in Open \cup Terminal,
             ReadStatus(a, q, want)
      PROVE  Patching'
  <2> DEFINE new == [IdleWeb EXCEPT !.pc = "patch", !.quote = q, !.seen = quote[q].status,
                                    !.want = want]
  <2>1. new.seen = quote[q].status /\ new.want = want BY DEF IdleWeb
  <2>2. new.seen \in Open \cup Terminal BY <1>4, <2>1 DEF ReadStatus, Exists
  <2>3. new.seen \in Terminal => new.want \in Terminal
    BY <1>4, <2>1 DEF ReadStatus, MayFollow
  <2>4. web' = [web EXCEPT ![a] = new] BY <1>4 DEF ReadStatus
  <2> HIDE DEF new
  <2> QED BY <1>w, <2>1, <2>2, <2>3, <2>4 DEF Patching
<1>5. CASE WebAct
  <2>1. ASSUME NEW c \in Customers, NEW S \in SUBSET Models,
               BeginCheckout(c, S) \/ BeginClear(c, S)
        PROVE  Patching'
    BY <1>w, <2>1 DEF BeginCheckout, BeginClear, WebStates, Patching
  <2>2. ASSUME NEW a \in Admins, NEW q \in Quotes, ReadForDelete(a, q) PROVE Patching'
    BY <1>w, <2>2 DEF ReadForDelete, WebStates, Patching
  <2>3. ASSUME NEW p \in Actors, NEW m \in Models, NEW pc, WebDropRow(p, pc, m)
        PROVE  Patching'
    BY <1>w, <2>3 DEF WebDropRow, WebStates, Patching
  <2>4. ASSUME NEW p \in Actors, WebUnlink(p) PROVE Patching'
    BY <1>w, <2>4 DEF WebUnlink, WebStates, Patching
  <2>5. ASSUME NEW p \in Actors, DeleteQuote(p) PROVE Patching'
    BY <1>3, <1>w, <2>5 DEF DeleteQuote, WebDone, WebGoto, WebStates, Patching
  <2> QED
    BY <1>3, <1>4, <1>5, <2>1, <2>2, <2>3, <2>4, <2>5
       DEF WebAct, WebStep, Claim, WebFinish, Patch, WebDies, WebDone
<1>6. CASE SweepAct
  BY <1>1, <1>6
     DEF SweepAct, SweepStep, SweepDies, StartSweep, SweepDropRow, SweepUnlink, StartFiles,
         CheckFile, ClearPath, StartRecords, DeleteRecord, RecordDone, ListFiles, ResolveKeep,
         UnlinkOrphan, EndSweep
<1>7. CASE IngestAct \/ TimeAct
  BY <1>1, <1>7, IngestKeeps DEF TimeAct, AgeUpload, AgeQuote, AgeFile
<1> QED BY <1>5, <1>6, <1>7, NextSplit

\* A row that goes is no open quotation's.
LEMMA DropRowOpen ==
  ASSUME NEW m, DropRow(m), OpenQuoteHasFiles, quote' = quote PROVE OpenQuoteHasFiles'
BY DEF DropRow, Deletable, Attached, Exists, OpenQuoteHasFiles

\* A status that changes from, or to, something that is not open.
LEMMA StatusOpen ==
  ASSUME TypeOK, OpenQuoteHasFiles, UNCHANGED stored, NEW r \in Quotes, NEW s,
         quote' = [quote EXCEPT ![r].status = s], s \in Open => quote[r].status \in Open
  PROVE  OpenQuoteHasFiles'
<1>1. ASSUME NEW q \in Quotes, quote'[q].status \in Open PROVE quote'[q].items \subseteq stored
  <2>q. quote \in [Quotes -> QuoteRows] /\ quote[q] \in QuoteRows BY DEF TypeOK
  <2>1. quote'[q].items = quote[q].items BY <2>q DEF QuoteRows
  <2>2. quote[q].status \in Open
    <3>1. CASE q = r BY <1>1, <2>q, <3>1 DEF QuoteRows
    <3>2. CASE q # r BY <1>1, <2>q, <3>2
    <3> QED BY <3>1, <3>2
  <2> QED BY <2>1, <2>2 DEF OpenQuoteHasFiles
<1> QED BY <1>1 DEF OpenQuoteHasFiles

LEMMA StepOpen ==
  ASSUME TypeOK, Sold, Patching, OpenQuoteHasFiles, Next
  PROVE  OpenQuoteHasFiles'
<1>q. quote \in [Quotes -> QuoteRows] BY DEF TypeOK
<1>1. ASSUME UNCHANGED quote, stored \subseteq stored' PROVE OpenQuoteHasFiles'
  BY <1>1 DEF OpenQuoteHasFiles
<1>8. ASSUME NEW m \in Models, Rollback(m) PROVE OpenQuoteHasFiles'
  BY <1>1, <1>8, DropRowOpen DEF Rollback
<1>2. CASE IngestAct \/ TimeAct
  BY <1>1, <1>2, <1>8
     DEF IngestAct, TimeAct, WriteArtifacts, CommitUpload, AbortUpload, LoseCommit, Withdraw,
         AgeUpload, AgeQuote, AgeFile
<1>3. ASSUME NEW c \in Actors, Claim(c) PROVE OpenQuoteHasFiles'
  <2>1. CASE numbers' = numbers
    BY <1>1, <1>3, <2>1, ClaimElse, QuotationAssumption DEF TypeOK
  <2>2. CASE numbers' # numbers
    <3> DEFINE S == web[c].todo
               k == numbers + 1
    <3>1. /\ S \subseteq rows \ submitted /\ UNCHANGED stored
          /\ quote'[k] = [status |-> "PENDING", items |-> S]
          /\ \A q \in Quotes : q # k => quote'[q] = quote[q]
      BY <1>3, <2>2, ClaimEffect
    <3>2. S \subseteq stored BY <3>1 DEF Sold
    <3> HIDE DEF S, k
    <3>3. ASSUME NEW q \in Quotes, quote'[q].status \in Open
          PROVE  quote'[q].items \subseteq stored
      <4>1. CASE q = k BY <3>1, <3>2, <4>1
      <4>2. CASE q # k BY <3>1, <3>3, <4>2 DEF OpenQuoteHasFiles
      <4> QED BY <4>1, <4>2
    <3> QED BY <3>1, <3>3 DEF OpenQuoteHasFiles
  <2> QED BY <2>1, <2>2
<1>4. ASSUME NEW p \in Actors, Patch(p) PROVE OpenQuoteHasFiles'
  <2> DEFINE r == web[p].quote
  <2>1. UNCHANGED stored BY <1>4 DEF Patch
  <2>2. CASE Unmoved(p) /\ r \in Quotes
    <3>1. quote' = [quote EXCEPT ![r].status = web[p].want] BY <1>4, <2>2 DEF Patch
    <3>2. web[p].want \in Open => quote[r].status \in Open
      BY <1>4, <2>2, Members DEF Patch, Patching, Unmoved
    <3> QED BY <2>1, <2>2, <3>1, <3>2, StatusOpen
  <2>3. CASE Unmoved(p) /\ r \notin Quotes
    <3>1. quote' = quote BY <1>4, <1>q, <2>3 DEF Patch
    <3> QED BY <1>1, <2>1, <3>1
  <2>4. CASE ~Unmoved(p) BY <1>1, <1>4, <2>4 DEF Patch
  <2> QED BY <2>2, <2>3, <2>4
<1>5. ASSUME NEW p \in Actors, DeleteQuote(p) PROVE OpenQuoteHasFiles'
  <2> DEFINE r == web[p].quote
  <2>1. UNCHANGED stored BY <1>5 DEF DeleteQuote
  <2>2. CASE Exists(r) /\ r \in Quotes
    <3>1. quote' = [quote EXCEPT ![r].status = "GONE"] BY <1>5, <2>2 DEF DeleteQuote
    <3> QED BY <2>1, <2>2, <3>1, StatusOpen, Members
  <2>3. CASE Exists(r) /\ r \notin Quotes
    <3>1. quote' = quote BY <1>5, <1>q, <2>3 DEF DeleteQuote
    <3> QED BY <1>1, <2>1, <3>1
  <2>4. CASE ~Exists(r) BY <1>1, <1>5, <2>4 DEF DeleteQuote
  <2> QED BY <2>2, <2>3, <2>4
<1>6. CASE WebAct
  <2>1. ASSUME NEW p \in Actors, NEW m \in Models, NEW pc, WebDropRow(p, pc, m)
        PROVE  OpenQuoteHasFiles'
    BY <2>1, DropRowOpen DEF WebDropRow
  <2> QED
    BY <1>1, <1>3, <1>4, <1>5, <1>6, <2>1
       DEF WebAct, store, BeginCheckout, BeginClear, ReadForDelete, ReadStatus, WebStep, WebDies,
           WebUnlink, WebFinish
<1>7. CASE SweepAct
  <2>1. ASSUME NEW m \in Models, SweepDropRow(m) PROVE OpenQuoteHasFiles'
    BY <2>1, DropRowOpen DEF SweepDropRow
  <2>2. CASE ClearPath
    <3>1. \A q \in Quotes, m \in Models :
            quote[q].status \in Open /\ m \in quote[q].items => ~Purgeable(m)
      BY Members DEF Purgeable, Exists, Finished
    <3>2. UNCHANGED quote /\ stored' = stored \ {m \in sweep.victims : Purgeable(m)}
      BY <2>2 DEF ClearPath
    <3>3. \A q \in Quotes : quote[q].items \subseteq Models BY <1>q DEF QuoteRows
    <3> QED BY <3>1, <3>2, <3>3 DEF OpenQuoteHasFiles
  <2>3. ASSUME NEW q \in Quotes, DeleteRecord(q) PROVE OpenQuoteHasFiles'
    <3>1. UNCHANGED stored BY <2>3 DEF DeleteRecord
    <3>2. CASE UNCHANGED quote BY <1>1, <3>1, <3>2
    <3>3. CASE quote' = [quote EXCEPT ![q].status = "GONE"]
      BY <3>1, <3>3, StatusOpen, Members
    <3> QED BY <2>3, <3>2, <3>3 DEF DeleteRecord
  <2> QED
    BY <1>1, <1>7, <2>1, <2>2, <2>3
       DEF SweepAct, store, SweepStep, SweepDies, StartSweep, SweepUnlink, StartFiles, CheckFile,
           StartRecords, RecordDone, ListFiles, ResolveKeep, UnlinkOrphan, EndSweep
<1> QED BY <1>2, <1>6, <1>7, NextSplit

\* A checkout sells models that were never submitted; nothing else changes items.
LEMMA StepSales ==
  ASSUME TypeOK, Sold, Patching, NoDoubleSale, Next
  PROVE  NoDoubleSale'
<1>1. ASSUME KeepsItems PROVE NoDoubleSale' BY <1>1 DEF KeepsItems, NoDoubleSale
<1>2. CASE IngestAct \/ TimeAct
  BY <1>1, <1>2, KeptQuotes, IngestKeeps DEF TimeAct, AgeUpload, AgeQuote, AgeFile
<1>3. ASSUME NEW c \in Actors, Claim(c), numbers' # numbers PROVE NoDoubleSale'
  <2> DEFINE S == web[c].todo
             k == numbers + 1
  <2>1. /\ S \subseteq rows \ submitted
        /\ quote'[k] = [status |-> "PENDING", items |-> S]
        /\ \A q \in Quotes : q # k => quote'[q] = quote[q]
    BY <1>3, ClaimEffect
  <2>2. \A q \in Quotes : q # k => quote[q].items \cap S = {} BY <2>1 DEF Sold
  <2> HIDE DEF S, k
  <2>3. quote'[k].items = S BY <2>1
  <2>4. ASSUME NEW q \in Quotes, NEW r \in Quotes, q # r
        PROVE  quote'[q].items \cap quote'[r].items = {}
    <3>1. CASE q = k BY <2>1, <2>2, <2>3, <2>4, <3>1
    <3>2. CASE r = k BY <2>1, <2>2, <2>3, <2>4, <3>2
    <3>3. CASE q # k /\ r # k BY <2>1, <2>4, <3>3 DEF NoDoubleSale
    <3> QED BY <3>1, <3>2, <3>3
  <2> QED BY <2>4 DEF NoDoubleSale
<1>4. ASSUME NEW c \in Actors, Claim(c), numbers' = numbers PROVE NoDoubleSale'
  BY <1>1, <1>4, ClaimElse, QuotationAssumption DEF TypeOK
<1> QED BY <1>1, <1>2, <1>3, <1>4, WebKeepsItems, SweepKeepsItems, NextSplit

-----------------------------------------------------------------------------
(* The theorems                                                            *)

LEMMA StepInv == IInv /\ [Next]_vars => IInv'
<1> SUFFICES ASSUME IInv, [Next]_vars PROVE IInv' OBVIOUS
<1>1. CASE UNCHANGED vars
  BY <1>1 DEF vars, ingest, IInv, TypeOK, Ids, FilesThere, Fenced, Owned, Orphaned, Sold, Patching,
              OpenQuoteHasFiles, NoDoubleSale
<1>2. CASE Next
  BY <1>2, StepType, StepIds, StepFiles, StepFenced, StepOwned, StepOrphaned, StepSold, StepPatching,
     StepOpen, StepSales
     DEF IInv
<1> QED BY <1>1, <1>2

\* The inductive invariant holds in every reachable state.
THEOREM Invariant == Spec => []IInv
BY InitInv, StepInv, PTL DEF Spec

\* No interleaving of checkouts, clean-ups, status changes, deletions, uploads and
\* sweeps, with any number of crashes and unanswered COMMITs, loses the mesh of a
\* stored model, except one: a rollback takes that of a model sold before it ran.
THEOREM FilesKept == Spec => []StoredFileKept
<1>1. IInv => StoredFileKept BY DEF IInv, TypeOK, FilesThere, Fenced, StoredFileKept
<1> QED BY <1>1, Invariant, PTL

\* An open quotation keeps its models and their stored paths; with FilesKept, the
\* files of all but those a rollback takes.
THEOREM OpenKept == Spec => []OpenQuoteHasFiles
<1>1. IInv => OpenQuoteHasFiles BY DEF IInv
<1> QED BY <1>1, Invariant, PTL

\* No model is an item of two quotations, deleted ones included.
THEOREM SoldOnce == Spec => []NoDoubleSale
<1>1. IInv => NoDoubleSale BY DEF IInv
<1> QED BY <1>1, Invariant, PTL

LEMMA StepFinished ==
  ASSUME IInv, Next, NEW q \in Quotes, Finished(q)
  PROVE  quote'[q].status \in Terminal \cup {"GONE"}
<1>t. TypeOK /\ Sold /\ Patching BY DEF IInv
<1>q. quote \in [Quotes -> QuoteRows] /\ quote[q] \in QuoteRows BY <1>t DEF TypeOK
<1>f. quote[q].status \in Terminal /\ quote[q] # NoQuote
  BY NotYet, Members DEF Finished, Terminal
<1>1. ASSUME UNCHANGED quote PROVE quote'[q].status \in Terminal \cup {"GONE"}
  BY <1>1, <1>f
<1>2. ASSUME NEW r \in Quotes, quote' = [quote EXCEPT ![r].status = "GONE"]
      PROVE  quote'[q].status \in Terminal \cup {"GONE"}
  BY <1>2, <1>q, <1>f DEF QuoteRows
<1>3. ASSUME NEW c \in Actors, Claim(c) PROVE quote'[q].status \in Terminal \cup {"GONE"}
  <2>1. CASE numbers' = numbers
    BY <1>1, <1>3, <1>t, <2>1, ClaimElse, QuotationAssumption DEF TypeOK
  <2>2. CASE numbers' # numbers
    <3>1. q # numbers + 1 BY <1>3, <1>f, <1>t, <2>2, ClaimEffect
    <3>2. quote'[q] = quote[q] BY <1>3, <1>t, <2>2, <3>1, ClaimEffect
    <3> QED BY <1>f, <3>2
  <2> QED BY <2>1, <2>2
<1>4. ASSUME NEW p \in Actors, Patch(p) PROVE quote'[q].status \in Terminal \cup {"GONE"}
  <2>1. CASE Unmoved(p) /\ web[p].quote = q
    <3>1. web[p].want \in Terminal BY <1>4, <1>f, <1>t, <2>1 DEF Patch, Patching, Unmoved
    <3>2. quote' = [quote EXCEPT ![q].status = web[p].want] BY <1>4, <2>1 DEF Patch
    <3> QED BY <1>q, <3>1, <3>2 DEF QuoteRows
  <2>2. CASE Unmoved(p) /\ web[p].quote # q
    <3>1. quote'[q] = quote[q] BY <1>4, <1>q, <2>2 DEF Patch
    <3> QED BY <1>f, <3>1
  <2>3. CASE ~Unmoved(p) BY <1>1, <1>4, <2>3 DEF Patch
  <2> QED BY <2>1, <2>2, <2>3
<1>5. ASSUME NEW p \in Actors, DeleteQuote(p) PROVE quote'[q].status \in Terminal \cup {"GONE"}
  <2>1. CASE quote' = [quote EXCEPT ![web[p].quote].status = "GONE"]
    <3>1. CASE web[p].quote \in Quotes BY <1>2, <2>1, <3>1
    <3>2. CASE web[p].quote \notin Quotes BY <1>1, <1>q, <2>1, <3>2
    <3> QED BY <3>1, <3>2
  <2> QED BY <1>1, <1>5, <2>1 DEF DeleteQuote
<1>6. CASE WebAct
  BY <1>1, <1>3, <1>4, <1>5, <1>6
     DEF WebAct, store, BeginCheckout, BeginClear, ReadForDelete, ReadStatus, WebStep, WebDies,
         WebDropRow, WebUnlink, WebFinish
<1>7. CASE SweepAct
  <2>1. ASSUME NEW r \in Quotes, DeleteRecord(r)
        PROVE  quote'[q].status \in Terminal \cup {"GONE"}
    BY <1>1, <1>2, <2>1 DEF DeleteRecord
  <2> QED
    BY <1>1, <1>7, <2>1
       DEF SweepAct, store, SweepStep, SweepDies, StartSweep, SweepDropRow, SweepUnlink,
           StartFiles, CheckFile, ClearPath, StartRecords, RecordDone, ListFiles, ResolveKeep,
           UnlinkOrphan, EndSweep
<1>8. CASE IngestAct \/ TimeAct
  BY <1>1, <1>8, IngestKeeps DEF TimeAct, AgeUpload, AgeQuote, AgeFile
<1> QED BY <1>6, <1>7, <1>8, NextSplit

\* Two racing status changes never reopen a finished quotation.
THEOREM FinishedForGood == Spec => FinishedStaysFinished
<1>1. IInv /\ [Next]_vars =>
        [\A q \in Quotes : Finished(q) => quote'[q].status \in Terminal \cup {"GONE"}]_vars
  BY StepFinished
<1> QED BY <1>1, Invariant, PTL DEF Spec, FinishedStaysFinished
=============================================================================
