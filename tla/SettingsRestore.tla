--------------------------- MODULE SettingsRestore ---------------------------
(***************************************************************************)
(* The settings that hold secrets, and the restore of a settings backup    *)
(* over them: shipping (one Shiprocket account and its password) and mail  *)
(* (a Resend key or the password of an SMTP server), with the tax row for  *)
(* every section that holds none.  A secret is sealed with the install's   *)
(* SESSION_SECRET and shut for good when that changes.  A backup carries   *)
(* no secrets: a restore merges each service with the row it finds, and    *)
(* reports what it restored and which secrets are to be entered again.     *)
(***************************************************************************)
EXTENDS FiniteSets, Naturals

CONSTANTS
  Accounts,   \* Shiprocket accounts; each stands for its right password, too
  Hosts,      \* SMTP servers
  EnvAccount, \* the account of the server environment, or None
  EnvMail,    \* the environment's Resend configuration: "none", "key" (with nobody to
              \* send to) or "live"
  None,
  MaxSaves,   \* bound: saves of the settings pages
  MaxRotates, \* bound: changes of the SESSION_SECRET
  MaxRestores \* bound: restores

VARIABLES
  settings,   \* the rows of the three sections
  file,       \* the backup at hand: its sections, secrets blanked
  restore,    \* the restore request: where it is, its report
  before,     \* the rows when it began
  touched,    \* the sections another writer changed since
  blind,      \* the sections whose configuration it could not read
  steps       \* how many saves, rotations and restores there were

vars == <<settings, file, restore, before, touched, blind, steps>>

Sections == {"tax", "shipping", "mail"}
SealedSections == {"shipping", "mail"}
NoSecret == "none"
NoSealed == [of |-> NoSecret, shut |-> FALSE]
Providers == {"resend", "smtp"}
NoReport == [restored |-> {}, skipped |-> {}, reenter |-> {}]
Unset == [set |-> FALSE]

\* The secret that the chosen account needs.
secretOf(s, row) ==
  IF s = "shipping" THEN row.password ELSE IF row.provider = "smtp" THEN row.pass ELSE row.key

\* fromEnv().live: the environment's own configuration works.
EnvLive(s) == IF s = "shipping" THEN EnvAccount # None ELSE EnvMail = "live"

\* resolveShippingConfig(...).live and resolveMailConfig(...).live: what is saved wins.
Live(s, row) ==
  IF row.set THEN row.on /\ secretOf(s, row) # NoSealed /\ ~secretOf(s, row).shut
             ELSE EnvLive(s)

Init ==
  /\ settings = [s \in Sections |-> Unset]
  /\ file = <<>>
  /\ restore = [at |-> "idle", report |-> NoReport]
  /\ before = settings /\ touched = {} /\ blind = {}
  /\ steps = [save |-> 0, rotate |-> 0, restore |-> 0]

Counted(kind, bound) ==
  /\ steps[kind] < bound
  /\ steps' = [steps EXCEPT ![kind] = @ + 1]

-----------------------------------------------------------------------------
(* The settings pages.                                                     *)

Sealed(secret) == [of |-> secret, shut |-> FALSE]
Opened(sealed) == IF sealed.shut THEN NoSecret ELSE sealed.of

Saved(s, row) ==
  /\ settings' = [settings EXCEPT ![s] = row]
  /\ touched' = touched \cup {s}
  /\ Counted("save", MaxSaves)
  /\ UNCHANGED <<file, restore, before, blind>>

SaveTax == \E v \in {"a", "b"} : Saved("tax", [set |-> TRUE, rate |-> v])

\* PUT /api/admin/shipping: a blank password keeps the one in use; a new login is
\* tried, unless the estimator is switched off, and Shiprocket takes only the right one.
SaveShipping ==
  \E on \in BOOLEAN, account \in Accounts, typed \in Accounts \cup {NoSecret} :
    LET row == settings["shipping"]
        current == IF row.set
                     THEN [account |-> row.account, password |-> Opened(row.password)]
                     ELSE [account |-> EnvAccount, password |-> IF EnvAccount = None THEN NoSecret ELSE EnvAccount]
        password == IF typed # NoSecret THEN typed ELSE current.password
        newLogin == account # current.account \/ typed # NoSecret
    IN /\ on => password # NoSecret
       /\ on /\ newLogin => password = account
       /\ Saved("shipping", [set |-> TRUE, on |-> on, account |-> account, password |-> Sealed(password)])

\* PUT /api/admin/mail: both secrets are kept when they are not typed; a first save
\* keeps the environment's key.
SaveMail ==
  \E on \in BOOLEAN, provider \in Providers, host \in Hosts, typed \in SUBSET {"key", "pass"} :
    LET row == settings["mail"]
        kept(k) == IF row.set THEN Opened(row[k])
                   ELSE IF k = "key" /\ EnvMail # "none" THEN k ELSE NoSecret
        secret(k) == IF k \in typed THEN k ELSE kept(k)
        next == [set |-> TRUE, on |-> on, provider |-> provider, host |-> host,
                 key |-> Sealed(secret("key")), pass |-> Sealed(secret("pass"))]
    IN /\ on => secretOf("mail", next) # NoSealed
       /\ Saved("mail", next)

\* The install gets another SESSION_SECRET: what is sealed stays shut.
Rotate ==
  LET shut(sealed) == IF sealed = NoSealed THEN NoSealed ELSE [sealed EXCEPT !.shut = TRUE]
      ship == settings["shipping"]
      mail == settings["mail"]
  IN /\ restore.at = "idle"
     /\ Counted("rotate", MaxRotates)
     /\ settings' = [settings EXCEPT
          !["shipping"] = IF ship.set THEN [ship EXCEPT !.password = shut(@)] ELSE ship,
          !["mail"] = IF mail.set THEN [mail EXCEPT !.key = shut(@), !.pass = shut(@)] ELSE mail]
     /\ UNCHANGED <<file, restore, before, touched, blind>>

-----------------------------------------------------------------------------
(* Backup and restore.                                                     *)

\* exportSection: the row as it is stored, secrets blanked.
exportSection(s, row) ==
  CASE s = "shipping" -> [row EXCEPT !.password = NoSealed]
    [] s = "mail" -> [row EXCEPT !.key = NoSealed, !.pass = NoSealed]
    [] OTHER -> row

\* buildBackup: only the sections that have been saved.
Export ==
  /\ restore.at = "idle"
  /\ file' = [s \in {x \in Sections : settings[x].set} |-> exportSection(s, settings[s])]
  /\ file' # file
  /\ UNCHANGED <<settings, restore, before, touched, blind, steps>>

\* The file is read on an install that has none of its own settings yet.
Reinstall ==
  /\ restore.at = "idle" /\ file # <<>>
  /\ settings' = [s \in Sections |-> Unset]
  /\ settings' # settings
  /\ UNCHANGED <<file, restore, before, touched, blind, steps>>

\* restoreBackup: the whole file is checked before anything is written; what was
\* edited in it by hand may be refused, whole.
Begin ==
  /\ restore.at = "idle" /\ DOMAIN file # {}
  /\ Counted("restore", MaxRestores)
  /\ restore' = [at |-> "tax", report |-> NoReport]
  /\ before' = settings /\ touched' = {} /\ blind' = {}
  /\ UNCHANGED <<settings, file>>

After(s) == CASE s = "tax" -> "shipping" [] s = "shipping" -> "mail" [] s = "mail" -> "answer"

\* A section the file does not have.
Absent ==
  /\ restore.at \in Sections \ DOMAIN file
  /\ restore' = [restore EXCEPT !.at = After(@)]
  /\ UNCHANGED <<settings, file, before, touched, blind, steps>>

RestorePlain ==
  /\ restore.at = "tax" /\ "tax" \in DOMAIN file
  /\ settings' = [settings EXCEPT !["tax"] = file["tax"]]
  /\ restore' = [restore EXCEPT !.at = After(@), !.report.restored = @ \cup {"tax"}]
  /\ UNCHANGED <<file, before, touched, blind, steps>>

\* mergeShipping and mergeMail: the row's own secret where the account matches.
Merged(s, row, incoming) ==
  IF s = "shipping"
    THEN [incoming EXCEPT !.password =
            IF row.set /\ row.account = incoming.account THEN row.password ELSE NoSealed]
    ELSE [incoming EXCEPT
            !.key = IF row.set /\ row.provider = "resend" /\ incoming.provider = "resend" THEN row.key ELSE NoSealed,
            !.pass = IF row.set /\ row.provider = "smtp" /\ incoming.provider = "smtp" /\ row.host = incoming.host
                       THEN row.pass ELSE NoSealed]

\* Mutant: what works is overwritten, too.
KeepsOwn_Never(live, s, merged) == FALSE

\* Restoring without the secret would switch a working service off.
KeepsOwn(live, s, merged) == secretOf(s, merged) = NoSealed /\ merged.on /\ live

\* Mutant: the section that was left alone counts as restored.
Skipped_Restored(report, s) == [report EXCEPT !.skipped = @ \cup {s}, !.restored = @ \cup {s}]

Skipped(report, s) == [report EXCEPT !.skipped = @ \cup {s}]

\* The row and the configuration in use are read, the latter by a read of its own that
\* falls back on the environment when the database fails it ...
Merge ==
  /\ restore.at \in SealedSections \cap DOMAIN file
  /\ LET s == restore.at
         merged == Merged(s, settings[s], file[s])
         report == restore.report
     IN \E live \in {Live(s, settings[s]), EnvLive(s)} :
          /\ blind' = IF live = Live(s, settings[s]) THEN blind ELSE blind \cup {s}
          /\ restore' =
               IF KeepsOwn(live, s, merged)
                 THEN [at |-> After(s), report |-> Skipped(report, s)]
                 ELSE [at |-> "write", section |-> s, row |-> merged,
                       report |-> IF merged.on /\ secretOf(s, merged) = NoSealed
                                    THEN [report EXCEPT !.reenter = @ \cup {s}] ELSE report]
  /\ UNCHANGED <<settings, file, before, touched, steps>>

\* ... and the merged row is written, over whatever was saved in between.
RestoreService ==
  /\ restore.at = "write"
  /\ settings' = [settings EXCEPT ![restore.section] = restore.row]
  /\ restore' = [at |-> After(restore.section),
                 report |-> [restore.report EXCEPT !.restored = @ \cup {restore.section}]]
  /\ UNCHANGED <<file, before, touched, blind, steps>>

\* The database fails, or the process stops: what was written stays.
RestoreDies ==
  /\ restore.at \notin {"idle", "answer"}
  /\ restore' = [at |-> "idle", report |-> NoReport]
  /\ UNCHANGED <<settings, file, before, touched, blind, steps>>

Answer ==
  /\ restore.at = "answer"
  /\ restore' = [at |-> "idle", report |-> NoReport]
  /\ UNCHANGED <<settings, file, before, touched, blind, steps>>

-----------------------------------------------------------------------------
Next ==
  \/ SaveTax \/ SaveShipping \/ SaveMail \/ Rotate
  \/ Export \/ Reinstall \/ Begin
  \/ Absent \/ RestorePlain \/ Merge \/ RestoreService \/ RestoreDies \/ Answer

Spec == Init /\ [][Next]_vars

-----------------------------------------------------------------------------
TypeOK ==
  /\ DOMAIN settings = Sections /\ DOMAIN file \subseteq Sections
  /\ restore.at \in Sections \cup {"idle", "write", "answer"}
  /\ restore.report \in [restored : SUBSET Sections, skipped : SUBSET SealedSections, reenter : SUBSET SealedSections]
  /\ touched \subseteq Sections /\ blind \subseteq SealedSections
  /\ steps \in [save : 0..MaxSaves, rotate : 0..MaxRotates, restore : 0..MaxRestores]

\* Sections that only the restore has written, when it answers.
Answering(s) == restore.at = "answer" /\ s \in DOMAIN file /\ s \notin touched

\* A service that worked, and that the backup wants on, works after the restore
\* (settings-backup.ts:206-210, :225-228), by what is saved or by the environment,
\* unless the read that would have shown it working failed.
WorkingKept ==
  \A s \in SealedSections \ blind :
    Answering(s) /\ Live(s, before[s]) /\ file[s].on => Live(s, settings[s])

\* The report is true of the rows: a section it names as restored says what the file
\* says, and one it does not name is as it was (settings-backup.ts:274-313).
ReportTrue ==
  \A s \in Sections :
    Answering(s) =>
      IF s \in restore.report.restored
        THEN exportSection(s, settings[s]) = file[s]
        ELSE settings[s] = before[s]

\* "A restore keeps the install's own where the account matches, and says which to
\* re-enter" (settings-backup.ts:48): what is on and does not work is named.
ReentryTold ==
  \A s \in SealedSections :
    Answering(s) /\ s \in restore.report.restored /\ settings[s].on /\ ~Live(s, settings[s])
      => s \in restore.report.reenter

\* "A new API user (or password) is tried once before customers depend on it"
\* (api/admin/shipping/route.ts:59): the login in use is one Shiprocket takes.
LoginTried ==
  LET row == settings["shipping"]
  IN row.set /\ Live("shipping", row) => row.password.of = row.account

\* A restore keeps what worked, and its report is true of what it left.
RestoredHonestly == TypeOK /\ WorkingKept /\ ReportTrue
=============================================================================
