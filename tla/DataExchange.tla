---------------------------- MODULE DataExchange ----------------------------
(* The administrator's data exchange, internal/application/adminsettings        *)
(* (service.go), its handler and adapter/postgres/                              *)
(* admin_settings_repository.go: chosen tables of one database go into a        *)
(* sanitized JSON file, one query a table while the program works on, and the   *)
(* file into another database, in one transaction of many statements. A row is  *)
(* its table, its id and what it refers to; columns, JSON, sizes in bytes and   *)
(* the limits of a row are left out, and so are the tables that differ from     *)
(* these in nothing but their columns.                                          *)
EXTENDS Naturals, Sequences, FiniteSets, SequencesExt, FiniteSetsExt

CONSTANTS
  Accounts,      \* the users of the database that exports
  KnownAccounts, \* those the other database has too
  BatchRows,     \* rows of one statement
  MaxFileRows,   \* rows of a file
  MaxRosterChanges   \* bound: joins and leaves while a file is made or read

VARIABLES source, target, exchange

exchangeVars == <<source, target, exchange>>

-----------------------------------------------------------------------------
(* Rows. The class K1 is in the file, K9 in the other database only.           *)
Row(table, id, of, who, open) == [table |-> table, id |-> id, of |-> of, who |-> who, open |-> open]
None == <<>>
ClassRow(k) == Row("classes", k, None, "", FALSE)
EnrollmentRow(i, k, s) == Row("class_enrollments", i, k, s, FALSE)
HistoryRow(i, k, s, open) == Row("class_enrollment_history", i, k, s, open)
SessionRow(i, s) == Row("learning_sessions", i, None, s, FALSE)
MessageRow(i, n) == Row("session_messages", i, n, "", FALSE)
SettingRow(k) == Row("system_settings", <<0, k>>, None, "", FALSE)
Sensitive == SettingRow("smtp_password")   \* sensitiveSystemSettingKeys
Redacted == <<0, "[REDACTED]">>
K1 == <<1, "class">>
K9 == <<9, "class">>
N1 == <<1, "session">>

ImportOrder == <<"system_settings", "classes", "class_enrollments", "class_enrollment_history",
                 "learning_sessions", "session_messages">>
ExportOrder == <<"class_enrollment_history", "class_enrollments", "classes",
                 "learning_sessions", "session_messages", "system_settings">>
Tables == ToSet(ImportOrder)
RowsOf(db, table) == {r \in db : r.table = table}
Enrolled(i, k, s) == {EnrollmentRow(i, k, s), HistoryRow(i, k, s, TRUE)}

NewExchange == [phase |-> "idle", tables |-> {}, left |-> <<>>, file |-> {}, rows |-> <<>>,
                queue |-> <<>>, staged |-> {}, oddity |-> "none", calm |-> TRUE, changes |-> 0,
                imported |-> 0, skipped |-> 0, failed |-> 0]

ExchangeInit ==
  \E s \in KnownAccounts, elsewhere \in BOOLEAN :
     /\ source = {ClassRow(K1), SessionRow(N1, s), MessageRow(<<1, "message">>, N1), SettingRow("name"),
                  Sensitive}
                 \cup UNION {Enrolled(<<1, u>>, K1, u) : u \in Accounts}
     /\ target = {ClassRow(K9), SettingRow("name")}
                 \cup IF elsewhere THEN Enrolled(<<9, s>>, K9, s) ELSE {}
     /\ exchange = NewExchange

-----------------------------------------------------------------------------
(* Export.                                                                    *)
Proceed(phase, changes) ==
  /\ exchange.phase = phase
  /\ exchange' = changes @@ exchange
ExportData ==
  /\ \E chosen \in SUBSET Tables \ {{}} :
        Proceed("idle", [phase |-> "exporting", tables |-> chosen,
                    left |-> SelectSeq(ExportOrder, LAMBDA t : t \in chosen)])
  /\ UNCHANGED <<source, target>>

\* normalizeExportValue redacts what is named like a credential: a session's id, too.
Exported(r) == IF r.table = "session_messages" THEN [r EXCEPT !.of = Redacted] ELSE r
ExportTable ==
  LET rows == {Exported(r) : r \in RowsOf(source, Head(exchange.left)) \ {Sensitive}}
  IN /\ exchange.left # <<>>
     /\ Proceed("exporting", [file |-> exchange.file \cup rows, left |-> Tail(exchange.left)])
     /\ UNCHANGED <<source, target>>
\* writeDataExportResponse: the file is sent when it is whole.
FinishExport ==
  /\ exchange.left = <<>>
  /\ Proceed("exporting", [phase |-> "file"])
  /\ UNCHANGED <<source, target>>

-----------------------------------------------------------------------------
(* Import: everything is read and checked before the first statement.          *)
\* A file may also be of an older version, of another kind, or made by hand; a table the
\* program does not know is left out and named in the answer.
Oddities == {"none", "malformed", "users", "backup", "notSanitized", "sensitive"}
RowsRead(oddity) == exchange.file \cup IF oddity = "sensitive" THEN {Sensitive} ELSE {}
NoExchangeFile(oddity) == oddity \in {"malformed", "users", "backup", "notSanitized"}
TooLarge(rows) == Cardinality(rows) > MaxFileRows
InImportOrder(rows) ==
  FlattenSeq([i \in DOMAIN ImportOrder |-> SetToSeq(RowsOf(rows, ImportOrder[i]))])
ImportData ==
  \E oddity \in Oddities :
     LET rows == RowsRead(oddity)
         refused == NoExchangeFile(oddity) \/ TooLarge(rows)
     IN /\ Proceed("file", [phase |-> IF refused THEN "refused" ELSE "importing",
                            rows |-> InImportOrder(rows), oddity |-> oddity])
        /\ UNCHANGED <<source, target>>

\* importRows: rows of one table, as many as a statement takes; a sensitive setting is
\* skipped.
Filtered(r) == r = Sensitive
BatchOf(rows) ==
  LET fits(n) == n <= BatchRows /\ \A i \in 1..n : rows[i].table = rows[1].table /\ ~Filtered(rows[i])
  IN SubSeq(rows, 1, Max({n \in 0..Len(rows) : fits(n)}))
NextBatch ==
  LET rows == exchange.rows
      n == Len(BatchOf(rows))
  IN /\ exchange.queue = <<>> /\ rows # <<>>
     /\ IF Filtered(Head(rows))
        THEN Proceed("importing", [rows |-> Tail(rows), skipped |-> exchange.skipped + 1])
        ELSE Proceed("importing", [queue |-> <<BatchOf(rows)>>, rows |-> SubSeq(rows, n + 1, Len(rows))])
     /\ UNCHANGED <<source, target>>

\* The constraints of the database.
Conflict(r, x) ==
  /\ r.table = x.table
  /\ \/ r.id = x.id
     \/ r.table = "class_enrollments" /\ r.who = x.who
     \/ r.table = "class_enrollment_history" /\ r.open /\ x.open /\ r.who = x.who
Refers(r, db, accounts) ==
  /\ r.table \in {"class_enrollments", "class_enrollment_history"} => ClassRow(r.of) \in db
  /\ r.table = "session_messages" => \E x \in RowsOf(db, "learning_sessions") : x.id = r.of
  /\ r.who # "" => r.who \in accounts

\* execImportRows: INSERT ... ON CONFLICT DO NOTHING under a savepoint.
Inserted(rows, db) ==
  FoldSeq(LAMBDA r, acc : IF \E x \in db \cup acc : Conflict(r, x) THEN acc ELSE acc \cup {r}, {}, rows)
\* importRowBatch: a statement that fails for its data is repeated row by row.
ImportRowBatch ==
  LET rows == Head(exchange.queue)
      db == target \cup exchange.staged
      new == Inserted(rows, db)
      holds == \A r \in new : Refers(r, db \cup new, KnownAccounts)
      rest == Tail(exchange.queue)
  IN /\ exchange.queue # <<>>
     /\ IF holds THEN
          Proceed("importing", [queue |-> rest, staged |-> exchange.staged \cup new,
                           imported |-> exchange.imported + Cardinality(new),
                           skipped |-> exchange.skipped + Len(rows) - Cardinality(new)])
        ELSE IF Len(rows) = 1 THEN
          Proceed("importing", [queue |-> rest, failed |-> exchange.failed + 1])
        ELSE Proceed("importing", [queue |-> [i \in DOMAIN rows |-> <<rows[i]>>] \o rest])
     /\ UNCHANGED <<source, target>>

Commit ==
  /\ exchange.rows = <<>> /\ exchange.queue = <<>>
  /\ Proceed("importing", [phase |-> "done"])
  /\ target' = target \cup exchange.staged
  /\ UNCHANGED source
\* rollbackImportTransaction: a lost connection, a cancelled request, a failed savepoint
\* or commit; an export ends without a file.
RollbackImportTransaction ==
  /\ exchange.phase \in {"exporting", "importing"}
  /\ exchange' = [NewExchange EXCEPT !.phase = "failed"]
  /\ UNCHANGED <<source, target>>

-----------------------------------------------------------------------------
(* Students join and leave classes of both databases. An insert waits while an  *)
(* uncommitted row stands in its way.                                          *)
Roster(db) == RowsOf(db, "class_enrollments")
Left(db, e) == (db \ {e, HistoryRow(e.id, e.of, e.who, TRUE)}) \cup {HistoryRow(e.id, e.of, e.who, FALSE)}
Changes ==
  /\ exchange.changes < MaxRosterChanges
  /\ exchange' = [exchange EXCEPT !.changes = @ + 1, !.calm = FALSE]
SourceRoster ==
  /\ exchange.phase = "exporting" /\ Changes
  /\ \/ \E e \in Roster(source) : source' = Left(source, e)
     \/ \E s \in Accounts :
           /\ ~ \E x \in source : x.who = s /\ (x.table = "class_enrollments" \/ x.open)
           /\ source' = source \cup Enrolled(<<2, s>>, K1, s)
  /\ UNCHANGED target
TargetRoster ==
  /\ exchange.phase = "importing" /\ Changes
  /\ \/ \E e \in Roster(target) : target' = Left(target, e)
     \/ \E s \in KnownAccounts :
           LET new == Enrolled(<<8, s>>, K9, s)
           IN /\ \A r \in new, x \in target \cup exchange.staged : ~Conflict(r, x)
              /\ target' = target \cup new
  /\ UNCHANGED source

ExchangeNext ==
  \/ ExportData \/ ExportTable \/ FinishExport
  \/ ImportData \/ NextBatch \/ ImportRowBatch \/ Commit \/ RollbackImportTransaction
  \/ SourceRoster \/ TargetRoster

-----------------------------------------------------------------------------
(* Invariants.                                                                *)
Imported == exchange.phase = "done"

\* Every row of the file is counted once, and as what became of it: the answer to the
\* administrator adds up however often a statement was repeated (mergeImportResult).
EveryRowIsCounted ==
  Imported =>
    /\ exchange.imported = Cardinality(exchange.staged)
    /\ exchange.imported + exchange.skipped + exchange.failed =
         Cardinality(exchange.file) + (IF exchange.oddity = "sensitive" THEN 1 ELSE 0)

\* A row the database cannot take costs no other row its place: when no one joined or left
\* a class meanwhile, each row whose references are there is there, or one that it would
\* have contradicted (importRowBatch).
GoodRowsArrive ==
  Imported /\ exchange.calm =>
    \A r \in exchange.file : Refers(r, target, KnownAccounts) => r \in target \/ \E x \in target : Conflict(r, x)

\* A student is on a class's roster exactly while the history has an open row of it, after
\* an import of both tables from a file that was made and read while no one joined or left.
RosterAgreesWithHistory ==
  LET roster == {<<e.id, e.who>> : e \in Roster(target)}
      open == {<<h.id, h.who>> : h \in {x \in RowsOf(target, "class_enrollment_history") : x.open}}
  IN Imported /\ exchange.calm
       /\ {"class_enrollments", "class_enrollment_history"} \subseteq exchange.tables =>
         roster = open

\* No secret leaves the database or comes into it, and a message leaves without the
\* session it belongs to.
SecretsStay ==
  /\ Sensitive \notin exchange.file \cup target
  /\ \A r \in RowsOf(exchange.file, "session_messages") : r.of = Redacted
  /\ RowsOf(target, "session_messages") = {}

ExchangeHolds == EveryRowIsCounted /\ GoodRowsArrive /\ RosterAgreesWithHistory /\ SecretsStay
=============================================================================
