------------------------------ MODULE DumpText ------------------------------
(***************************************************************************)
(* The two readers of plain-text dumps in internal/backup, line by line:   *)
(* restoreCopy drops ownership and privilege statements of an upload, and  *)
(* MeasureDump counts the rows of each table.  Both decide by how a line   *)
(* looks, and must never take a line of table data for a statement.  The   *)
(* writer of the dump (pg_dump, or whoever made the upload) is external.   *)
(***************************************************************************)
EXTENDS Naturals, FiniteSets

CONSTANTS
  Tables,      \* tables of the dump
  Columnless,  \* those without columns, whose COPY headers have no list
  NoTable,     \* no COPY block at hand
  Inside,      \* what a line inside a statement of several lines looks like
  MaxLines     \* bound on the lines of a dump

Looks == {"header", "bare", "insert", "privilege", "end", "plain"}

ASSUME DumpTextAssumption ==
  /\ Columnless \subseteq Tables /\ NoTable \notin Tables
  /\ Inside \subseteq Looks /\ MaxLines \in Nat

VARIABLES
  context,   \* the writer's: where the next line belongs
  table,     \* the writer's: table of the COPY block
  rows,      \* the writer's: rows written of each table
  line,      \* the last line read: its look, what it is, whether it was kept
  skipping,  \* restoreCopy: inCopy
  inCopy,    \* MeasureDump: inCopy
  current,   \* MeasureDump: table of the block
  metrics,   \* MeasureDump: LineCount of the tables seen
  result,    \* what became of the measurement
  lines      \* count, for the bound

writer == <<context, table, rows>>
measure == <<inCopy, current, metrics>>
dumpVars == <<writer, line, skipping, measure, result, lines>>

Roles == {"none", "privilege", "statement", "data", "terminator"}

DumpTypeOK ==
  /\ context \in {"top", "copy", "statement"}
  /\ table \in Tables \union {NoTable} /\ rows \in [Tables -> 0..MaxLines]
  /\ line \in [look: Looks, role: Roles, kept: BOOLEAN]
  /\ skipping \in BOOLEAN /\ inCopy \in BOOLEAN
  /\ current \in Tables \union {NoTable}
  /\ inCopy <=> current # NoTable
  /\ DOMAIN metrics \subseteq Tables
  /\ \A t \in DOMAIN metrics : metrics[t] \in 0..MaxLines
  /\ result \in {"reading", "measured", "refused"}
  /\ lines \in 0..MaxLines

DumpInit ==
  /\ context = "top" /\ table = NoTable /\ rows = [t \in Tables |-> 0]
  /\ line = [look |-> "plain", role |-> "none", kept |-> TRUE]
  /\ skipping = FALSE
  /\ inCopy = FALSE /\ current = NoTable /\ metrics = [t \in {} |-> 0]
  /\ result = "reading" /\ lines = 0

-----------------------------------------------------------------------------
(* restoreCopy.                                                            *)

\* Mutant of Keep: privilege statements are recognised within COPY data, too.
KeepByLook(look) == look # "privilege"

Keep(look) == skipping \/ look # "privilege"

\* Mutant of Filter: a header without a list of columns begins no block.
FilterByColumns(look) ==
  skipping' = IF skipping THEN look # "end" ELSE look = "header"

\* Only the terminator ends a block; a header begins one, with columns or not.
Filter(look) ==
  skipping' = IF skipping THEN look # "end" ELSE look \in {"header", "bare"}

-----------------------------------------------------------------------------
(* MeasureDump.                                                            *)

CountOf(t) == IF t \in DOMAIN metrics THEN metrics[t] ELSE 0

\* A table is entered when it is first seen, and its rows add up.
Counting(t, n) ==
  metrics' = [u \in DOMAIN metrics \union {t} |->
                IF u = t THEN CountOf(t) + n ELSE metrics[u]]

\* Mutant of CountedInCopy: the terminator counts as a row.
CountedWithTerminator(look) == TRUE

\* "only the terminator is special".
CountedInCopy(look) == look # "end"

BlockAfter(look) == IF look = "end" THEN NoTable ELSE current

\* Within a block: a row, or its end.
MeasureInCopy(look) ==
  /\ inCopy
  /\ Counting(current, IF CountedInCopy(look) THEN 1 ELSE 0)
  /\ inCopy' = (look # "end")
  /\ current' = BlockAfter(look)

\* copyTable wants a list of columns; insertTable finds the table itself.
MeasureOutside(look, t) ==
  /\ ~inCopy
  /\ CASE look = "header" -> Counting(t, 0) /\ inCopy' = TRUE /\ current' = t
       [] look = "insert" -> Counting(t, 1) /\ UNCHANGED <<inCopy, current>>
       [] OTHER -> UNCHANGED measure

-----------------------------------------------------------------------------
(* The writer.                                                             *)

\* One line: both readers read it.
Read(look, t, role) ==
  /\ result = "reading" /\ lines < MaxLines
  /\ lines' = lines + 1
  /\ line' = [look |-> look, role |-> role, kept |-> Keep(look)]
  /\ Filter(look)
  /\ MeasureInCopy(look) \/ MeasureOutside(look, t)
  /\ UNCHANGED result

Wrote(t) == rows' = [rows EXCEPT ![t] = @ + 1]

\* COPY t (...) FROM stdin;
CopyBegins(t) ==
  /\ context = "top" /\ context' = "copy" /\ table' = t
  /\ Read(IF t \in Columnless THEN "bare" ELSE "header", t, "statement")
  /\ UNCHANGED rows

\* A data line may look like anything but the terminator, which is escaped; the
\* rows of a table without columns are empty lines.
CopyRow ==
  /\ context = "copy"
  /\ \E look \in Looks \ {"end"}, t \in Tables :
       /\ table \in Columnless => look = "plain"
       /\ Read(look, t, "data")
  /\ Wrote(table)
  /\ UNCHANGED <<context, table>>

CopyEnds ==
  /\ context = "copy" /\ context' = "top" /\ table' = NoTable
  /\ Read("end", table, "terminator")
  /\ UNCHANGED rows

\* INSERT INTO t VALUES (...); a text value may take it over several lines.
Insert(t) ==
  /\ t \notin Columnless
  /\ context = "top" /\ context' \in {"top", "statement"}
  /\ Read("insert", t, "data")
  /\ Wrote(t)
  /\ UNCHANGED table

\* GRANT, REVOKE, ALTER DEFAULT PRIVILEGES and ALTER ... OWNER TO.
Privilege ==
  /\ context = "top"
  /\ \E t \in Tables : Read("privilege", t, "privilege")
  /\ UNCHANGED writer

\* Any other statement, of one line or several (the body of a function).
Statement ==
  /\ context = "top" /\ context' \in {"top", "statement"}
  /\ \E t \in Tables : Read("plain", t, "statement")
  /\ UNCHANGED <<table, rows>>

GoesOn ==
  /\ context = "statement" /\ context' \in {"top", "statement"}
  /\ \E look \in Inside, t \in Tables : Read(look, t, "statement")
  /\ UNCHANGED <<table, rows>>

\* Mutant of Terminated: a block that is cut counts as if it had ended.
NeverRefused == TRUE

\* "COPY block ... is not terminated".
Terminated == ~inCopy

\* The end of the file, where the dump ends or was cut.
EndOfFile ==
  /\ result = "reading"
  /\ result' = IF Terminated THEN "measured" ELSE "refused"
  /\ UNCHANGED <<writer, line, skipping, measure, lines>>

DumpNext ==
  \/ \E t \in Tables : CopyBegins(t) \/ Insert(t)
  \/ CopyRow \/ CopyEnds \/ Privilege \/ Statement \/ GoesOn \/ EndOfFile

DumpSpec == DumpInit /\ [][DumpNext]_dumpVars

-----------------------------------------------------------------------------
(* Properties.                                                             *)

\* "COPY data blocks pass through untouched: a data line may legitimately start
\* with GRANT": what is dropped is exactly the ownership and privilege
\* statements, wherever they stand between the blocks of the dump.
DropsPrivilegesOnly == line.kept <=> line.role # "privilege"

\* What is measured is what was written: the rows of each table, however its
\* COPY blocks and INSERT statements are mixed.
CountsExact ==
  result = "measured" =>
    \A t \in Tables \ Columnless :
      /\ CountOf(t) = rows[t]
      /\ rows[t] > 0 => t \in DOMAIN metrics

\* "Truncated or unreadable input returns an error instead of a wrong count": a
\* dump cut within the data of a table is never measured.
CutDataRefused ==
  result = "measured" /\ context = "copy" => table \in Columnless

\* The readers know at every line whether they stand within table data.
ReadersTrackCopy ==
  /\ skipping <=> context = "copy"
  /\ current = IF table \in Columnless THEN NoTable ELSE table

BlockHasTable == context = "copy" <=> table # NoTable

\* No table has more rows than the dump has lines.
CountsBounded == \A t \in Tables : rows[t] <= lines /\ CountOf(t) <= lines

\* The counts are right after every line, not at the end alone.
CountedSoFar ==
  \A t \in Tables \ Columnless :
    CountOf(t) = rows[t] /\ (rows[t] > 0 => t \in DOMAIN metrics)

\* The inductive invariant: at every line both readers are in step with the
\* writer, whatever the lines look like.
DumpInv ==
  /\ DumpTypeOK /\ ReadersTrackCopy /\ BlockHasTable /\ CountsBounded
  /\ CountedSoFar
=============================================================================
