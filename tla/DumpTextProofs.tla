--------------------------- MODULE DumpTextProofs ----------------------------
(***************************************************************************)
(* Theorems about DumpText, for any tables and dumps of any length in      *)
(* which no line inside a statement looks like a header, an INSERT or a    *)
(* privilege statement (the hypothesis on Inside).                         *)
(***************************************************************************)
EXTENDS DumpText, TLAPS

\* Nothing is read and nothing counted at the start.
LEMMA InitInv == DumpInit => DumpInv
<1>. SUFFICES ASSUME DumpInit PROVE DumpInv
  OBVIOUS
<1>0. DOMAIN metrics = {}
  BY DEF DumpInit
<1>1. DumpTypeOK
  <2>1. line \in [look: Looks, role: Roles, kept: BOOLEAN]
    BY DEF DumpInit, Looks, Roles
  <2>2. rows \in [Tables -> 0..MaxLines] /\ lines \in 0..MaxLines
    BY DumpTextAssumption DEF DumpInit
  <2>. QED BY <1>0, <2>1, <2>2 DEF DumpInit, DumpTypeOK
<1>2. \A t \in Tables : CountOf(t) = 0 /\ rows[t] = 0
  BY <1>0 DEF DumpInit, CountOf
<1>3. CountsBounded /\ CountedSoFar
  BY <1>2 DEF DumpInit, CountsBounded, CountedSoFar
<1>4. ReadersTrackCopy /\ BlockHasTable
  BY DumpTextAssumption DEF DumpInit, ReadersTrackCopy, BlockHasTable
<1>. QED BY <1>1, <1>3, <1>4 DEF DumpInv

\* Counting adds to one table and leaves the others alone.
LEMMA CountingAdds ==
  ASSUME DumpTypeOK, NEW t \in Tables, NEW n \in 0..1, Counting(t, n)
  PROVE  /\ DOMAIN metrics' = DOMAIN metrics \union {t}
         /\ CountOf(t)' = CountOf(t) + n
         /\ \A u \in Tables : u # t => CountOf(u)' = CountOf(u)
<1>1. DOMAIN metrics' = DOMAIN metrics \union {t}
  BY DEF Counting
<1>2. metrics'[t] = CountOf(t) + n
  BY DEF Counting
<1>3. \A u \in DOMAIN metrics : u # t => metrics'[u] = metrics[u]
  BY DEF Counting
<1>. QED BY <1>1, <1>2, <1>3 DEF CountOf

\* A header and a terminator enter the table and count no row.
LEMMA CountingNothing ==
  ASSUME DumpTypeOK, NEW t \in Tables, Counting(t, 0)
  PROVE  /\ DOMAIN metrics' = DOMAIN metrics \union {t}
         /\ \A u \in Tables : CountOf(u)' = CountOf(u)
<1>1. CountOf(t) \in Nat
  BY DEF DumpTypeOK, CountOf
<1>2. /\ DOMAIN metrics' = DOMAIN metrics \union {t}
      /\ CountOf(t)' = CountOf(t) + 0
      /\ \A u \in Tables : u # t => CountOf(u)' = CountOf(u)
  BY CountingAdds
<1>. QED BY <1>1, <1>2

\* What MeasureDump makes of a line.
Enters(look, t) ==
  /\ ~inCopy /\ look = "header"
  /\ Counting(t, 0) /\ inCopy' = TRUE /\ current' = t
Inserts(look, t) ==
  ~inCopy /\ look = "insert" /\ Counting(t, 1) /\ UNCHANGED <<inCopy, current>>
Ignores(look) ==
  ~inCopy /\ look \notin {"header", "insert"} /\ UNCHANGED measure
Leaves(look) ==
  /\ inCopy /\ look = "end"
  /\ Counting(current, 0) /\ inCopy' = FALSE /\ current' = NoTable
CountsRow(look) ==
  /\ inCopy /\ look # "end"
  /\ Counting(current, 1) /\ inCopy' = TRUE /\ current' = current

\* A line is one of five things to MeasureDump.
LEMMA Measuring ==
  ASSUME NEW look, NEW t, NEW role, Read(look, t, role)
  PROVE  \/ Enters(look, t) \/ Inserts(look, t) \/ Ignores(look)
         \/ Leaves(look) \/ CountsRow(look)
<1>1. CASE MeasureInCopy(look)
  <2>1. CASE look = "end"
    BY <1>1, <2>1 DEF MeasureInCopy, CountedInCopy, BlockAfter, Leaves
  <2>2. CASE look # "end"
    BY <1>1, <2>2 DEF MeasureInCopy, CountedInCopy, BlockAfter, CountsRow
  <2>. QED BY <2>1, <2>2
<1>2. CASE MeasureOutside(look, t)
  BY <1>2 DEF MeasureOutside, Enters, Inserts, Ignores
<1>. QED BY <1>1, <1>2 DEF Read

\* A line counts one row at most, and the types are kept.
LEMMA ReadTypes ==
  ASSUME DumpTypeOK, CountsBounded,
         NEW look \in Looks, NEW t \in Tables, NEW role \in Roles,
         Read(look, t, role)
  PROVE  /\ line' \in [look: Looks, role: Roles, kept: BOOLEAN]
         /\ skipping' \in BOOLEAN /\ inCopy' \in BOOLEAN
         /\ current' \in Tables \union {NoTable}
         /\ inCopy' <=> current' # NoTable
         /\ DOMAIN metrics' \subseteq Tables
         /\ \A u \in DOMAIN metrics' : metrics'[u] \in 0..MaxLines
         /\ result' \in {"reading", "measured", "refused"}
         /\ lines' \in 0..MaxLines /\ lines' = lines + 1
         /\ \A u \in Tables : CountOf(u)' <= lines'
<1>1. /\ lines' \in 0..MaxLines /\ lines' = lines + 1 /\ lines \in 0..MaxLines
      /\ result' \in {"reading", "measured", "refused"}
  BY DumpTextAssumption DEF DumpTypeOK, Read
<1>2. line' \in [look: Looks, role: Roles, kept: BOOLEAN]
  BY DEF Read, Keep, DumpTypeOK
<1>3. skipping' \in BOOLEAN
  <2>1. CASE skipping
    BY <2>1 DEF Read, Filter
  <2>2. CASE ~skipping
    BY <2>2 DEF Read, Filter
  <2>. QED BY <2>1, <2>2
<1>4. \A u \in Tables : CountOf(u) \in Nat /\ CountOf(u) <= lines
  BY DEF CountsBounded, CountOf, DumpTypeOK
<1>5. ASSUME NEW v \in Tables, NEW n \in 0..1, Counting(v, n)
      PROVE  /\ DOMAIN metrics' \subseteq Tables
             /\ \A u \in Tables : CountOf(u)' \in Nat /\ CountOf(u)' <= lines'
             /\ \A u \in DOMAIN metrics' : metrics'[u] \in 0..MaxLines
  <2>1. /\ DOMAIN metrics' = DOMAIN metrics \union {v}
        /\ CountOf(v)' = CountOf(v) + n
        /\ \A u \in Tables : u # v => CountOf(u)' = CountOf(u)
    BY <1>5, CountingAdds
  <2>2. DOMAIN metrics' \subseteq Tables
    BY <2>1 DEF DumpTypeOK
  <2>3. CountOf(v)' \in Nat /\ CountOf(v)' <= lines'
    BY <1>1, <1>4, <2>1, DumpTextAssumption
  <2>4. \A u \in Tables : CountOf(u)' \in Nat /\ CountOf(u)' <= lines'
    BY <1>1, <1>4, <2>1, <2>3, DumpTextAssumption
  <2>5. \A u \in DOMAIN metrics' : metrics'[u] = CountOf(u)'
    BY DEF CountOf
  <2>. QED BY <1>1, <2>2, <2>4, <2>5, DumpTextAssumption
<1>6. CASE UNCHANGED measure
  BY <1>1, <1>2, <1>3, <1>4, <1>6, DumpTextAssumption
  DEF measure, DumpTypeOK, CountOf
<1>7. CASE Enters(look, t)
  BY <1>1, <1>2, <1>3, <1>5, <1>7, DumpTextAssumption DEF Enters
<1>8. CASE Inserts(look, t)
  BY <1>1, <1>2, <1>3, <1>5, <1>8 DEF Inserts, DumpTypeOK
<1>9. CASE Leaves(look) \/ CountsRow(look)
  <2>1. current \in Tables
    BY <1>9 DEF Leaves, CountsRow, DumpTypeOK
  <2>2. CASE Leaves(look)
    <3>1. inCopy' = FALSE /\ current' = NoTable
      BY <2>2 DEF Leaves
    <3>2. Counting(current, 0) /\ 0 \in 0..1
      BY <2>2 DEF Leaves
    <3>3. /\ DOMAIN metrics' \subseteq Tables
          /\ \A u \in Tables : CountOf(u)' \in Nat /\ CountOf(u)' <= lines'
          /\ \A u \in DOMAIN metrics' : metrics'[u] \in 0..MaxLines
      BY <1>5, <2>1, <3>2
    <3>. QED BY <1>1, <1>2, <1>3, <3>1, <3>3
  <2>3. CASE CountsRow(look)
    <3>1. inCopy' = TRUE /\ current' \in Tables /\ current' # NoTable
      BY <2>1, <2>3, DumpTextAssumption DEF CountsRow
    <3>2. Counting(current, 1) /\ 1 \in 0..1
      BY <2>3 DEF CountsRow
    <3>3. /\ DOMAIN metrics' \subseteq Tables
          /\ \A u \in Tables : CountOf(u)' \in Nat /\ CountOf(u)' <= lines'
          /\ \A u \in DOMAIN metrics' : metrics'[u] \in 0..MaxLines
      BY <1>5, <2>1, <3>2
    <3>. QED BY <1>1, <1>2, <1>3, <3>1, <3>3
  <2>. QED BY <1>9, <2>2, <2>3
<1>. QED BY <1>6, <1>7, <1>8, <1>9, Measuring DEF Ignores

-----------------------------------------------------------------------------
(* The inductive invariant.                                                *)

\* What is left of the invariant to show for a line.
LEMMA LineKeepsTypes ==
  ASSUME DumpInv, NEW look \in Looks, NEW t \in Tables, NEW role \in Roles,
         Read(look, t, role), NEW u \in Tables, UNCHANGED rows \/ Wrote(u),
         context' \in {"top", "copy", "statement"},
         table' \in Tables \union {NoTable}
  PROVE  DumpTypeOK' /\ CountsBounded'
<1>1. DumpTypeOK /\ CountsBounded /\ lines \in Nat
  BY DumpTextAssumption DEF DumpInv, DumpTypeOK
<1>2. /\ line' \in [look: Looks, role: Roles, kept: BOOLEAN]
      /\ skipping' \in BOOLEAN /\ inCopy' \in BOOLEAN
      /\ current' \in Tables \union {NoTable}
      /\ inCopy' <=> current' # NoTable
      /\ DOMAIN metrics' \subseteq Tables
      /\ \A v \in DOMAIN metrics' : metrics'[v] \in 0..MaxLines
      /\ result' \in {"reading", "measured", "refused"}
      /\ lines' \in 0..MaxLines /\ lines' = lines + 1
      /\ \A v \in Tables : CountOf(v)' <= lines'
  BY <1>1, ReadTypes
<1>3. \A v \in Tables : rows[v] \in Nat /\ rows[v] <= lines
  BY <1>1, DumpTextAssumption DEF DumpTypeOK, CountsBounded
<1>4. rows' \in [Tables -> 0..MaxLines] /\ \A v \in Tables : rows'[v] <= lines'
  <2>1. CASE UNCHANGED rows
    BY <1>1, <1>2, <1>3, <2>1 DEF DumpTypeOK
  <2>2. CASE Wrote(u)
    <3>1. \A v \in Tables : rows'[v] = IF v = u THEN rows[v] + 1 ELSE rows[v]
      BY <1>1, <2>2 DEF DumpTypeOK, Wrote
    <3>2. \A v \in Tables : rows'[v] \in 0..MaxLines /\ rows'[v] <= lines'
      BY <1>1, <1>2, <1>3, <3>1, DumpTextAssumption
    <3>. QED BY <1>1, <2>2, <3>2 DEF DumpTypeOK, Wrote
  <2>. QED BY <2>1, <2>2
<1>. QED BY <1>2, <1>4 DEF DumpTypeOK, CountsBounded

\* Outside the blocks.
LEMMA OutsideBlocks ==
  ASSUME DumpInv, context # "copy"
  PROVE  ~skipping /\ ~inCopy /\ table = NoTable /\ current = NoTable
BY DumpTextAssumption
   DEF DumpInv, DumpTypeOK, ReadersTrackCopy, BlockHasTable

\* Within a block, whose table MeasureDump knows if it has columns.
LEMMA WithinBlock ==
  ASSUME DumpInv, context = "copy"
  PROVE  /\ skipping /\ table \in Tables
         /\ current = IF table \in Columnless THEN NoTable ELSE table
         /\ inCopy <=> table \notin Columnless
BY DumpTextAssumption
   DEF DumpInv, DumpTypeOK, ReadersTrackCopy, BlockHasTable

\* A line that is no row and no header, between the blocks.
LEMMA OtherLine ==
  ASSUME DumpInv, context # "copy", context' # "copy",
         UNCHANGED <<table, rows>>,
         context' \in {"top", "statement"},
         NEW look \in {"plain", "end", "privilege"}, NEW t \in Tables,
         NEW role \in Roles, Read(look, t, role)
  PROVE  DumpInv'
<1>1. ~skipping /\ ~inCopy /\ table = NoTable /\ current = NoTable
  BY OutsideBlocks
<1>2. UNCHANGED measure
  BY <1>1, Measuring DEF Enters, Inserts, Ignores, Leaves, CountsRow
<1>3. ~skipping'
  <2>1. ~(look \in {"header", "bare"})
    OBVIOUS
  <2>. QED BY <1>1, <2>1 DEF Read, Filter
<1>4. DumpTypeOK' /\ CountsBounded'
  BY LineKeepsTypes, <1>1 DEF Looks
<1>5. ReadersTrackCopy' /\ BlockHasTable'
  BY <1>1, <1>2, <1>3, DumpTextAssumption
  DEF ReadersTrackCopy, BlockHasTable, measure
<1>6. CountedSoFar'
  BY <1>2 DEF DumpInv, CountedSoFar, CountOf, measure
<1>. QED BY <1>4, <1>5, <1>6 DEF DumpInv

\* COPY ... FROM stdin; both readers enter the block.
LEMMA HeaderLine ==
  ASSUME DumpInv, NEW t \in Tables, CopyBegins(t) PROVE DumpInv'
<1>. DEFINE look == IF t \in Columnless THEN "bare" ELSE "header"
<1>1. /\ context' = "copy" /\ table' = t /\ UNCHANGED rows
      /\ Read(look, t, "statement") /\ look \in Looks
  BY DEF CopyBegins, Looks
<1>2. ~skipping /\ ~inCopy /\ table = NoTable /\ current = NoTable
  BY OutsideBlocks DEF CopyBegins
<1>3. DumpTypeOK' /\ CountsBounded'
  BY <1>1, LineKeepsTypes DEF Roles
<1>4. skipping'
  BY <1>1, <1>2 DEF Read, Filter
<1>5. CASE t \in Columnless
  <2>1. UNCHANGED measure
    BY <1>1, <1>2, <1>5, Measuring
    DEF Enters, Inserts, Ignores, Leaves, CountsRow
  <2>2. ReadersTrackCopy' /\ BlockHasTable'
    BY <1>1, <1>2, <1>4, <1>5, <2>1, DumpTextAssumption
    DEF ReadersTrackCopy, BlockHasTable, measure
  <2>3. CountedSoFar'
    BY <1>1, <2>1 DEF DumpInv, CountedSoFar, CountOf, measure
  <2>. QED BY <1>3, <2>2, <2>3 DEF DumpInv
<1>6. CASE t \notin Columnless
  <2>1. Enters(look, t)
    BY <1>1, <1>2, <1>6, Measuring DEF Inserts, Ignores, Leaves, CountsRow
  <2>2. ReadersTrackCopy' /\ BlockHasTable'
    BY <1>1, <1>2, <1>4, <1>6, <2>1, DumpTextAssumption
    DEF ReadersTrackCopy, BlockHasTable, Enters
  <2>3. /\ DOMAIN metrics' = DOMAIN metrics \union {t}
        /\ \A u \in Tables : CountOf(u)' = CountOf(u)
    BY <2>1, CountingNothing DEF Enters, DumpInv
  <2>4. CountedSoFar'
    BY <1>1, <2>3 DEF DumpInv, CountedSoFar
  <2>. QED BY <1>3, <2>2, <2>4 DEF DumpInv
<1>. QED BY <1>5, <1>6

\* A row of table data, whatever it looks like.
LEMMA RowLine == ASSUME DumpInv, CopyRow PROVE DumpInv'
<1>1. PICK look \in Looks \ {"end"}, t \in Tables :
        /\ table \in Columnless => look = "plain"
        /\ Read(look, t, "data")
  BY DEF CopyRow
<1>2. context = "copy" /\ Wrote(table) /\ UNCHANGED <<context, table>>
  BY DEF CopyRow
<1>3. /\ skipping /\ table \in Tables
      /\ current = IF table \in Columnless THEN NoTable ELSE table
      /\ inCopy <=> table \notin Columnless
  BY <1>2, WithinBlock
<1>4. DumpTypeOK' /\ CountsBounded'
  BY <1>1, <1>2, <1>3, LineKeepsTypes DEF Roles
<1>5. skipping'
  BY <1>1, <1>3 DEF Read, Filter
<1>6. \A u \in Tables : rows'[u] = IF u = table THEN rows[u] + 1 ELSE rows[u]
  BY <1>2, <1>3 DEF Wrote, DumpInv, DumpTypeOK
<1>7. CASE table \in Columnless
  <2>1. UNCHANGED measure
    BY <1>1, <1>3, <1>7, Measuring
    DEF Enters, Inserts, Ignores, Leaves, CountsRow
  <2>2. ReadersTrackCopy' /\ BlockHasTable'
    BY <1>2, <1>3, <1>5, <2>1
    DEF DumpInv, ReadersTrackCopy, BlockHasTable, measure
  <2>3. CountedSoFar'
    BY <1>6, <1>7, <2>1 DEF DumpInv, CountedSoFar, CountOf, measure
  <2>. QED BY <1>4, <2>2, <2>3 DEF DumpInv
<1>8. CASE table \notin Columnless
  <2>1. CountsRow(look)
    BY <1>1, <1>3, <1>8, Measuring DEF Enters, Inserts, Ignores, Leaves
  <2>2. ReadersTrackCopy' /\ BlockHasTable'
    BY <1>2, <1>3, <1>5, <1>8, <2>1
    DEF DumpInv, ReadersTrackCopy, BlockHasTable, CountsRow
  <2>3. /\ DOMAIN metrics' = DOMAIN metrics \union {table}
        /\ CountOf(table)' = CountOf(table) + 1
        /\ \A u \in Tables : u # table => CountOf(u)' = CountOf(u)
    <3>1. Counting(table, 1) /\ 1 \in 0..1 /\ DumpTypeOK
      BY <1>3, <1>8, <2>1 DEF CountsRow, DumpInv
    <3>. QED BY <1>2, <1>3, <3>1, CountingAdds
  <2>4. CountedSoFar'
    <3>1. ASSUME NEW u \in Tables \ Columnless
          PROVE  /\ CountOf(u)' = rows'[u]
                 /\ rows'[u] > 0 => u \in DOMAIN metrics'
      <4>1. /\ CountOf(u) = rows[u]
            /\ rows[u] > 0 => u \in DOMAIN metrics
        BY DEF DumpInv, CountedSoFar
      <4>2. CASE u = table
        BY <1>2, <1>3, <1>6, <2>3, <4>1, <4>2
      <4>3. CASE u # table
        BY <1>6, <2>3, <4>1, <4>3
      <4>. QED BY <4>2, <4>3
    <3>. QED BY <3>1 DEF CountedSoFar
  <2>. QED BY <1>4, <2>2, <2>4 DEF DumpInv
<1>. QED BY <1>7, <1>8

\* The terminator: both readers leave the block.
LEMMA LastLine == ASSUME DumpInv, CopyEnds PROVE DumpInv'
<1>1. /\ context = "copy" /\ context' = "top" /\ table' = NoTable
      /\ UNCHANGED rows /\ Read("end", table, "terminator")
  BY DEF CopyEnds
<1>2. /\ skipping /\ table \in Tables
      /\ current = IF table \in Columnless THEN NoTable ELSE table
      /\ inCopy <=> table \notin Columnless
  BY <1>1, WithinBlock
<1>3. DumpTypeOK' /\ CountsBounded'
  BY <1>1, <1>2, LineKeepsTypes DEF Looks, Roles
<1>4. ~skipping'
  BY <1>1, <1>2 DEF Read, Filter
<1>5. BlockHasTable'
  BY <1>1 DEF BlockHasTable
<1>6. CASE table \in Columnless
  <2>1. UNCHANGED measure
    BY <1>1, <1>2, <1>6, Measuring
    DEF Enters, Inserts, Ignores, Leaves, CountsRow
  <2>2. ReadersTrackCopy' /\ CountedSoFar'
    BY <1>1, <1>2, <1>4, <1>6, <2>1
    DEF DumpInv, ReadersTrackCopy, CountedSoFar, CountOf, measure
  <2>. QED BY <1>3, <1>5, <2>2 DEF DumpInv
<1>7. CASE table \notin Columnless
  <2>1. Leaves("end")
    BY <1>1, <1>2, <1>7, Measuring DEF Enters, Inserts, Ignores, CountsRow
  <2>2. ReadersTrackCopy'
    BY <1>1, <1>4, <2>1 DEF ReadersTrackCopy, Leaves
  <2>3. /\ DOMAIN metrics' = DOMAIN metrics \union {table}
        /\ \A u \in Tables : CountOf(u)' = CountOf(u)
    <3>1. Counting(table, 0) /\ DumpTypeOK
      BY <1>2, <1>7, <2>1 DEF Leaves, DumpInv
    <3>. QED BY <1>2, <3>1, CountingNothing
  <2>4. CountedSoFar'
    BY <1>1, <2>3 DEF DumpInv, CountedSoFar
  <2>. QED BY <1>3, <1>5, <2>2, <2>4 DEF DumpInv
<1>. QED BY <1>6, <1>7

\* An INSERT statement between the blocks.
LEMMA InsertLine ==
  ASSUME DumpInv, NEW t \in Tables, Insert(t) PROVE DumpInv'
<1>1. /\ t \notin Columnless /\ context = "top"
      /\ context' \in {"top", "statement"} /\ UNCHANGED table
      /\ Read("insert", t, "data") /\ Wrote(t)
  BY DEF Insert
<1>2. ~skipping /\ ~inCopy /\ table = NoTable /\ current = NoTable
  BY <1>1, OutsideBlocks
<1>3. DumpTypeOK' /\ CountsBounded'
  BY <1>1, <1>2, LineKeepsTypes DEF Looks, Roles
<1>4. ~skipping'
  BY <1>1, <1>2 DEF Read, Filter
<1>5. Inserts("insert", t)
  BY <1>1, <1>2, Measuring DEF Enters, Ignores, Leaves, CountsRow
<1>6. ReadersTrackCopy' /\ BlockHasTable'
  BY <1>1, <1>2, <1>4, <1>5, DumpTextAssumption
  DEF ReadersTrackCopy, BlockHasTable, Inserts
<1>7. \A u \in Tables : rows'[u] = IF u = t THEN rows[u] + 1 ELSE rows[u]
  BY <1>1 DEF Wrote, DumpInv, DumpTypeOK
<1>8. /\ DOMAIN metrics' = DOMAIN metrics \union {t}
      /\ CountOf(t)' = CountOf(t) + 1
      /\ \A u \in Tables : u # t => CountOf(u)' = CountOf(u)
  <2>1. Counting(t, 1) /\ 1 \in 0..1 /\ DumpTypeOK
    BY <1>5 DEF Inserts, DumpInv
  <2>. QED BY <2>1, CountingAdds
<1>9. CountedSoFar'
  <2>1. ASSUME NEW u \in Tables \ Columnless
        PROVE  /\ CountOf(u)' = rows'[u]
               /\ rows'[u] > 0 => u \in DOMAIN metrics'
    <3>1. /\ CountOf(u) = rows[u]
          /\ rows[u] > 0 => u \in DOMAIN metrics
      BY DEF DumpInv, CountedSoFar
    <3>2. CASE u = t
      BY <1>7, <1>8, <3>1, <3>2
    <3>3. CASE u # t
      BY <1>7, <1>8, <3>1, <3>3
    <3>. QED BY <3>2, <3>3
  <2>. QED BY <2>1 DEF CountedSoFar
<1>. QED BY <1>3, <1>6, <1>9 DEF DumpInv

\* What a line inside a statement may look like: no header, no row and no
\* privilege statement.
Harmless == Inside \subseteq {"plain", "end"}

\* Every line, and the end of the file.
LEMMA StepInv ==
  ASSUME Harmless, DumpInv, [DumpNext]_dumpVars PROVE DumpInv'
<1>1. CASE \E t \in Tables : CopyBegins(t)
  BY <1>1, HeaderLine
<1>2. CASE \E t \in Tables : Insert(t)
  BY <1>2, InsertLine
<1>3. CASE CopyRow
  BY <1>3, RowLine
<1>4. CASE CopyEnds
  BY <1>4, LastLine
<1>5. CASE Privilege
  <2>1. PICK t \in Tables : Read("privilege", t, "privilege")
    BY <1>5 DEF Privilege
  <2>2. /\ context # "copy" /\ context' # "copy" /\ UNCHANGED <<table, rows>>
        /\ context' \in {"top", "statement"}
    BY <1>5 DEF Privilege, writer
  <2>. QED BY <2>1, <2>2, OtherLine DEF Roles
<1>6. CASE Statement
  <2>1. PICK t \in Tables : Read("plain", t, "statement")
    BY <1>6 DEF Statement
  <2>2. /\ context # "copy" /\ context' # "copy" /\ UNCHANGED <<table, rows>>
        /\ context' \in {"top", "statement"}
    BY <1>6 DEF Statement
  <2>. QED BY <2>1, <2>2, OtherLine DEF Roles
<1>7. CASE GoesOn
  <2>1. PICK look \in Inside, t \in Tables : Read(look, t, "statement")
    BY <1>7 DEF GoesOn
  <2>2. /\ context # "copy" /\ context' # "copy" /\ UNCHANGED <<table, rows>>
        /\ context' \in {"top", "statement"}
    BY <1>7 DEF GoesOn
  <2>. QED BY <2>1, <2>2, OtherLine DEF Roles, Harmless
<1>8. CASE EndOfFile \/ UNCHANGED dumpVars
  <2>1. UNCHANGED <<writer, line, skipping, measure, lines>>
    BY <1>8 DEF EndOfFile, dumpVars
  <2>2. result' \in {"reading", "measured", "refused"}
    BY <1>8 DEF EndOfFile, dumpVars, DumpInv, DumpTypeOK
  <2>. QED
    BY <2>1, <2>2
    DEF DumpInv, DumpTypeOK, ReadersTrackCopy, BlockHasTable, CountsBounded,
        CountedSoFar, CountOf, writer, measure
<1>. QED BY <1>1, <1>2, <1>3, <1>4, <1>5, <1>6, <1>7, <1>8 DEF DumpNext

\* restoreCopy and MeasureDump know at every line whether they stand within
\* table data, and what is counted so far is what was written so far.
THEOREM ReadersInStep == ASSUME Harmless PROVE DumpSpec => []DumpInv
<1>1. DumpInit => DumpInv
  BY InitInv
<1>2. DumpInv /\ [DumpNext]_dumpVars => DumpInv'
  BY StepInv
<1>. QED BY <1>1, <1>2, PTL DEF DumpSpec

\* MeasureDump returns no wrong count for a table, however the COPY blocks and
\* INSERT statements of a dump are mixed.
THEOREM MeasuredExactly == ASSUME Harmless PROVE DumpSpec => []CountsExact
<1>1. DumpInv => CountsExact
  BY DEF DumpInv, CountedSoFar, CountsExact
<1>2. DumpSpec => []DumpInv
  BY ReadersInStep
<1>. QED BY <1>1, <1>2, PTL

-----------------------------------------------------------------------------
(* Cut dumps and dropped lines.                                            *)

\* The end of the file is where a dump is measured or refused.
LEMMA StepCut ==
  ASSUME DumpInv, CutDataRefused, [DumpNext]_dumpVars PROVE CutDataRefused'
<1>1. CASE EndOfFile
  <2>1. UNCHANGED <<context, table, inCopy>>
    BY <1>1 DEF EndOfFile, writer, measure
  <2>2. result' = "measured" => ~inCopy
    BY <1>1 DEF EndOfFile, Terminated
  <2>. QED BY <2>1, <2>2, WithinBlock DEF CutDataRefused
<1>2. CASE UNCHANGED dumpVars
  BY <1>2 DEF CutDataRefused, dumpVars, writer
<1>3. ASSUME NEW look, NEW t, NEW role, Read(look, t, role)
      PROVE  CutDataRefused'
  BY <1>3 DEF Read, CutDataRefused
<1>. QED
  BY <1>1, <1>2, <1>3
  DEF DumpNext, CopyBegins, CopyRow, CopyEnds, Insert, Privilege, Statement,
      GoesOn

\* MeasureDump refuses a dump that is cut within the data of a table.
THEOREM CutDumpsRefused ==
  ASSUME Harmless PROVE DumpSpec => []CutDataRefused
<1>1. DumpInit => CutDataRefused
  BY DEF DumpInit, CutDataRefused
<1>2. DumpInv /\ CutDataRefused /\ [DumpNext]_dumpVars => CutDataRefused'
  BY StepCut
<1>3. DumpSpec => []DumpInv
  BY ReadersInStep
<1>. QED BY <1>1, <1>2, <1>3, PTL DEF DumpSpec

\* Within a block all lines are kept, between the blocks all but the privileges.
LEMMA StepDrops ==
  ASSUME Harmless, DumpInv, DropsPrivilegesOnly, [DumpNext]_dumpVars
  PROVE  DropsPrivilegesOnly'
<1>1. ASSUME NEW look, NEW t, NEW role, Read(look, t, role),
             Keep(look) <=> role # "privilege"
      PROVE  DropsPrivilegesOnly'
  BY <1>1 DEF Read, DropsPrivilegesOnly
<1>2. CASE \E t \in Tables : CopyBegins(t) \/ Insert(t)
  BY <1>1, <1>2 DEF CopyBegins, Insert, Keep
<1>3. CASE CopyRow \/ CopyEnds
  <2>1. skipping
    BY <1>3, WithinBlock DEF CopyRow, CopyEnds
  <2>. QED BY <1>1, <1>3, <2>1 DEF CopyRow, CopyEnds, Keep
<1>4. CASE Privilege \/ Statement \/ GoesOn
  <2>1. ~skipping
    BY <1>4, OutsideBlocks DEF Privilege, Statement, GoesOn
  <2>. QED BY <1>1, <1>4, <2>1 DEF Privilege, Statement, GoesOn, Keep, Harmless
<1>5. CASE EndOfFile \/ UNCHANGED dumpVars
  BY <1>5 DEF EndOfFile, dumpVars, DropsPrivilegesOnly
<1>. QED BY <1>2, <1>3, <1>4, <1>5 DEF DumpNext

\* restoreCopy drops the ownership and privilege statements and nothing else.
THEOREM OnlyPrivilegesDropped ==
  ASSUME Harmless PROVE DumpSpec => []DropsPrivilegesOnly
<1>1. DumpInit => DropsPrivilegesOnly
  BY DEF DumpInit, DropsPrivilegesOnly
<1>2. DumpInv /\ DropsPrivilegesOnly /\ [DumpNext]_dumpVars
        => DropsPrivilegesOnly'
  BY StepDrops
<1>3. DumpSpec => []DumpInv
  BY ReadersInStep
<1>. QED BY <1>1, <1>2, <1>3, PTL DEF DumpSpec
=============================================================================
