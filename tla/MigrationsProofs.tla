-------------------------- MODULE MigrationsProofs --------------------------
(***************************************************************************)
(* Proofs about Migrations, for every set of versions and uploads.  Open   *)
(* works on a file by steps, and an uploaded file goes through the same    *)
(* ones: one lemma per step says what it does to any file, and is used for *)
(* the live file between two steps as for the upload between validation    *)
(* and copy.                                                               *)
(***************************************************************************)
EXTENDS Migrations, SequenceTheorems, TLAPS

-----------------------------------------------------------------------------
(* The invariants, of a file.                                              *)

\* The columns a table may have.
ColumnNames ==
  UNION {ToSet(JobColumns), ToSet(JobColumnsV1), ToSet(BackupColumns),
         ToSet(BackupColumnsV1), ToSet(BackupColumnsV2)}

\* The file has the tables migrateV1 finds.
Old(file) == Has(file.jobs, "login")

Full(table) ==
  table.row = [c \in ToSet(table.columns) |-> table.row[c]]

\* No column twice.
Distinct(columns) == columns \in Seq(ColumnNames) /\ IsInjective(columns)

TableShape(table) ==
  /\ table = Table(table.columns, table.row)
  /\ Distinct(table.columns)
  /\ table.row = NoRow \/ Full(table)

IsFile(file) ==
  file = [tables |-> file.tables, jobs |-> file.jobs, backups |-> file.backups,
          nullable |-> file.nullable, endpoint |-> file.endpoint,
          dest |-> file.dest, jobLink |-> file.jobLink,
          backupLink |-> file.backupLink]

\* The columns a later migration may still have to add.
LateJobs == {"enabled", "timezone"}
LateBackups == {"s3_upload_ms", "row_count"}

\* Which columns the tables have before, between and after the migrations.
Shape(file) ==
  /\ IsFile(file)
  /\ TableShape(file.jobs) /\ TableShape(file.backups)
  /\ file.tables \subseteq ToSet(Tables)
  /\ Old(file) =>
       /\ {"jobs", "backups"} \subseteq file.tables
       /\ ~file.nullable
       /\ ToSet(file.jobs.columns) = ToSet(JobColumnsV1)
       /\ ToSet(file.backups.columns) = ToSet(BackupColumnsV1)
       /\ Full(file.jobs) /\ Full(file.backups)
  /\ ~Old(file) /\ "jobs" \in file.tables =>
       /\ ToSet(JobColumns) \ LateJobs \subseteq ToSet(file.jobs.columns)
       /\ ToSet(file.jobs.columns) \subseteq ToSet(JobColumns)
  /\ ~file.nullable => "backups" \in file.tables
  /\ ~Old(file) /\ ~file.nullable =>
       ToSet(file.backups.columns) = ToSet(BackupColumns) \ LateBackups
  /\ file.nullable /\ "backups" \in file.tables =>
       /\ ToSet(BackupColumns) \ LateBackups \subseteq
            ToSet(file.backups.columns)
       /\ ToSet(file.backups.columns) \subseteq ToSet(BackupColumns)

\* What the steps before step n have done to the file; spared: the table that
\* migrateV1 may have dropped since.
Reached(n, file, spared) ==
  /\ \A m \in 1..10 : m < n => Tables[m] \in file.tables \union spared
  /\ n > 11 => ~Old(file)
  /\ n > 12 => file.nullable
  /\ n > 13 => Has(file.jobs, "enabled")
  /\ n > 14 => Has(file.backups, "s3_upload_ms")
  /\ n > 15 => Has(file.backups, "row_count")
  /\ n > 16 => Has(file.jobs, "timezone")

\* Contents in place, and none of them missing in a file of the first version.
Filling(file) ==
  /\ InPlace(file.jobs) /\ InPlace(file.backups)
  /\ Old(file) =>
       /\ \A c \in ToSet(file.jobs.columns) :
            file.jobs.row[c] \in Contents(c)
       /\ \A c \in ToSet(file.backups.columns) :
            file.backups.row[c] \in Contents(c)

\* A job has a destination, in the terms of the version of the file.
Runnable(file) ==
  IF Old(file)
  THEN file.jobs.row["dest_local"] = "yes" \/ file.jobs.row["dest_s3"] = "yes"
  ELSE file.jobs.row # NoRow =>
         file.jobs.row["dest_local"] = "yes" \/ file.jobLink

\* The file knows that its backup has a copy in a bucket, or that it has none.
Linked(file, known) ==
  IF Old(file)
  THEN known <=> file.endpoint /\ file.backups.row["stored_s3"] = "yes"
  ELSE file.backups.row # NoRow => file.backupLink = known

\* The order the columns come to when the file is opened.
Longer(columns, column) ==
  IF column \in ToSet(columns) THEN columns ELSE Append(columns, column)

JobsMigrated(columns) ==
  RemoveFirst(RemoveFirst(Longer(columns, "database_id"), "login"), "dest_s3")

JobOrder(file) ==
  LET first == IF "jobs" \notin file.tables THEN JobColumns
               ELSE IF Old(file) THEN JobsMigrated(file.jobs.columns)
               ELSE file.jobs.columns
  IN Longer(Longer(first, "enabled"), "timezone")

BackupOrder(file) ==
  LET first == IF "backups" \notin file.tables THEN BackupColumns
               ELSE IF ~file.nullable THEN BackupColumnsV2
               ELSE file.backups.columns
  IN Longer(Longer(first, "s3_upload_ms"), "row_count")

SameOrder(file, other) ==
  /\ JobOrder(file) = JobOrder(other)
  /\ BackupOrder(file) = BackupOrder(other)

\* The hypothesis of what holds of restored rows: the files of other
\* installations that validateSnapshot takes have their columns in the order of
\* the live file, once both are migrated.  It holds without such files, and
\* between installations that began with the same version.
InOrder ==
  \A v \in Versions, w \in Foreign :
    \A file \in FilesOf(v), other \in FilesOf(w) :
      Valid(other) => SameOrder(file, other)

-----------------------------------------------------------------------------
(* The invariants, of the program.                                         *)

\* The table that may be missing in the live file after migrateV1.
Spared == IF reshaped THEN {"settings"} ELSE {}

LiveInv ==
  /\ Shape(live)
  /\ at \in 0..Len(Steps) + 1 /\ failures \in 0..MaxFailures
  /\ reshaped \in BOOLEAN
  /\ Reached(at, live, Spared)
  /\ upload # NoFile => Shape(upload)

ContentInv ==
  /\ Filling(live) /\ Runnable(live)
  /\ upload # NoFile /\ Valid(upload) =>
       Filling(upload) /\ Runnable(upload) /\ SameOrder(live, upload)

LinkInv ==
  /\ inS3 \in BOOLEAN
  /\ Linked(live, inS3)
  /\ upload # NoFile /\ Valid(upload) => Linked(upload, inS3)

-----------------------------------------------------------------------------
(* Columns.                                                                *)

\* The tables of the ddl and of the migrations name no column twice.
LEMMA ColumnsKnown ==
  /\ Distinct(JobColumns) /\ Distinct(JobColumnsV1)
  /\ Distinct(BackupColumns) /\ Distinct(BackupColumnsV1)
  /\ Distinct(BackupColumnsV2)
<1>1. ASSUME NEW s, NEW n \in Nat, s = [i \in 1..n |-> s[i]],
             ToSet(s) \subseteq ColumnNames
      PROVE  s \in Seq(ColumnNames)
  <2>1. DOMAIN s = 1..n
    BY <1>1
  <2>2. \A i \in 1..n : s[i] \in ColumnNames
    BY <2>1, <1>1 DEF ToSet
  <2>. QED
    BY <2>2, <1>1, SeqDef
<1>7. JobColumns = [i \in 1..10 |-> JobColumns[i]]
  BY DEF JobColumns
<1>8. JobColumnsV1 = [i \in 1..9 |-> JobColumnsV1[i]]
  BY DEF JobColumnsV1
<1>9. BackupColumns = [i \in 1..13 |-> BackupColumns[i]]
  BY DEF BackupColumns
<1>10. BackupColumnsV1 = [i \in 1..12 |-> BackupColumnsV1[i]]
  BY DEF BackupColumnsV1
<1>11. BackupColumnsV2 = [i \in 1..12 |-> BackupColumnsV2[i]]
  BY DEF BackupColumnsV2
<1>2. IsInjective(JobColumns)
  BY DEF IsInjective, JobColumns
<1>3. IsInjective(JobColumnsV1)
  BY DEF IsInjective, JobColumnsV1
<1>4. IsInjective(BackupColumns)
  BY DEF IsInjective, BackupColumns
<1>5. IsInjective(BackupColumnsV1)
  BY DEF IsInjective, BackupColumnsV1
<1>6. IsInjective(BackupColumnsV2)
  BY DEF IsInjective, BackupColumnsV2
<1>12. /\ JobColumns \in Seq(ColumnNames) /\ JobColumnsV1 \in Seq(ColumnNames)
       /\ BackupColumns \in Seq(ColumnNames)
       /\ BackupColumnsV1 \in Seq(ColumnNames)
       /\ BackupColumnsV2 \in Seq(ColumnNames)
  <2>1. /\ ToSet(JobColumns) \subseteq ColumnNames
        /\ ToSet(JobColumnsV1) \subseteq ColumnNames
        /\ ToSet(BackupColumns) \subseteq ColumnNames
        /\ ToSet(BackupColumnsV1) \subseteq ColumnNames
        /\ ToSet(BackupColumnsV2) \subseteq ColumnNames
    BY DEF ColumnNames
  <2>2. 9 \in Nat /\ 10 \in Nat /\ 12 \in Nat /\ 13 \in Nat
    OBVIOUS
  <2>. QED
    BY <2>1, <2>2, <1>1, <1>7, <1>8, <1>9, <1>10, <1>11, Zenon
<1>. QED
  BY <1>2, <1>3, <1>4, <1>5, <1>6, <1>12 DEF Distinct

\* The columns of jobs by name.
LEMMA JobSets ==
  /\ ToSet(JobColumns) =
       {"id", "name", "database_id", "schedule", "timezone", "dest_local",
        "keep_last", "enabled", "created_at", "updated_at"}
  /\ ToSet(JobColumnsV1) =
       {"id", "name", "login", "schedule", "dest_local", "dest_s3",
        "keep_last", "created_at", "updated_at"}
<1>1. ToSet(JobColumns) =
       {"id", "name", "database_id", "schedule", "timezone", "dest_local",
        "keep_last", "enabled", "created_at", "updated_at"}
  BY DEF ToSet, JobColumns
<1>2. ToSet(JobColumnsV1) =
       {"id", "name", "login", "schedule", "dest_local", "dest_s3",
        "keep_last", "created_at", "updated_at"}
  BY DEF ToSet, JobColumnsV1
<1>. QED
  BY <1>1, <1>2

\* The columns of backups by name.
LEMMA BackupSets ==
  /\ ToSet(BackupColumns) =
       {"id", "job_id", "status", "trigger", "started_at", "finished_at",
        "size_bytes", "s3_upload_ms", "row_count", "filename",
        "stored_local", "error", "restored_at"}
  /\ ToSet(BackupColumnsV1) =
       {"id", "job_id", "status", "trigger", "started_at", "finished_at",
        "size_bytes", "filename", "stored_local", "stored_s3", "error",
        "restored_at"}
  /\ ToSet(BackupColumnsV2) =
       {"id", "job_id", "status", "trigger", "started_at", "finished_at",
        "size_bytes", "row_count", "filename", "stored_local", "error",
        "restored_at"}
<1>1. ToSet(BackupColumns) =
       {"id", "job_id", "status", "trigger", "started_at", "finished_at",
        "size_bytes", "s3_upload_ms", "row_count", "filename",
        "stored_local", "error", "restored_at"}
  BY DEF ToSet, BackupColumns
<1>2. ToSet(BackupColumnsV1) =
       {"id", "job_id", "status", "trigger", "started_at", "finished_at",
        "size_bytes", "filename", "stored_local", "stored_s3", "error",
        "restored_at"}
  BY DEF ToSet, BackupColumnsV1
<1>3. ToSet(BackupColumnsV2) =
       {"id", "job_id", "status", "trigger", "started_at", "finished_at",
        "size_bytes", "row_count", "filename", "stored_local", "error",
        "restored_at"}
  BY DEF ToSet, BackupColumnsV2
<1>. QED
  BY <1>1, <1>2, <1>3

\* Append, index by index.
LEMMA Appended ==
  ASSUME NEW columns \in Seq(ColumnNames), NEW c \in ColumnNames,
         NEW longer, longer = Append(columns, c)
  PROVE  /\ longer \in Seq(ColumnNames)
         /\ Len(columns) \in Nat /\ DOMAIN columns = 1..Len(columns)
         /\ DOMAIN longer = 1..Len(columns) + 1
         /\ \A i \in 1..Len(columns) : longer[i] = columns[i]
         /\ longer[Len(columns) + 1] = c
<1>1. longer \in Seq(ColumnNames)
  BY AppendProperties
<1>2. Len(longer) = Len(columns) + 1
  BY AppendProperties
<1>3. \A i \in 1..Len(columns) : longer[i] = columns[i]
  BY AppendProperties
<1>4. longer[Len(columns) + 1] = c
  BY AppendProperties
<1>5. DOMAIN longer = 1..Len(longer)
  BY <1>1, LenProperties, Zenon
<1>6. Len(columns) \in Nat /\ DOMAIN columns = 1..Len(columns)
  BY LenProperties, Zenon
<1>. QED
  BY <1>1, <1>2, <1>3, <1>4, <1>5, <1>6

\* One more element in an injection.
LEMMA OneMore ==
  ASSUME NEW columns, NEW longer, NEW n \in Nat, NEW c,
         DOMAIN columns = 1..n, DOMAIN longer = 1..n + 1,
         \A i \in 1..n : longer[i] = columns[i], longer[n + 1] = c,
         IsInjective(columns), c \notin ToSet(columns)
  PROVE  IsInjective(longer) /\ ToSet(longer) = ToSet(columns) \union {c}
<1>1. ASSUME NEW x \in ToSet(longer) PROVE x \in ToSet(columns) \union {c}
  BY <1>1 DEF ToSet
<1>2. ASSUME NEW x \in ToSet(columns) PROVE x \in ToSet(longer)
  <2>1. PICK i \in 1..n : x = columns[i]
    BY <1>2 DEF ToSet
  <2>2. i \in DOMAIN longer /\ longer[i] = x
    BY <2>1
  <2>. QED
    BY <2>2 DEF ToSet
<1>3. c \in ToSet(longer)
  <2>1. n + 1 \in DOMAIN longer
    OBVIOUS
  <2>. QED
    BY <2>1 DEF ToSet
<1>4. \A i \in 1..n : columns[i] # c
  BY DEF ToSet
<1>5. ASSUME NEW i \in 1..n + 1, NEW j \in 1..n + 1, longer[i] = longer[j]
      PROVE  i = j
  <2>1. CASE i \in 1..n /\ j \in 1..n
    BY <2>1, <1>5 DEF IsInjective
  <2>. QED
    BY <1>5, <2>1, <1>4
<1>. QED
  BY <1>1, <1>2, <1>3, <1>5 DEF IsInjective

\* ALTER TABLE ADD COLUMN: one column more, none twice.
LEMMA ColumnAdded ==
  ASSUME NEW columns, Distinct(columns), NEW c \in ColumnNames
  PROVE  /\ Distinct(Longer(columns, c))
         /\ ToSet(Longer(columns, c)) = ToSet(columns) \union {c}
<1>. columns \in Seq(ColumnNames) /\ IsInjective(columns)
  BY DEF Distinct
<1>1. CASE c \in ToSet(columns)
  BY <1>1 DEF Longer
<1>2. CASE c \notin ToSet(columns)
  <2>. DEFINE longer == Append(columns, c)
              n == Len(columns)
  <2>1. /\ longer \in Seq(ColumnNames)
        /\ n \in Nat /\ DOMAIN columns = 1..n /\ DOMAIN longer = 1..n + 1
        /\ \A i \in 1..n : longer[i] = columns[i]
        /\ longer[n + 1] = c
    BY Appended
  <2>. HIDE DEF longer, n
  <2>2. IsInjective(longer) /\ ToSet(longer) = ToSet(columns) \union {c}
    BY <2>1, <1>2, OneMore
  <2>. QED
    BY <2>1, <2>2, <1>2, Zenon DEF Longer, longer, Distinct
<1>. QED
  BY <1>1, <1>2

\* Where a column stands that ALTER TABLE DROP COLUMN takes out.
LEMMA ColumnAt ==
  ASSUME NEW columns \in Seq(ColumnNames), IsInjective(columns),
         NEW c \in ToSet(columns)
  PROVE  \E k \in 1..Len(columns) :
           columns[k] = c /\ RemoveFirst(columns, c) = RemoveAt(columns, k)
<1>1. PICK k \in 1..Len(columns) : columns[k] = c
  BY DEF ToSet
<1>2. {i \in 1..Len(columns) : columns[i] = c} = {k}
  BY <1>1 DEF IsInjective
<1>3. Min({k}) = k
  BY <1>1 DEF Min
<1>. QED
  BY <1>1, <1>2, <1>3 DEF RemoveFirst, SelectInSeq

\* RemoveAt, index by index.
LEMMA RemovedAt ==
  ASSUME NEW columns \in Seq(ColumnNames), NEW k \in 1..Len(columns),
         NEW shorter, shorter = RemoveAt(columns, k)
  PROVE  /\ shorter \in Seq(ColumnNames)
         /\ Len(columns) \in Nat /\ DOMAIN columns = 1..Len(columns)
         /\ DOMAIN shorter = 1..Len(columns) - 1
         /\ \A i \in 1..Len(columns) - 1 :
              shorter[i] = IF i < k THEN columns[i] ELSE columns[i + 1]
<1>. DEFINE n == Len(columns)
            head == SubSeq(columns, 1, k - 1)
            tail == SubSeq(columns, k + 1, n)
<1>1. n \in Nat /\ k \in 1..n /\ DOMAIN columns = 1..n
  BY LenProperties, Zenon
<1>2. \A i \in 1..n : columns[i] \in ColumnNames
  BY ElementOfSeq, Zenon
<1>3. shorter = head \o tail
  BY DEF RemoveAt
<1>. HIDE DEF n
<1>4. /\ k - 1 \in Int /\ k + 1 \in Int /\ 1 \in Int /\ n \in Int
      /\ \A i \in 1..k - 1 : columns[i] \in ColumnNames
      /\ \A i \in k + 1..n : columns[i] \in ColumnNames
  BY <1>1, <1>2
<1>5. /\ head \in Seq(ColumnNames) /\ Len(head) = k - 1
      /\ \A i \in 1..k - 1 : head[i] = columns[i]
  <2>1. head \in Seq(ColumnNames)
    BY <1>4, SubSeqProperties
  <2>2. Len(head) = IF 1 <= k - 1 THEN (k - 1) - 1 + 1 ELSE 0
    BY <1>4, SubSeqProperties
  <2>3. \A i \in 1..(k - 1) - 1 + 1 : head[i] = columns[1 + i - 1]
    BY <1>4, SubSeqProperties
  <2>. HIDE DEF head
  <2>4. Len(head) = k - 1
    BY <2>2, <1>1
  <2>5. \A i \in 1..k - 1 : head[i] = columns[i]
    BY <2>3, <1>1
  <2>. QED
    BY <2>1, <2>4, <2>5
<1>6. /\ tail \in Seq(ColumnNames) /\ Len(tail) = n - k
      /\ \A i \in 1..n - k : tail[i] = columns[k + i]
  <2>1. tail \in Seq(ColumnNames)
    BY <1>4, SubSeqProperties
  <2>2. Len(tail) = IF k + 1 <= n THEN n - (k + 1) + 1 ELSE 0
    BY <1>4, SubSeqProperties
  <2>3. \A i \in 1..n - (k + 1) + 1 : tail[i] = columns[(k + 1) + i - 1]
    BY <1>4, SubSeqProperties
  <2>. HIDE DEF tail
  <2>4. Len(tail) = n - k
    BY <2>2, <1>1
  <2>5. \A i \in 1..n - k : tail[i] = columns[k + i]
    BY <2>3, <1>1
  <2>. QED
    BY <2>1, <2>4, <2>5
<1>. HIDE DEF head, tail
<1>7. /\ shorter \in Seq(ColumnNames) /\ Len(shorter) = Len(head) + Len(tail)
      /\ \A i \in 1..Len(head) + Len(tail) :
           shorter[i] = IF i <= Len(head) THEN head[i] ELSE tail[i - Len(head)]
  <2>1. shorter \in Seq(ColumnNames)
    BY <1>3, <1>5, <1>6, ConcatProperties
  <2>2. Len(shorter) = Len(head) + Len(tail)
    BY <1>3, <1>5, <1>6, ConcatProperties
  <2>3. \A i \in 1..Len(head) + Len(tail) :
          shorter[i] = IF i <= Len(head) THEN head[i]
                       ELSE tail[i - Len(head)]
    BY <1>3, <1>5, <1>6, ConcatProperties
  <2>. QED
    BY <2>1, <2>2, <2>3
<1>8. DOMAIN shorter = 1..Len(shorter)
  BY <1>7, LenProperties, Zenon
<1>9. Len(shorter) = n - 1
  BY <1>5, <1>6, <1>7, <1>1
<1>10. ASSUME NEW i \in 1..n - 1
       PROVE  shorter[i] = IF i < k THEN columns[i] ELSE columns[i + 1]
  <2>1. shorter[i] = IF i <= k - 1 THEN head[i] ELSE tail[i - (k - 1)]
    BY <1>5, <1>6, <1>7, <1>1
  <2>. QED
    BY <2>1, <1>1, <1>5, <1>6
<1>. QED
  BY <1>1, <1>7, <1>8, <1>9, <1>10 DEF n

\* One element less in an injection.
LEMMA OneLess ==
  ASSUME NEW columns, NEW shorter, NEW n \in Nat, NEW k \in 1..n,
         DOMAIN columns = 1..n, DOMAIN shorter = 1..n - 1,
         \A i \in 1..n - 1 :
           shorter[i] = IF i < k THEN columns[i] ELSE columns[i + 1],
         IsInjective(columns)
  PROVE  /\ IsInjective(shorter)
         /\ \A x : x \in ToSet(shorter) <=>
                    x \in ToSet(columns) /\ x # columns[k]
<1>. DEFINE place(i) == IF i < k THEN i ELSE i + 1
<1>1. \A i \in 1..n - 1 :
        place(i) \in 1..n \ {k} /\ shorter[i] = columns[place(i)]
  OBVIOUS
<1>2. ASSUME NEW x \in ToSet(shorter) PROVE x \in ToSet(columns) \ {columns[k]}
  <2>1. PICK i \in 1..n - 1 : x = shorter[i]
    BY <1>2 DEF ToSet
  <2>2. \E j \in 1..n : j # k /\ x = columns[j]
    BY <1>1, <2>1
  <2>. QED
    BY <2>2 DEF ToSet, IsInjective
<1>3. ASSUME NEW x \in ToSet(columns) \ {columns[k]} PROVE x \in ToSet(shorter)
  <2>1. PICK i \in 1..n : x = columns[i] /\ i # k
    BY <1>3 DEF ToSet
  <2>2. \E j \in 1..n - 1 : shorter[j] = x
    <3>1. CASE i < k
      BY <3>1, <2>1
    <3>2. CASE i > k
      <4>1. i - 1 \in 1..n - 1 /\ ~(i - 1 < k) /\ x = columns[(i - 1) + 1]
        BY <3>2, <2>1
      <4>. QED
        BY <4>1
    <3>. QED
      BY <3>1, <3>2, <2>1
  <2>. QED
    BY <2>2 DEF ToSet
<1>4. ASSUME NEW i \in 1..n - 1, NEW j \in 1..n - 1, shorter[i] = shorter[j]
      PROVE  i = j
  <2>1. place(i) = place(j)
    <3>. HIDE DEF place
    <3>. QED
      BY <1>1, <1>4 DEF IsInjective
  <2>. QED
    BY <2>1
<1>. QED
  BY <1>2, <1>3, <1>4 DEF IsInjective

\* ALTER TABLE DROP COLUMN: one column less, none twice.
LEMMA ColumnDropped ==
  ASSUME NEW columns, Distinct(columns), NEW c
  PROVE  /\ Distinct(RemoveFirst(columns, c))
         /\ ToSet(RemoveFirst(columns, c)) = ToSet(columns) \ {c}
<1>. columns \in Seq(ColumnNames) /\ IsInjective(columns)
  BY DEF Distinct
<1>1. CASE c \notin ToSet(columns)
  <2>1. DOMAIN columns = 1..Len(columns)
    BY LenProperties, Zenon
  <2>2. RemoveFirst(columns, c) = columns
    BY <1>1, <2>1 DEF RemoveFirst, ToSet
  <2>. QED
    BY <2>2, <1>1
<1>2. CASE c \in ToSet(columns)
  <2>. DEFINE shorter == RemoveFirst(columns, c)
              n == Len(columns)
  <2>1. PICK k \in 1..n : columns[k] = c /\ shorter = RemoveAt(columns, k)
    BY <1>2, ColumnAt, Zenon
  <2>. HIDE DEF shorter
  <2>2. /\ shorter \in Seq(ColumnNames)
        /\ n \in Nat /\ DOMAIN columns = 1..n /\ DOMAIN shorter = 1..n - 1
        /\ \A i \in 1..n - 1 :
             shorter[i] = IF i < k THEN columns[i] ELSE columns[i + 1]
    BY <2>1, RemovedAt, Zenon
  <2>. HIDE DEF n
  <2>3. k \in 1..n /\ columns[k] = c /\ IsInjective(columns)
    BY <2>1
  <2>4. IsInjective(shorter)
    BY <2>2, <2>3, OneLess
  <2>5. \A x :
          x \in ToSet(shorter) <=> x \in ToSet(columns) /\ x # columns[k]
    BY <2>2, <2>3, OneLess
  <2>6. ToSet(shorter) = ToSet(columns) \ {c}
    BY <2>3, <2>5
  <2>. QED
    BY <2>2, <2>4, <2>6, Zenon DEF shorter, Distinct
<1>. QED
  BY <1>1, <1>2

-----------------------------------------------------------------------------
(* Tables.                                                                 *)

\* The fields of a table.
LEMMA TableFields ==
  ASSUME NEW columns, NEW row, NEW table, table = Table(columns, row)
  PROVE  /\ table.columns = columns /\ table.row = row
         /\ table = Table(table.columns, table.row)
BY DEF Table

\* A column is added with the default in every row.
LEMMA TableAdded ==
  ASSUME NEW table, TableShape(table), NEW c \in ColumnNames, NEW default,
         NEW new, new = Added(table, c, default)
  PROVE  /\ TableShape(new)
         /\ new.columns = Longer(table.columns, c)
         /\ ToSet(new.columns) = ToSet(table.columns) \union {c}
         /\ new.row # NoRow =>
              /\ table.row # NoRow
              /\ \A x \in ToSet(new.columns) :
                   new.row[x] = IF x \in ToSet(table.columns)
                                THEN table.row[x] ELSE default
<1>1. /\ Distinct(Longer(table.columns, c))
      /\ ToSet(Longer(table.columns, c)) = ToSet(table.columns) \union {c}
  BY ColumnAdded DEF TableShape
<1>2. CASE Has(table, c)
  BY <1>1, <1>2 DEF Has, Added, Longer, TableShape
<1>3. CASE ~Has(table, c) /\ table.row = NoRow
  <2>1. new = Table(Longer(table.columns, c), NoRow)
    BY <1>3 DEF Has, Added, Longer, Table
  <2>. QED
    BY <2>1, <1>1, TableFields DEF TableShape
<1>4. CASE ~Has(table, c) /\ table.row # NoRow
  <2>. DEFINE row == [x \in DOMAIN table.row \union {c} |->
                        IF x = c THEN default ELSE table.row[x]]
  <2>1. new = Table(Longer(table.columns, c), row)
    BY <1>4 DEF Has, Added, Longer, Table
  <2>2. DOMAIN table.row = ToSet(table.columns)
    BY <1>4 DEF TableShape, Full
  <2>3. /\ c \notin ToSet(table.columns)
        /\ row = [x \in ToSet(table.columns) \union {c} |-> row[x]]
        /\ \A x \in ToSet(table.columns) \union {c} :
             row[x] = IF x \in ToSet(table.columns) THEN table.row[x]
                      ELSE default
    BY <1>4, <2>2 DEF Has
  <2>. HIDE DEF row
  <2>4. new.columns = Longer(table.columns, c) /\ new.row = row
    BY <2>1, TableFields
  <2>. QED
    BY <2>1, <2>3, <2>4, <1>1, <1>4 DEF TableShape, Full
<1>. QED
  BY <1>2, <1>3, <1>4

\* A column is dropped from every row.
LEMMA TableDropped ==
  ASSUME NEW table, TableShape(table), NEW c,
         NEW new, new = Dropped(table, c)
  PROVE  /\ TableShape(new)
         /\ new.columns = RemoveFirst(table.columns, c)
         /\ ToSet(new.columns) = ToSet(table.columns) \ {c}
         /\ new.row # NoRow =>
              /\ table.row # NoRow
              /\ \A x \in ToSet(new.columns) : new.row[x] = table.row[x]
<1>1. /\ Distinct(RemoveFirst(table.columns, c))
      /\ ToSet(RemoveFirst(table.columns, c)) = ToSet(table.columns) \ {c}
  BY ColumnDropped DEF TableShape
<1>2. CASE table.row = NoRow
  <2>1. new = Table(RemoveFirst(table.columns, c), NoRow)
    BY <1>2 DEF Dropped, Table
  <2>. QED
    BY <2>1, <1>1, TableFields DEF TableShape
<1>3. CASE table.row # NoRow
  <2>. DEFINE row == [x \in DOMAIN table.row \ {c} |-> table.row[x]]
  <2>1. new = Table(RemoveFirst(table.columns, c), row)
    BY <1>3 DEF Dropped, Table
  <2>2. DOMAIN table.row = ToSet(table.columns)
    BY <1>3 DEF TableShape, Full
  <2>3. /\ row = [x \in ToSet(table.columns) \ {c} |-> row[x]]
        /\ \A x \in ToSet(table.columns) \ {c} : row[x] = table.row[x]
    BY <2>2
  <2>. HIDE DEF row
  <2>4. new.columns = RemoveFirst(table.columns, c) /\ new.row = row
    BY <2>1, TableFields
  <2>. QED
    BY <2>1, <2>3, <2>4, <1>1, <1>3 DEF TableShape, Full
<1>. QED
  BY <1>2, <1>3

-----------------------------------------------------------------------------
(* The steps of Open on any file.                                          *)

\* What a step may not do to a file, whatever it does.
Keeps(file, new) ==
  /\ Shape(new)
  /\ SameOrder(file, new)
  /\ Filling(file) => Filling(new)
  /\ Runnable(file) => Runnable(new)
  /\ \A known \in BOOLEAN : Linked(file, known) => Linked(new, known)

\* A step that leaves a file alone.
LEMMA Untouched ==
  ASSUME NEW file, Shape(file)
  PROVE  Keeps(file, file)
BY DEF Keeps, SameOrder

\* The tables of the ddl in their order, then the migrations.
LEMMA StepNames ==
  /\ DOMAIN Steps = 1..16 /\ Len(Steps) = 16
  /\ \A n \in 1..10 : Steps[n] = Tables[n]
  /\ Steps[11] = "v1" /\ Steps[12] = "v2" /\ Steps[13] = "v3"
  /\ Steps[14] = "v4" /\ Steps[15] = "v5" /\ Steps[16] = "v6"
<1>. DEFINE migrations == <<"v1", "v2", "v3", "v4", "v5", "v6">>
            Names == ToSet(Tables) \union ToSet(migrations)
<1>1. /\ Len(Tables) = 10 /\ Tables = [i \in 1..10 |-> Tables[i]]
      /\ Len(migrations) = 6 /\ migrations = [i \in 1..6 |-> migrations[i]]
  BY DEF Tables
<1>2. /\ migrations[1] = "v1" /\ migrations[2] = "v2" /\ migrations[3] = "v3"
      /\ migrations[4] = "v4" /\ migrations[5] = "v5" /\ migrations[6] = "v6"
  OBVIOUS
<1>3. Steps = Tables \o migrations
  BY DEF Steps
<1>. HIDE DEF migrations
<1>4. DOMAIN Tables = 1..10 /\ DOMAIN migrations = 1..6
  BY <1>1
<1>5. /\ \A i \in 1..10 : Tables[i] \in Names
      /\ \A i \in 1..6 : migrations[i] \in Names
  BY <1>4 DEF ToSet
<1>. HIDE DEF Names
<1>6. Tables \in Seq(Names) /\ migrations \in Seq(Names)
  BY <1>1, <1>5, SeqDef
<1>7. Steps \in Seq(Names)
  BY <1>3, <1>6, ConcatProperties
<1>8. Len(Steps) = 16
  BY <1>1, <1>3, <1>6, ConcatProperties
<1>9. \A n \in 1..10 + 6 :
        Steps[n] = IF n <= 10 THEN Tables[n] ELSE migrations[n - 10]
  BY <1>1, <1>3, <1>6, ConcatProperties
<1>10. DOMAIN Steps = 1..16
  BY <1>7, <1>8, LenProperties
<1>11. \A n \in 1..10 : Steps[n] = Tables[n]
  BY <1>9
<1>12. \A n \in 1..6 : Steps[10 + n] = migrations[n]
  BY <1>9
<1>. QED
  BY <1>2, <1>8, <1>10, <1>11, <1>12

\* The names of the tables.
LEMMA TableNames ==
  /\ ToSet(Tables) =
       {"databases", "destinations", "jobs", "job_destinations", "backups",
        "backup_destinations", "settings", "ping_state", "ping_incidents",
        "sessions"}
  /\ DOMAIN Tables = 1..10 /\ Tables[3] = "jobs" /\ Tables[5] = "backups"
  /\ \A n \in 1..10 : Tables[n] = "settings" <=> n = 7
<1>1. ToSet(Tables) =
       {"databases", "destinations", "jobs", "job_destinations", "backups",
        "backup_destinations", "settings", "ping_state", "ping_incidents",
        "sessions"}
  BY DEF ToSet, Tables
<1>2. DOMAIN Tables = 1..10 /\ Tables[3] = "jobs" /\ Tables[5] = "backups"
  BY DEF Tables
<1>3. \A n \in 1..10 : Tables[n] = "settings" <=> n = 7
  BY DEF Tables
<1>. QED
  BY <1>1, <1>2, <1>3

\* CREATE TABLE IF NOT EXISTS.
LEMMA CreatedKeeps ==
  ASSUME NEW file, Shape(file), NEW name \in ToSet(Tables),
         NEW new, new = Created(file, name)
  PROVE  /\ Keeps(file, new)
         /\ new.tables = file.tables \union {name}
<1>1. CASE name \in file.tables
  BY <1>1, Untouched DEF Created
<1>2. CASE name \notin file.tables /\ name = "jobs"
  <2>1. /\ IsFile(new) /\ new.tables = file.tables \union {name}
        /\ new.jobs = New(JobColumns)
        /\ new.backups = file.backups /\ new.nullable = file.nullable
        /\ new.endpoint = file.endpoint /\ new.jobLink = file.jobLink
        /\ new.backupLink = file.backupLink
    BY <1>2 DEF Created, Shape, IsFile
  <2>2. /\ TableShape(new.jobs) /\ new.jobs.columns = JobColumns
        /\ new.jobs.row = NoRow
    BY <2>1, ColumnsKnown, TableFields DEF New, TableShape
  <2>3. ~Old(file) /\ ~Old(new)
    BY <1>2, <2>2, JobSets DEF Shape, Old, Has
  <2>4. Shape(new)
    BY <1>2, <2>1, <2>2, <2>3, JobSets DEF Shape
  <2>5. SameOrder(file, new)
    BY <1>2, <2>1, <2>2, <2>3 DEF SameOrder, JobOrder, BackupOrder
  <2>6. Filling(file) => Filling(new)
    BY <2>1, <2>2, <2>3 DEF Filling, InPlace
  <2>. QED
    BY <2>1, <2>2, <2>3, <2>4, <2>5, <2>6 DEF Keeps, Runnable, Linked
<1>3. CASE name \notin file.tables /\ name = "backups"
  <2>1. /\ IsFile(new) /\ new.tables = file.tables \union {name}
        /\ new.backups = New(BackupColumns) /\ new.nullable = TRUE
        /\ new.jobs = file.jobs
        /\ new.endpoint = file.endpoint /\ new.jobLink = file.jobLink
        /\ new.backupLink = file.backupLink
    BY <1>3 DEF Created, Shape, IsFile
  <2>2. /\ TableShape(new.backups) /\ new.backups.columns = BackupColumns
        /\ new.backups.row = NoRow
    BY <2>1, ColumnsKnown, TableFields DEF New, TableShape
  <2>3. ~Old(file) /\ ~Old(new)
    BY <1>3, <2>1 DEF Shape, Old
  <2>4. Shape(new)
    BY <1>3, <2>1, <2>2, <2>3, BackupSets DEF Shape
  <2>5. SameOrder(file, new)
    BY <1>3, <2>1, <2>2, <2>3 DEF SameOrder, JobOrder, BackupOrder
  <2>6. Filling(file) => Filling(new)
    BY <2>1, <2>2, <2>3 DEF Filling, InPlace
  <2>. QED
    BY <2>1, <2>2, <2>3, <2>4, <2>5, <2>6 DEF Keeps, Runnable, Linked
<1>4. CASE name \notin file.tables /\ name \notin {"jobs", "backups"}
  <2>1. /\ IsFile(new) /\ new.tables = file.tables \union {name}
        /\ new.jobs = file.jobs /\ new.backups = file.backups
        /\ new.nullable = file.nullable
        /\ new.endpoint = file.endpoint /\ new.jobLink = file.jobLink
        /\ new.backupLink = file.backupLink
    BY <1>4 DEF Created, Shape, IsFile
  <2>2. Old(file) <=> Old(new)
    BY <2>1 DEF Old
  <2>3. Shape(new)
    BY <1>4, <2>1, <2>2 DEF Shape
  <2>4. SameOrder(file, new)
    BY <1>4, <2>1, <2>2 DEF SameOrder, JobOrder, BackupOrder
  <2>. QED
    BY <2>1, <2>2, <2>3, <2>4 DEF Keeps, Filling, Runnable, Linked
<1>. QED
  BY <1>1, <1>2, <1>3, <1>4

\* Every column may hold its own name, a flag its two values.
LEMMA ContentsOf ==
  /\ Contents("dest_local") = {"yes", "no"}
  /\ "database_id" \in Contents("database_id")
  /\ "yes" \in Contents("enabled") /\ "Local" \in Contents("timezone")
  /\ "0" \in Contents("s3_upload_ms") /\ "-1" \in Contents("row_count")
BY DEF Contents, Flags

\* The jobs of migrateV1: the fallback to local is written first, the new column
\* is added, the two old ones dropped.
LEMMA JobsOfV1 ==
  ASSUME NEW file, Shape(file), Old(file),
         NEW new, new = MigrateV1(file)
  PROVE  /\ TableShape(new.jobs)
         /\ new.jobs.columns = JobsMigrated(file.jobs.columns)
         /\ ToSet(new.jobs.columns) = ToSet(JobColumns) \ LateJobs
         /\ new.jobs.row # NoRow =>
              \A x \in ToSet(new.jobs.columns) :
                new.jobs.row[x] = IF x = "database_id" THEN "database_id"
                                  ELSE IF x = "dest_local" THEN DestLocal(file)
                                  ELSE file.jobs.row[x]
<1>. DEFINE row == [file.jobs.row EXCEPT !["dest_local"] = DestLocal(file)]
            jobs == [file.jobs EXCEPT !.row = row]
            added == Added(jobs, "database_id", "database_id")
            dropped == Dropped(added, "login")
<1>1. new.jobs = Dropped(dropped, "dest_s3")
  BY DEF MigrateV1, Old, Shape, IsFile
<1>2. TableShape(file.jobs) /\ Full(file.jobs)
      /\ ToSet(file.jobs.columns) = ToSet(JobColumnsV1)
  BY DEF Shape
<1>3. jobs = Table(file.jobs.columns, row)
  BY <1>2 DEF TableShape, Table
<1>4. /\ row = [x \in ToSet(file.jobs.columns) |-> row[x]]
      /\ \A x \in ToSet(file.jobs.columns) :
           row[x] = IF x = "dest_local" THEN DestLocal(file)
                    ELSE file.jobs.row[x]
  BY <1>2 DEF Full
<1>. HIDE DEF row
<1>5. /\ TableShape(jobs) /\ jobs.columns = file.jobs.columns
      /\ jobs.row = row
  <2>1. /\ jobs.columns = file.jobs.columns /\ jobs.row = row
        /\ jobs = Table(jobs.columns, jobs.row)
    BY <1>3, TableFields
  <2>. HIDE DEF jobs
  <2>. QED
    BY <2>1, <1>2, <1>4 DEF TableShape, Full
<1>6. "database_id" \in ColumnNames
  BY JobSets DEF ColumnNames
<1>. HIDE DEF jobs
<1>7. /\ TableShape(added)
      /\ added.columns = Longer(jobs.columns, "database_id")
      /\ ToSet(added.columns) = ToSet(jobs.columns) \union {"database_id"}
      /\ added.row # NoRow =>
           \A x \in ToSet(added.columns) :
             added.row[x] = IF x \in ToSet(jobs.columns)
                            THEN jobs.row[x] ELSE "database_id"
  BY <1>5, <1>6, TableAdded
<1>. HIDE DEF added
<1>8. /\ TableShape(dropped)
      /\ dropped.columns = RemoveFirst(added.columns, "login")
      /\ ToSet(dropped.columns) = ToSet(added.columns) \ {"login"}
      /\ dropped.row # NoRow =>
           /\ added.row # NoRow
           /\ \A x \in ToSet(dropped.columns) : dropped.row[x] = added.row[x]
  BY <1>7, TableDropped
<1>. HIDE DEF dropped
<1>9. /\ TableShape(new.jobs)
      /\ new.jobs.columns = RemoveFirst(dropped.columns, "dest_s3")
      /\ ToSet(new.jobs.columns) = ToSet(dropped.columns) \ {"dest_s3"}
      /\ new.jobs.row # NoRow =>
           /\ dropped.row # NoRow
           /\ \A x \in ToSet(new.jobs.columns) :
                new.jobs.row[x] = dropped.row[x]
  BY <1>1, <1>8, TableDropped
<1>10. new.jobs.columns = JobsMigrated(file.jobs.columns)
  BY <1>5, <1>7, <1>8, <1>9 DEF JobsMigrated
<1>11. ToSet(new.jobs.columns) =
         (ToSet(JobColumnsV1) \union {"database_id"}) \ {"login", "dest_s3"}
  BY <1>2, <1>5, <1>7, <1>8, <1>9
<1>12. ToSet(new.jobs.columns) = ToSet(JobColumns) \ LateJobs
  BY <1>11, JobSets DEF LateJobs
<1>13. ASSUME new.jobs.row # NoRow, NEW x \in ToSet(new.jobs.columns)
       PROVE  new.jobs.row[x] = IF x = "database_id" THEN "database_id"
                                ELSE IF x = "dest_local" THEN DestLocal(file)
                                ELSE file.jobs.row[x]
  <2>1. /\ x \in ToSet(dropped.columns) /\ x \in ToSet(added.columns)
        /\ new.jobs.row[x] = added.row[x] /\ added.row # NoRow
    BY <1>13, <1>8, <1>9
  <2>2. new.jobs.row[x] = IF x \in ToSet(JobColumnsV1) THEN row[x]
                          ELSE "database_id"
    BY <2>1, <1>2, <1>5, <1>7
  <2>3. x \in ToSet(JobColumnsV1) <=> x # "database_id"
    BY <1>11, <1>13, JobSets
  <2>. QED
    BY <2>2, <2>3, <1>2, <1>4
<1>. QED
  BY <1>9, <1>10, <1>12, <1>13

\* migrateV1.
LEMMA MigratedV1 ==
  ASSUME NEW file, Shape(file), NEW new, new = MigrateV1(file)
  PROVE  /\ Keeps(file, new) /\ ~Old(new)
         /\ new.tables = IF new = file THEN file.tables
                         ELSE file.tables \ {"settings"}
<1>1. CASE ~Old(file)
  BY <1>1, Untouched DEF MigrateV1, Old
<1>2. CASE Old(file)
  <2>. DEFINE destination == file.endpoint
              kept == file.backups.row["stored_s3"] = "yes"
  <2>1. /\ IsFile(new)
        /\ new.tables = file.tables \ {"settings"}
        /\ new.backups = Dropped(file.backups, "stored_s3")
        /\ new.nullable = file.nullable
        /\ new.jobLink = (destination /\ file.jobs.row["dest_s3"] = "yes")
        /\ new.backupLink = (destination /\ kept)
    BY <1>2 DEF MigrateV1, Old, Shape, IsFile
  <2>2. /\ TableShape(new.jobs)
        /\ new.jobs.columns = JobsMigrated(file.jobs.columns)
        /\ ToSet(new.jobs.columns) = ToSet(JobColumns) \ LateJobs
        /\ new.jobs.row # NoRow =>
             \A x \in ToSet(new.jobs.columns) :
               new.jobs.row[x] = IF x = "database_id" THEN "database_id"
                                 ELSE IF x = "dest_local" THEN DestLocal(file)
                                 ELSE file.jobs.row[x]
    BY <1>2, JobsOfV1
  <2>3. /\ TableShape(new.backups)
        /\ ToSet(new.backups.columns) =
             ToSet(file.backups.columns) \ {"stored_s3"}
        /\ new.backups.row # NoRow =>
             \A x \in ToSet(new.backups.columns) :
               new.backups.row[x] = file.backups.row[x]
    BY <2>1, TableDropped DEF Shape
  <2>4. ~Old(new)
    BY <2>2, JobSets DEF Old, Has
  <2>5. /\ {"jobs", "backups"} \subseteq file.tables
        /\ {"jobs", "backups"} \subseteq new.tables
        /\ ~file.nullable
    BY <1>2, <2>1 DEF Shape
  <2>6. ToSet(new.backups.columns) = ToSet(BackupColumns) \ LateBackups
    <3>1. ToSet(new.backups.columns) = ToSet(BackupColumnsV1) \ {"stored_s3"}
      BY <1>2, <2>3 DEF Shape
    <3>. QED
      BY <3>1, BackupSets DEF LateBackups
  <2>7. Shape(new)
    BY <2>1, <2>2, <2>3, <2>4, <2>5, <2>6 DEF Shape
  <2>8. SameOrder(file, new)
    BY <1>2, <2>1, <2>2, <2>4, <2>5 DEF SameOrder, JobOrder, BackupOrder
  <2>9. ASSUME Filling(file)
        PROVE  Filling(new)
    <3>1. /\ \A c \in ToSet(file.jobs.columns) :
               file.jobs.row[c] \in Contents(c)
          /\ \A c \in ToSet(file.backups.columns) :
               file.backups.row[c] \in Contents(c)
      BY <1>2, <2>9 DEF Filling
    <3>2. ToSet(new.jobs.columns) \subseteq
            ToSet(file.jobs.columns) \union {"database_id"}
      BY <1>2, <2>2, JobSets DEF Shape, LateJobs
    <3>3. "dest_local" \in ToSet(file.jobs.columns)
      BY <1>2, JobSets DEF Shape
    <3>4. DestLocal(file) \in Contents("dest_local")
      BY <3>1, <3>3, ContentsOf DEF DestLocal
    <3>5. InPlace(new.jobs)
      BY <2>2, <3>1, <3>2, <3>4, ContentsOf DEF InPlace
    <3>6. InPlace(new.backups)
      BY <2>3, <3>1 DEF InPlace
    <3>. QED
      BY <3>5, <3>6, <2>4 DEF Filling
  <2>10. ASSUME Runnable(file)
         PROVE  Runnable(new)
    <3>1. "dest_local" \in ToSet(new.jobs.columns)
      BY <2>2, JobSets DEF LateJobs
    <3>2. new.jobs.row # NoRow => new.jobs.row["dest_local"] = DestLocal(file)
      BY <2>2, <3>1
    <3>. QED
      BY <1>2, <2>1, <2>4, <2>10, <3>2 DEF Runnable, DestLocal
  <2>11. \A known \in BOOLEAN : Linked(file, known) => Linked(new, known)
    BY <1>2, <2>1, <2>4 DEF Linked
  <2>. QED
    BY <2>1, <2>4, <2>7, <2>8, <2>9, <2>10, <2>11 DEF Keeps
<1>. QED
  BY <1>1, <1>2

\* migrateV2, after migrateV1.
LEMMA MigratedV2 ==
  ASSUME NEW file, Shape(file), ~Old(file), NEW new, new = MigrateV2(file)
  PROVE  /\ Keeps(file, new) /\ ~Old(new) /\ new.nullable
         /\ new.tables = file.tables
<1>1. CASE file.nullable
  BY <1>1, Untouched DEF MigrateV2
<1>2. CASE ~file.nullable
  <2>. DEFINE old == file.backups.row
              row == [c \in ToSet(BackupColumnsV2) |->
                        IF c = "row_count" THEN "-1" ELSE old[c]]
  <2>1. /\ IsFile(new) /\ new.tables = file.tables /\ new.nullable = TRUE
        /\ new.jobs = file.jobs
        /\ new.backups = Table(BackupColumnsV2,
                               IF old = NoRow THEN NoRow ELSE row)
        /\ new.jobLink = file.jobLink /\ new.backupLink = file.backupLink
    BY <1>2 DEF MigrateV2, Shape, IsFile, RebuiltFrom, LinksAfterRebuild
  <2>2. /\ row = [c \in ToSet(BackupColumnsV2) |-> row[c]]
        /\ \A c \in ToSet(BackupColumnsV2) :
             row[c] = IF c = "row_count" THEN "-1" ELSE old[c]
    OBVIOUS
  <2>. HIDE DEF row
  <2>3. /\ new.backups.columns = BackupColumnsV2
        /\ new.backups.row = IF old = NoRow THEN NoRow ELSE row
        /\ new.backups = Table(new.backups.columns, new.backups.row)
    BY <2>1, TableFields
  <2>4. TableShape(new.backups)
    BY <2>2, <2>3, ColumnsKnown DEF TableShape, Full
  <2>5. ~Old(new)
    BY <2>1 DEF Old
  <2>6. "backups" \in file.tables
        /\ ToSet(file.backups.columns) = ToSet(BackupColumns) \ LateBackups
    BY <1>2 DEF Shape
  <2>7. /\ ToSet(BackupColumns) \ LateBackups \subseteq ToSet(BackupColumnsV2)
        /\ ToSet(BackupColumnsV2) \subseteq ToSet(BackupColumns)
    BY BackupSets DEF LateBackups
  <2>8. Shape(new)
    BY <2>1, <2>3, <2>4, <2>5, <2>7 DEF Shape
  <2>9. SameOrder(file, new)
    BY <1>2, <2>1, <2>3, <2>5, <2>6 DEF SameOrder, JobOrder, BackupOrder
  <2>10. ASSUME Filling(file)
         PROVE  Filling(new)
    <3>1. \A c \in ToSet(BackupColumnsV2) \ {"row_count"} :
            c \in ToSet(file.backups.columns)
      BY <2>6, BackupSets DEF LateBackups
    <3>2. InPlace(new.backups)
      BY <2>2, <2>3, <2>10, <3>1, ContentsOf DEF Filling, InPlace
    <3>. QED
      BY <2>1, <2>5, <2>10, <3>2 DEF Filling
  <2>. QED
    BY <2>1, <2>3, <2>5, <2>8, <2>9, <2>10 DEF Keeps, Runnable, Linked
<1>. QED
  BY <1>1, <1>2

\* migrateV3 and migrateV6: a column more in jobs, in the order of Open.
LEMMA JobsWiden ==
  ASSUME NEW file, Shape(file), ~Old(file), "jobs" \in file.tables,
         NEW c \in LateJobs, c = "enabled" \/ Has(file.jobs, "enabled"),
         NEW default \in Contents(c),
         NEW new, new = [file EXCEPT !.jobs = Added(@, c, default)]
  PROVE  /\ Keeps(file, new) /\ ~Old(new)
         /\ Has(new.jobs, c) /\ Has(new.jobs, "enabled")
         /\ new.tables = file.tables /\ new.backups = file.backups
         /\ new.nullable = file.nullable
<1>1. /\ IsFile(new) /\ new.jobs = Added(file.jobs, c, default)
      /\ new.tables = file.tables /\ new.backups = file.backups
      /\ new.nullable = file.nullable /\ new.jobLink = file.jobLink
      /\ new.backupLink = file.backupLink
  BY DEF Shape, IsFile
<1>2. c \in ColumnNames /\ c \in ToSet(JobColumns) /\ c # "login"
      /\ c # "dest_local"
  BY JobSets DEF ColumnNames, LateJobs
<1>3. /\ TableShape(new.jobs)
      /\ new.jobs.columns = Longer(file.jobs.columns, c)
      /\ ToSet(new.jobs.columns) = ToSet(file.jobs.columns) \union {c}
      /\ new.jobs.row # NoRow =>
           /\ file.jobs.row # NoRow
           /\ \A x \in ToSet(new.jobs.columns) :
                new.jobs.row[x] = IF x \in ToSet(file.jobs.columns)
                                  THEN file.jobs.row[x] ELSE default
  BY <1>1, <1>2, TableAdded DEF Shape
<1>4. ~Old(new)
  BY <1>2, <1>3 DEF Old, Has
<1>5. Shape(new)
  BY <1>1, <1>2, <1>3, <1>4 DEF Shape
<1>6. SameOrder(file, new)
  <2>1. CASE c = "enabled"
    <3>1. Longer(Longer(file.jobs.columns, c), c) =
            Longer(file.jobs.columns, c)
      BY <1>3 DEF Longer
    <3>. QED
      BY <2>1, <3>1, <1>1, <1>3, <1>4 DEF SameOrder, JobOrder, BackupOrder
  <2>2. CASE c = "timezone" /\ Has(file.jobs, "enabled")
    <3>1. /\ Longer(file.jobs.columns, "enabled") = file.jobs.columns
          /\ Longer(new.jobs.columns, "enabled") = new.jobs.columns
          /\ Longer(new.jobs.columns, c) = new.jobs.columns
      BY <2>2, <1>3 DEF Longer, Has
    <3>. QED
      BY <2>2, <3>1, <1>1, <1>3, <1>4 DEF SameOrder, JobOrder, BackupOrder
  <2>. QED
    BY <2>1, <2>2 DEF LateJobs
<1>7. Filling(file) => Filling(new)
  BY <1>1, <1>3, <1>4 DEF Filling, InPlace
<1>8. Runnable(file) => Runnable(new)
  <2>1. /\ "dest_local" \in ToSet(file.jobs.columns)
        /\ "dest_local" \in ToSet(new.jobs.columns)
    BY <1>3, JobSets DEF Shape, LateJobs
  <2>. QED
    BY <2>1, <1>1, <1>3, <1>4 DEF Runnable
<1>9. Has(new.jobs, c) /\ Has(new.jobs, "enabled")
  BY <1>3 DEF Has
<1>. QED
  BY <1>1, <1>4, <1>5, <1>6, <1>7, <1>8, <1>9 DEF Keeps, Linked

\* migrateV4 and migrateV5: a column more in backups, in the order of Open.
LEMMA BackupsWiden ==
  ASSUME NEW file, Shape(file), ~Old(file), file.nullable,
         "backups" \in file.tables, NEW c \in LateBackups,
         c = "s3_upload_ms" \/ Has(file.backups, "s3_upload_ms"),
         NEW default \in Contents(c),
         NEW new, new = [file EXCEPT !.backups = Added(@, c, default)]
  PROVE  /\ Keeps(file, new) /\ ~Old(new)
         /\ ToSet(new.backups.columns) =
              ToSet(file.backups.columns) \union {c}
         /\ new.tables = file.tables /\ new.jobs = file.jobs /\ new.nullable
<1>1. /\ IsFile(new) /\ new.backups = Added(file.backups, c, default)
      /\ new.tables = file.tables /\ new.jobs = file.jobs
      /\ new.nullable = file.nullable /\ new.jobLink = file.jobLink
      /\ new.backupLink = file.backupLink
  BY DEF Shape, IsFile
<1>2. c \in ColumnNames /\ c \in ToSet(BackupColumns)
  BY BackupSets DEF ColumnNames, LateBackups
<1>3. /\ TableShape(new.backups)
      /\ new.backups.columns = Longer(file.backups.columns, c)
      /\ ToSet(new.backups.columns) = ToSet(file.backups.columns) \union {c}
      /\ new.backups.row # NoRow =>
           /\ file.backups.row # NoRow
           /\ \A x \in ToSet(new.backups.columns) :
                new.backups.row[x] = IF x \in ToSet(file.backups.columns)
                                     THEN file.backups.row[x] ELSE default
  BY <1>1, <1>2, TableAdded DEF Shape
<1>4. ~Old(new)
  BY <1>1 DEF Old
<1>5. Shape(new)
  BY <1>1, <1>2, <1>3, <1>4 DEF Shape
<1>6. SameOrder(file, new)
  <2>1. CASE c = "s3_upload_ms"
    <3>1. Longer(Longer(file.backups.columns, c), c) =
            Longer(file.backups.columns, c)
      BY <1>3 DEF Longer
    <3>. QED
      BY <2>1, <3>1, <1>1, <1>3, <1>4 DEF SameOrder, JobOrder, BackupOrder
  <2>2. CASE c = "row_count" /\ Has(file.backups, "s3_upload_ms")
    <3>1. /\ Longer(file.backups.columns, "s3_upload_ms") =
               file.backups.columns
          /\ Longer(new.backups.columns, "s3_upload_ms") = new.backups.columns
          /\ Longer(new.backups.columns, c) = new.backups.columns
      BY <2>2, <1>3 DEF Longer, Has
    <3>. QED
      BY <2>2, <3>1, <1>1, <1>3, <1>4 DEF SameOrder, JobOrder, BackupOrder
  <2>. QED
    BY <2>1, <2>2 DEF LateBackups
<1>7. Filling(file) => Filling(new)
  BY <1>1, <1>3, <1>4 DEF Filling, InPlace
<1>. QED
  BY <1>1, <1>3, <1>4, <1>5, <1>6, <1>7 DEF Keeps, Runnable, Linked

\* One step of Open, from what the steps before it have done.
LEMMA StepKeeps ==
  ASSUME NEW file, Shape(file), NEW n \in 1..16,
         NEW spared, spared \subseteq {"settings"}, Reached(n, file, spared),
         NEW new, new = Applied(Steps[n], file),
         NEW more, more = IF n = 11 /\ new # file THEN {"settings"} ELSE {}
  PROVE  Keeps(file, new) /\ Reached(n + 1, new, spared \union more)
<1>1. ASSUME n > 11
      PROVE  /\ ~Old(file) /\ {"jobs", "backups"} \subseteq file.tables
             /\ \A m \in 1..10 : Tables[m] \in file.tables \union spared
  <2>1. /\ ~Old(file)
        /\ \A m \in 1..10 : Tables[m] \in file.tables \union spared
    BY <1>1 DEF Reached
  <2>. QED
    BY <2>1, TableNames
<1>2. CASE n \in 1..10
  <2>1. /\ Tables[n] \in ToSet(Tables)
        /\ Tables[n] \notin {"v1", "v2", "v3", "v4", "v5", "v6"}
    <3>1. Tables[n] \in ToSet(Tables)
      BY <1>2, TableNames DEF ToSet
    <3>. QED
      BY <3>1, TableNames
  <2>2. new = Created(file, Tables[n])
    BY <1>2, <2>1, StepNames DEF Applied
  <2>3. Keeps(file, new) /\ new.tables = file.tables \union {Tables[n]}
    BY <2>1, <2>2, CreatedKeeps
  <2>4. \A m \in 1..10 : m < n + 1 => Tables[m] \in new.tables \union spared
    BY <1>2, <2>3 DEF Reached
  <2>. QED
    BY <1>2, <2>3, <2>4 DEF Reached
<1>3. CASE n = 11
  <2>1. new = MigrateV1(file)
    BY <1>3, StepNames DEF Applied
  <2>2. /\ Keeps(file, new) /\ ~Old(new)
        /\ new.tables = IF new = file THEN file.tables
                        ELSE file.tables \ {"settings"}
    BY <2>1, MigratedV1
  <2>3. \A m \in 1..10 : Tables[m] \in file.tables \union spared
    BY <1>3 DEF Reached
  <2>4. \A m \in 1..10 : Tables[m] \in new.tables \union (spared \union more)
    BY <1>3, <2>2, <2>3
  <2>. QED
    BY <1>3, <2>2, <2>4 DEF Reached
<1>4. CASE n = 12
  <2>1. new = MigrateV2(file)
    BY <1>4, StepNames DEF Applied
  <2>2. /\ Keeps(file, new) /\ ~Old(new) /\ new.nullable
        /\ new.tables = file.tables
    BY <1>1, <1>4, <2>1, MigratedV2
  <2>. QED
    BY <1>1, <1>4, <2>2 DEF Reached
<1>5. CASE n = 13
  <2>1. new = [file EXCEPT !.jobs = Added(@, "enabled", "yes")]
    BY <1>5, StepNames DEF Applied
  <2>2. /\ Keeps(file, new) /\ ~Old(new)
        /\ Has(new.jobs, "enabled")
        /\ new.tables = file.tables /\ new.nullable = file.nullable
    BY <1>1, <1>5, <2>1, ContentsOf, JobsWiden DEF LateJobs
  <2>3. new.nullable /\ Has(new.jobs, "enabled")
    BY <1>5, <2>2 DEF Reached
  <2>4. \A m \in 1..10 : Tables[m] \in new.tables \union (spared \union more)
    BY <1>1, <1>5, <2>2
  <2>. QED
    BY <1>5, <2>2, <2>3, <2>4 DEF Reached
<1>6. CASE n = 14
  <2>1. new = [file EXCEPT !.backups = Added(@, "s3_upload_ms", "0")]
    BY <1>6, StepNames DEF Applied
  <2>2. file.nullable /\ Has(file.jobs, "enabled")
    BY <1>6 DEF Reached
  <2>3. /\ Keeps(file, new) /\ ~Old(new)
        /\ ToSet(new.backups.columns) =
             ToSet(file.backups.columns) \union {"s3_upload_ms"}
        /\ new.tables = file.tables /\ new.jobs = file.jobs /\ new.nullable
    BY <1>1, <1>6, <2>1, <2>2, ContentsOf, BackupsWiden DEF LateBackups
  <2>. QED
    BY <1>1, <1>6, <2>2, <2>3 DEF Reached, Has
<1>7. CASE n = 15
  <2>1. new = [file EXCEPT !.backups = Added(@, "row_count", "-1")]
    BY <1>7, StepNames DEF Applied
  <2>2. /\ file.nullable /\ Has(file.jobs, "enabled")
        /\ Has(file.backups, "s3_upload_ms")
    BY <1>7 DEF Reached
  <2>3. /\ Keeps(file, new) /\ ~Old(new)
        /\ ToSet(new.backups.columns) =
             ToSet(file.backups.columns) \union {"row_count"}
        /\ new.tables = file.tables /\ new.jobs = file.jobs /\ new.nullable
    BY <1>1, <1>7, <2>1, <2>2, ContentsOf, BackupsWiden DEF LateBackups
  <2>. QED
    BY <1>1, <1>7, <2>2, <2>3 DEF Reached, Has
<1>8. CASE n = 16
  <2>1. new = [file EXCEPT !.jobs = Added(@, "timezone", "Local")]
    BY <1>8, StepNames DEF Applied
  <2>2. /\ file.nullable /\ Has(file.jobs, "enabled")
        /\ Has(file.backups, "s3_upload_ms") /\ Has(file.backups, "row_count")
    BY <1>8 DEF Reached
  <2>3. /\ Keeps(file, new) /\ ~Old(new)
        /\ Has(new.jobs, "enabled") /\ Has(new.jobs, "timezone")
        /\ new.tables = file.tables /\ new.backups = file.backups
        /\ new.nullable = file.nullable
    <3>1. "timezone" \in LateJobs /\ "Local" \in Contents("timezone")
      BY ContentsOf DEF LateJobs
    <3>2. ~Old(file) /\ "jobs" \in file.tables /\ Has(file.jobs, "enabled")
      BY <1>1, <1>8, <2>2
    <3>3. Keeps(file, new) /\ ~Old(new)
      BY <2>1, <3>1, <3>2, JobsWiden
    <3>4. /\ new.tables = file.tables /\ new.backups = file.backups
          /\ new.nullable = file.nullable
      BY <2>1, <3>1, <3>2, JobsWiden
    <3>5. Has(new.jobs, "enabled") /\ Has(new.jobs, "timezone")
      BY <2>1, <3>1, <3>2, JobsWiden
    <3>. QED
      BY <3>3, <3>4, <3>5
  <2>4. \A m \in 1..10 : Tables[m] \in new.tables \union (spared \union more)
    BY <1>1, <1>8, <2>3
  <2>5. /\ new.nullable /\ Has(new.jobs, "enabled")
        /\ Has(new.backups, "s3_upload_ms") /\ Has(new.backups, "row_count")
        /\ Has(new.jobs, "timezone")
    BY <2>2, <2>3
  <2>. QED
    BY <1>8, <2>3, <2>4, <2>5 DEF Reached
<1>. QED
  BY <1>2, <1>3, <1>4, <1>5, <1>6, <1>7, <1>8

\* What a step keeps, two steps keep.
LEMMA KeepsTransitive ==
  ASSUME NEW file, NEW new, NEW newer, Keeps(file, new), Keeps(new, newer)
  PROVE  Keeps(file, newer)
BY DEF Keeps, SameOrder

\* An uploaded file goes through the steps one after the other.
LEMMA OpenedBySteps ==
  ASSUME NEW file
  PROVE  \E after :
           /\ after[0] = file /\ Opened(file) = after[16]
           /\ \A n \in 1..16 : after[n] = Applied(Steps[n], after[n - 1])
<1>. DEFINE Body(g, n) == [m \in 0..n |-> IF m = 0 THEN file
                                          ELSE Applied(Steps[m], g[m - 1])]
            Defined(n) == \E g : g = Body(g, n)
<1>1. Defined(0)
  <2>1. [m \in 0..0 |-> file] = Body([m \in 0..0 |-> file], 0)
    OBVIOUS
  <2>. QED
    BY <2>1
<1>2. ASSUME NEW n \in 0..15, Defined(n)
      PROVE  Defined(n + 1)
  <2>1. PICK g : g = Body(g, n)
    BY <1>2
  <2>. DEFINE h == [m \in 0..n + 1 |-> IF m = n + 1
                                       THEN Applied(Steps[m], g[n])
                                       ELSE g[m]]
  <2>2. ASSUME NEW m \in 0..n + 1
        PROVE  h[m] = IF m = 0 THEN file ELSE Applied(Steps[m], h[m - 1])
    <3>1. CASE m = n + 1
      BY <3>1
    <3>2. CASE m = 0
      BY <3>2, <2>1
    <3>3. CASE m \in 1..n
      <4>1. h[m] = g[m] /\ h[m - 1] = g[m - 1]
        BY <3>3
      <4>2. g[m] = Applied(Steps[m], g[m - 1])
        BY <3>3, <2>1
      <4>. QED
        BY <3>3, <4>1, <4>2
    <3>. QED
      BY <3>1, <3>2, <3>3
  <2>3. h = Body(h, n + 1)
    BY <2>2
  <2>. QED
    BY <2>3
<1>3. Defined(16)
  <2>. HIDE DEF Defined
  <2>1. \A n \in 0..15 : Defined(n) => Defined(n + 1)
    BY <1>2
  <2>2. Defined(4)
    BY <1>1, <2>1
  <2>3. Defined(8)
    BY <2>1, <2>2
  <2>4. Defined(12)
    BY <2>1, <2>3
  <2>. QED
    BY <2>1, <2>4
<1>. DEFINE after == CHOOSE g : g = Body(g, 16)
<1>4. after = Body(after, 16)
  BY <1>3, Zenon
<1>5. Opened(file) = after[16]
  BY StepNames, Zenon DEF Opened
<1>. HIDE DEF after
<1>6. /\ after[0] = file
      /\ \A n \in 1..16 : after[n] = Applied(Steps[n], after[n - 1])
  BY <1>4
<1>. QED
  BY <1>5, <1>6

\* An uploaded file, opened: its contents and links are its own, its columns in
\* the order they were bound to.
LEMMA OpenedKeeps ==
  ASSUME NEW file, Shape(file)
  PROVE  Keeps(file, Opened(file)) /\ Reached(17, Opened(file), {"settings"})
<1>1. PICK after :
        /\ after[0] = file /\ Opened(file) = after[16]
        /\ \A n \in 1..16 : after[n] = Applied(Steps[n], after[n - 1])
  BY OpenedBySteps
<1>. DEFINE Good(n) == /\ Keeps(file, after[n])
                       /\ Reached(n + 1, after[n], {"settings"})
<1>2. Good(0)
  BY <1>1, Untouched DEF Reached
<1>3. ASSUME NEW n \in 0..15, Good(n)
      PROVE  Good(n + 1)
  <2>. DEFINE more == IF n + 1 = 11 /\ after[n + 1] # after[n]
                      THEN {"settings"} ELSE {}
  <2>1. /\ n + 1 \in 1..16 /\ (n + 1) - 1 = n
        /\ after[n + 1] = Applied(Steps[n + 1], after[n])
    BY <1>1
  <2>2. Shape(after[n]) /\ Reached(n + 1, after[n], {"settings"})
    BY <1>3 DEF Keeps
  <2>3. {"settings"} \union more = {"settings"}
    OBVIOUS
  <2>4. /\ Keeps(after[n], after[n + 1])
        /\ Reached((n + 1) + 1, after[n + 1], {"settings"} \union more)
    BY <2>1, <2>2, StepKeeps, Zenon
  <2>. QED
    BY <2>3, <2>4, <1>3, KeepsTransitive
<1>4. Good(16)
  <2>. HIDE DEF Good
  <2>1. \A n \in 0..15 : Good(n) => Good(n + 1)
    BY <1>3
  <2>2. Good(4)
    BY <1>2, <2>1
  <2>3. Good(8)
    BY <2>1, <2>2
  <2>4. Good(12)
    BY <2>1, <2>3
  <2>. QED
    BY <2>1, <2>4
<1>. QED
  BY <1>1, <1>4

-----------------------------------------------------------------------------
(* The files the programs leave.                                           *)

\* A column a version does not have yet.
LEMMA UntilVersion ==
  ASSUME NEW version, NEW columns, Distinct(columns), NEW c,
         NEW known, known = Until(version, columns, c)
  PROVE  /\ Distinct(known)
         /\ ToSet(known) = IF Since(c) <= version THEN ToSet(columns)
                           ELSE ToSet(columns) \ {c}
BY ColumnDropped DEF Until

\* The columns of jobs and backups in a version since migrateV1.
LEMMA ColumnsOfVersion ==
  ASSUME NEW version \in 2..7
  PROVE  /\ Distinct(JobColumnsOf(version))
         /\ ToSet(JobColumns) \ LateJobs \subseteq ToSet(JobColumnsOf(version))
         /\ ToSet(JobColumnsOf(version)) \subseteq ToSet(JobColumns)
         /\ Distinct(BackupColumnsOf(version))
         /\ ToSet(BackupColumns) \ LateBackups \subseteq
              ToSet(BackupColumnsOf(version))
         /\ ToSet(BackupColumnsOf(version)) \subseteq ToSet(BackupColumns)
         /\ version = 2 => ToSet(BackupColumnsOf(version)) =
                             ToSet(BackupColumns) \ LateBackups
<1>. DEFINE jobs == Until(version, JobColumns, "enabled")
            backups == Until(version, BackupColumns, "s3_upload_ms")
<1>1. /\ JobColumnsOf(version) = Until(version, jobs, "timezone")
      /\ BackupColumnsOf(version) = Until(version, backups, "row_count")
  BY DEF JobColumnsOf, BackupColumnsOf
<1>2. Since("s3_upload_ms") = 5 /\ Since("row_count") = 6
  BY DEF Since
<1>. jobs = Until(version, JobColumns, "enabled")
  OBVIOUS
<1>. backups = Until(version, BackupColumns, "s3_upload_ms")
  OBVIOUS
<1>. HIDE DEF jobs, backups
<1>3. /\ Distinct(jobs)
      /\ ToSet(jobs) = IF Since("enabled") <= version THEN ToSet(JobColumns)
                       ELSE ToSet(JobColumns) \ {"enabled"}
  <2>1. Distinct(JobColumns)
    BY ColumnsKnown
  <2>. QED
    BY <2>1, UntilVersion
<1>4. /\ Distinct(backups)
      /\ ToSet(backups) = IF Since("s3_upload_ms") <= version
                          THEN ToSet(BackupColumns)
                          ELSE ToSet(BackupColumns) \ {"s3_upload_ms"}
  BY ColumnsKnown, UntilVersion
<1>5. /\ Distinct(JobColumnsOf(version))
      /\ ToSet(JobColumnsOf(version)) =
           IF Since("timezone") <= version THEN ToSet(jobs)
           ELSE ToSet(jobs) \ {"timezone"}
  BY <1>1, <1>3, UntilVersion
<1>6. /\ Distinct(BackupColumnsOf(version))
      /\ ToSet(BackupColumnsOf(version)) =
           IF Since("row_count") <= version THEN ToSet(backups)
           ELSE ToSet(backups) \ {"row_count"}
  BY <1>1, <1>4, UntilVersion
<1>7. /\ ToSet(JobColumns) \ LateJobs \subseteq ToSet(JobColumnsOf(version))
      /\ ToSet(JobColumnsOf(version)) \subseteq ToSet(JobColumns)
  BY <1>3, <1>5 DEF LateJobs
<1>8. /\ ToSet(BackupColumns) \ LateBackups \subseteq
           ToSet(BackupColumnsOf(version))
      /\ ToSet(BackupColumnsOf(version)) \subseteq ToSet(BackupColumns)
  BY <1>4, <1>6 DEF LateBackups
<1>9. version = 2 => ToSet(BackupColumnsOf(version)) =
                       ToSet(BackupColumns) \ LateBackups
  BY <1>2, <1>4, <1>6 DEF LateBackups
<1>. QED
  BY <1>5, <1>6, <1>7, <1>8, <1>9

\* A filled row has a content for every column.
LEMMA FilledTable ==
  ASSUME NEW columns, Distinct(columns), NEW flags,
         DOMAIN flags \subseteq Flags,
         \A c \in DOMAIN flags : flags[c] \in {"yes", "no"},
         NEW table, table = Table(columns, Filled(columns, flags))
  PROVE  /\ TableShape(table) /\ Full(table)
         /\ table.columns = columns
         /\ \A c \in ToSet(columns) : table.row[c] \in Contents(c)
         /\ \A c \in ToSet(columns) \intersect DOMAIN flags :
              table.row[c] = flags[c]
<1>. DEFINE row == Filled(columns, flags)
<1>1. /\ row = [c \in ToSet(columns) |-> row[c]]
      /\ \A c \in ToSet(columns) :
           row[c] = IF c \in DOMAIN flags THEN flags[c]
                    ELSE IF c \in Flags THEN "yes" ELSE c
  BY DEF Filled
<1>. HIDE DEF row
<1>2. /\ table.columns = columns /\ table.row = row
      /\ table = Table(table.columns, table.row)
  BY TableFields DEF row
<1>3. \A c \in ToSet(columns) : row[c] \in Contents(c)
  BY <1>1 DEF Contents
<1>. QED
  BY <1>1, <1>2, <1>3 DEF TableShape, Full

\* The file before the first Open.
LEMMA EmptyFileOK ==
  /\ Shape(EmptyFile) /\ Filling(EmptyFile) /\ Runnable(EmptyFile)
  /\ ~Old(EmptyFile) /\ EmptyFile.backups.row = NoRow
  /\ EmptyFile.endpoint = FALSE /\ EmptyFile.backupLink = FALSE
  /\ ~Valid(EmptyFile)
<1>1. /\ IsFile(EmptyFile) /\ EmptyFile.tables = {}
      /\ EmptyFile.jobs = New(<<>>) /\ EmptyFile.backups = New(<<>>)
      /\ EmptyFile.nullable = TRUE /\ EmptyFile.endpoint = FALSE
      /\ EmptyFile.backupLink = FALSE
  BY DEF EmptyFile, IsFile
<1>2. ToSet(<<>>) = {} /\ Distinct(<<>>)
  BY DEF ToSet, Distinct, IsInjective
<1>3. /\ TableShape(EmptyFile.jobs) /\ TableShape(EmptyFile.backups)
      /\ EmptyFile.jobs.columns = <<>> /\ EmptyFile.jobs.row = NoRow
      /\ EmptyFile.backups.row = NoRow
  BY <1>1, <1>2, TableFields DEF New, TableShape
<1>4. ~Old(EmptyFile)
  BY <1>2, <1>3 DEF Old, Has
<1>5. ~Valid(EmptyFile)
  BY <1>1 DEF Valid
<1>. QED
  BY <1>1, <1>3, <1>4, <1>5 DEF Shape, Filling, InPlace, Runnable

\* The file of a version, whatever its user has set up.
LEMMA FileOK ==
  ASSUME NEW version \in 1..7, NEW setup \in Setups(version),
         NEW file, file = FileOf(version, setup),
         NEW known \in BOOLEAN,
         known <=> \/ file.backupLink
                   \/ file.endpoint /\ file.backups.row["stored_s3"] = "yes"
  PROVE  /\ Shape(file) /\ Filling(file) /\ Runnable(file)
         /\ Linked(file, known)
         /\ version = 1 => ~Valid(file)
<1>. DEFINE jobFlags == [dest_local |-> setup.local, dest_s3 |-> setup.s3]
            backupFlags == [stored_local |-> "yes", stored_s3 |-> setup.s3]
            jobColumns == JobColumnsOf(version)
            backupColumns == BackupColumnsOf(version)
<1>1. /\ setup.local \in {"yes", "no"} /\ setup.s3 \in {"yes", "no"}
      /\ setup.endpoint \in BOOLEAN
      /\ setup.local = "yes" \/ setup.s3 = "yes"
  BY DEF Setups
<1>2. /\ IsFile(file)
      /\ file.tables = IF version = 1 THEN OldTables ELSE ToSet(Tables)
      /\ file.jobs = Table(jobColumns, Filled(jobColumns, jobFlags))
      /\ file.backups =
           Table(backupColumns, Filled(backupColumns, backupFlags))
      /\ file.nullable <=> version > 2
      /\ file.endpoint <=> version = 1 /\ setup.endpoint
      /\ file.jobLink <=> version # 1 /\ setup.s3 = "yes"
      /\ file.backupLink = (version # 1 /\ setup.s3 = "yes")
      /\ file.backupLink <=> version # 1 /\ setup.s3 = "yes"
  BY DEF FileOf, IsFile
<1>3. /\ DOMAIN jobFlags = {"dest_local", "dest_s3"}
      /\ jobFlags["dest_local"] = setup.local
      /\ jobFlags["dest_s3"] = setup.s3
      /\ DOMAIN backupFlags = {"stored_local", "stored_s3"}
      /\ backupFlags["stored_local"] = "yes"
      /\ backupFlags["stored_s3"] = setup.s3
  OBVIOUS
<1>. HIDE DEF jobFlags, backupFlags
<1>4. Distinct(jobColumns) /\ Distinct(backupColumns)
  <2>1. CASE version = 1
    BY <2>1, ColumnsKnown DEF JobColumnsOf, BackupColumnsOf
  <2>2. CASE version \in 2..7
    BY <2>2, ColumnsOfVersion
  <2>. QED
    BY <2>1, <2>2
<1>. HIDE DEF jobColumns, backupColumns
<1>5. /\ TableShape(file.jobs) /\ Full(file.jobs)
      /\ file.jobs.columns = jobColumns
      /\ \A c \in ToSet(jobColumns) : file.jobs.row[c] \in Contents(c)
      /\ \A c \in ToSet(jobColumns) \intersect DOMAIN jobFlags :
           file.jobs.row[c] = jobFlags[c]
  <2>1. /\ DOMAIN jobFlags \subseteq Flags
        /\ \A c \in DOMAIN jobFlags : jobFlags[c] \in {"yes", "no"}
    BY <1>1, <1>3 DEF Flags
  <2>. QED
    BY <2>1, <1>2, <1>4, FilledTable
<1>6. /\ TableShape(file.backups) /\ Full(file.backups)
      /\ file.backups.columns = backupColumns
      /\ \A c \in ToSet(backupColumns) : file.backups.row[c] \in Contents(c)
      /\ \A c \in ToSet(backupColumns) \intersect DOMAIN backupFlags :
           file.backups.row[c] = backupFlags[c]
  <2>1. /\ DOMAIN backupFlags \subseteq Flags
        /\ \A c \in DOMAIN backupFlags : backupFlags[c] \in {"yes", "no"}
    BY <1>1, <1>3 DEF Flags
  <2>. QED
    BY <2>1, <1>2, <1>4, FilledTable
<1>7. Filling(file)
  BY <1>5, <1>6 DEF Filling, InPlace
<1>8. CASE version = 1
  <2>1. jobColumns = JobColumnsV1 /\ backupColumns = BackupColumnsV1
    BY <1>8 DEF jobColumns, backupColumns, JobColumnsOf, BackupColumnsOf
  <2>2. Old(file)
    BY <2>1, <1>5, JobSets DEF Old, Has
  <2>3. Shape(file)
    BY <2>1, <2>2, <1>2, <1>5, <1>6, <1>8, TableNames DEF Shape, OldTables
  <2>4. Runnable(file)
    BY <2>1, <2>2, <1>1, <1>3, <1>5, JobSets DEF Runnable
  <2>5. ~Valid(file)
    BY <1>2, <1>8 DEF Valid, OldTables
  <2>. QED
    BY <2>2, <2>3, <2>4, <2>5, <1>2, <1>7, <1>8 DEF Linked
<1>9. CASE version \in 2..7
  <2>1. /\ ToSet(JobColumns) \ LateJobs \subseteq ToSet(jobColumns)
        /\ ToSet(jobColumns) \subseteq ToSet(JobColumns)
        /\ ToSet(BackupColumns) \ LateBackups \subseteq ToSet(backupColumns)
        /\ ToSet(backupColumns) \subseteq ToSet(BackupColumns)
        /\ version = 2 =>
             ToSet(backupColumns) = ToSet(BackupColumns) \ LateBackups
    BY <1>9, ColumnsOfVersion DEF jobColumns, backupColumns
  <2>2. ~Old(file) /\ "dest_local" \in ToSet(jobColumns)
    BY <2>1, <1>5, JobSets DEF Old, Has, LateJobs
  <2>3. Shape(file)
    BY <2>1, <2>2, <1>2, <1>5, <1>6, <1>9, TableNames DEF Shape
  <2>4. Runnable(file)
    BY <2>2, <1>1, <1>2, <1>3, <1>5, <1>9 DEF Runnable
  <2>. QED
    BY <2>2, <2>3, <2>4, <1>2, <1>7, <1>9 DEF Linked
<1>. QED
  BY <1>8, <1>9

\* Every file the user may start with.
LEMMA FilesOK ==
  ASSUME NEW version \in 0..7, NEW file \in FilesOf(version),
         NEW known \in BOOLEAN,
         known <=> \/ file.backupLink
                   \/ file.endpoint /\ file.backups.row["stored_s3"] = "yes"
  PROVE  /\ Shape(file) /\ Filling(file) /\ Runnable(file)
         /\ Linked(file, known)
         /\ version \in {0, 1} => ~Valid(file)
<1>1. CASE version = 0
  <2>1. file = EmptyFile
    BY <1>1 DEF FilesOf
  <2>. QED
    BY <2>1, EmptyFileOK DEF Linked
<1>2. CASE version \in 1..7
  <2>1. PICK setup \in Setups(version) : file = FileOf(version, setup)
    BY <1>2 DEF FilesOf
  <2>. QED
    BY <1>2, <2>1, FileOK
<1>. QED
  BY <1>1, <1>2

-----------------------------------------------------------------------------
(* The live file.                                                          *)

\* A file that went through all the steps has every column.
LEMMA AllColumns ==
  ASSUME NEW file, Shape(file), Reached(17, file, {"settings"})
  PROVE  /\ ToSet(Tables) \ file.tables \subseteq {"settings"}
         /\ ~Old(file) /\ file.nullable
         /\ ToSet(file.jobs.columns) = ToSet(JobColumns)
         /\ ToSet(file.backups.columns) = ToSet(BackupColumns)
         /\ JobOrder(file) = file.jobs.columns
         /\ BackupOrder(file) = file.backups.columns
<1>1. /\ \A m \in 1..10 : Tables[m] \in file.tables \union {"settings"}
      /\ ~Old(file) /\ file.nullable
      /\ {"enabled", "timezone"} \subseteq ToSet(file.jobs.columns)
      /\ {"s3_upload_ms", "row_count"} \subseteq ToSet(file.backups.columns)
  BY DEF Reached, Has
<1>2. ToSet(Tables) \ file.tables \subseteq {"settings"}
  BY <1>1, TableNames DEF ToSet
<1>3. {"jobs", "backups"} \subseteq file.tables
  BY <1>2, TableNames
<1>4. ToSet(file.jobs.columns) = ToSet(JobColumns)
  BY <1>1, <1>3 DEF Shape, LateJobs
<1>5. ToSet(file.backups.columns) = ToSet(BackupColumns)
  BY <1>1, <1>3 DEF Shape, LateBackups
<1>6. JobOrder(file) = file.jobs.columns
  BY <1>1, <1>3 DEF JobOrder, Longer
<1>7. BackupOrder(file) = file.backups.columns
  BY <1>1, <1>3 DEF BackupOrder, Longer
<1>. QED
  BY <1>1, <1>2, <1>4, <1>5, <1>6, <1>7

\* The copied table has the columns it had.
LEMMA CopiedShape ==
  ASSUME NEW target, TableShape(target), NEW source,
         NEW new, new = Copied(target, source)
  PROVE  /\ TableShape(new) /\ new.columns = target.columns
         /\ source.row = NoRow => new.row = NoRow
<1>1. CASE source.row = NoRow
  <2>1. new = Table(target.columns, NoRow)
    BY <1>1 DEF Copied, TableShape, Table
  <2>. QED
    BY <2>1, TableFields DEF TableShape
<1>2. CASE source.row # NoRow
  <2>. DEFINE row == [c \in ToSet(target.columns) |->
                        source.row[source.columns[
                          CHOOSE i \in DOMAIN target.columns :
                            target.columns[i] = c]]]
  <2>1. new = Table(target.columns, row)
    BY <1>2 DEF Copied, TableShape, Table
  <2>2. row = [c \in ToSet(target.columns) |-> row[c]]
    OBVIOUS
  <2>. HIDE DEF row
  <2>3. new.columns = target.columns /\ new.row = row
        /\ new = Table(new.columns, new.row)
    BY <2>1, TableFields
  <2>. QED
    BY <2>2, <2>3, <1>2 DEF TableShape, Full
<1>. QED
  BY <1>1, <1>2

\* With the columns in the same order, the copy by position is a copy by name.
LEMMA CopiedInOrder ==
  ASSUME NEW target, TableShape(target), NEW source, TableShape(source),
         target.columns = source.columns
  PROVE  Copied(target, source) = source
<1>1. CASE source.row = NoRow
  BY <1>1 DEF Copied, TableShape, Table
<1>2. CASE source.row # NoRow
  <2>. DEFINE place(c) == CHOOSE i \in DOMAIN target.columns :
                            target.columns[i] = c
  <2>1. \A c \in ToSet(target.columns) : source.columns[place(c)] = c
    <3>. TAKE c \in ToSet(target.columns)
    <3>1. \E i \in DOMAIN target.columns : target.columns[i] = c
      BY DEF ToSet
    <3>. QED
      BY <3>1
  <2>2. Copied(target, source).row =
          [c \in ToSet(target.columns) |-> source.row[source.columns[place(c)]]]
    BY <1>2 DEF Copied, TableShape, Table
  <2>. HIDE DEF place
  <2>3. Copied(target, source).row =
          [c \in ToSet(source.columns) |-> source.row[c]]
    BY <2>1, <2>2
  <2>4. Copied(target, source).row = source.row
    BY <2>3, <1>2 DEF TableShape, Full
  <2>5. Copied(target, source) =
          Table(target.columns, Copied(target, source).row)
    BY <1>2 DEF Copied, TableShape, Table
  <2>. QED
    BY <2>4, <2>5 DEF TableShape
<1>. QED
  BY <1>1, <1>2

\* Where a file stands between the steps when other rows come into its tables.
LEMMA RowsReplaced ==
  ASSUME NEW file, Shape(file), Reached(17, file, {"settings"}),
         NEW new, IsFile(new), new.tables = file.tables,
         TableShape(new.jobs), new.jobs.columns = file.jobs.columns,
         TableShape(new.backups), new.backups.columns = file.backups.columns,
         new.nullable = file.nullable
  PROVE  /\ Shape(new) /\ ~Old(new) /\ SameOrder(file, new)
         /\ \A n, spared : Reached(n, file, spared) => Reached(n, new, spared)
<1>1. ~Old(file) /\ ~Old(new)
  BY AllColumns DEF Old, Has
<1>2. Shape(new)
  BY <1>1 DEF Shape
<1>3. SameOrder(file, new)
  BY <1>1 DEF SameOrder, JobOrder, BackupOrder
<1>4. \A n, spared : Reached(n, file, spared) => Reached(n, new, spared)
  BY <1>1 DEF Reached, Has
<1>. QED
  BY <1>1, <1>2, <1>3, <1>4

\* An opened live file went through all the steps.
LEMMA LiveOpened ==
  ASSUME LiveInv, IsOpen
  PROVE  /\ at = 17 /\ Shape(live)
         /\ Reached(17, live, Spared) /\ Reached(17, live, {"settings"})
<1>1. at = 17 /\ Reached(17, live, Spared)
  BY StepNames DEF LiveInv, IsOpen
<1>2. Reached(17, live, {"settings"})
  BY <1>1 DEF Reached, Spared
<1>. QED
  BY <1>1, <1>2 DEF LiveInv

\* DeleteJob.
LEMMA JobDeleted ==
  ASSUME LiveInv, DeleteJob
  PROVE  /\ Shape(live') /\ ~Old(live') /\ SameOrder(live, live')
         /\ Reached(at, live, Spared) => Reached(at, live', Spared)
         /\ live'.jobs.row = NoRow /\ live'.backups.row = NoRow
<1>1. /\ Shape(live) /\ Reached(17, live, {"settings"})
      /\ TableShape(live.jobs) /\ TableShape(live.backups)
  BY LiveOpened DEF DeleteJob, Shape
<1>2. /\ live'.jobs = Table(live.jobs.columns, NoRow)
      /\ live'.backups = Table(live.backups.columns, NoRow)
      /\ live'.tables = live.tables /\ live'.nullable = live.nullable
      /\ IsFile(live')
  BY <1>1 DEF DeleteJob, Shape, IsFile, TableShape, Table
<1>3. /\ TableShape(live'.jobs) /\ live'.jobs.columns = live.jobs.columns
      /\ live'.jobs.row = NoRow
      /\ TableShape(live'.backups)
      /\ live'.backups.columns = live.backups.columns
      /\ live'.backups.row = NoRow
  BY <1>1, <1>2, TableFields DEF TableShape
<1>. QED
  BY <1>1, <1>2, <1>3, RowsReplaced

\* RestoreSnapshot: the columns of the live file stay as they are.
LEMMA SnapshotRestored ==
  ASSUME LiveInv, RestoreSnapshot, NEW source, source = Opened(upload)
  PROVE  /\ Shape(live') /\ ~Old(live') /\ SameOrder(live, live')
         /\ Reached(at, live, Spared) => Reached(at, live', Spared)
         /\ live'.jobs = Copied(live.jobs, source.jobs)
         /\ live'.backups = Copied(live.backups, source.backups)
         /\ live'.jobLink = source.jobLink
         /\ live'.backupLink = source.backupLink
<1>1. /\ Shape(live) /\ Reached(17, live, {"settings"})
      /\ TableShape(live.jobs) /\ TableShape(live.backups)
  BY LiveOpened DEF RestoreSnapshot, Shape
<1>2. /\ live'.jobs = Copied(live.jobs, source.jobs)
      /\ live'.backups = Copied(live.backups, source.backups)
      /\ live'.tables = live.tables /\ live'.nullable = live.nullable
      /\ live'.jobLink = source.jobLink
      /\ live'.backupLink = source.backupLink
      /\ IsFile(live')
  BY <1>1 DEF RestoreSnapshot, Restored, Shape, IsFile
<1>3. /\ TableShape(live'.jobs) /\ live'.jobs.columns = live.jobs.columns
      /\ TableShape(live'.backups)
      /\ live'.backups.columns = live.backups.columns
  BY <1>1, <1>2, CopiedShape
<1>. QED
  BY <1>1, <1>2, <1>3, RowsReplaced

\* OpenStep.
LEMMA LiveStepKeeps ==
  ASSUME LiveInv, OpenStep
  PROVE  /\ Keeps(live, live')
         /\ at' \in 0..17 /\ reshaped' \in BOOLEAN
         /\ Reached(at', live', Spared')
<1>. DEFINE more == IF at = 11 /\ live' # live THEN {"settings"} ELSE {}
<1>1. /\ at \in 1..16 /\ at' = at + 1
      /\ live' = Applied(Steps[at], live)
      /\ reshaped' = (reshaped \/ (Steps[at] = "v1" /\ live' # live))
  BY StepNames DEF OpenStep
<1>2. Shape(live) /\ Reached(at, live, Spared) /\ reshaped \in BOOLEAN
  BY DEF LiveInv
<1>3. Spared \subseteq {"settings"}
  BY DEF Spared
<1>4. Keeps(live, live') /\ Reached(at + 1, live', Spared \union more)
  BY <1>1, <1>2, <1>3, StepKeeps
<1>5. Steps[at] = "v1" <=> at = 11
  <2>1. CASE at \in 1..10
    <3>1. Steps[at] \in ToSet(Tables)
      BY <2>1, StepNames, TableNames DEF ToSet
    <3>. QED
      BY <2>1, <3>1, TableNames
  <2>2. CASE at \in 11..16
    BY <2>2, StepNames
  <2>. QED
    BY <1>1, <2>1, <2>2
<1>6. Spared' = Spared \union more
  BY <1>1, <1>2, <1>5 DEF Spared
<1>. QED
  BY <1>1, <1>2, <1>4, <1>6

\* RestoreSnapshot of a file in the order of the live one brings its tables as
\* they are.
LEMMA RestoredInOrder ==
  ASSUME LiveInv, ContentInv, RestoreSnapshot,
         NEW source, source = Opened(upload)
  PROVE  /\ live'.jobs = source.jobs /\ live'.backups = source.backups
         /\ live'.backupLink = source.backupLink
         /\ Filling(live') /\ Runnable(live')
<1>1. /\ Shape(upload) /\ Filling(upload) /\ Runnable(upload)
      /\ SameOrder(live, upload)
  BY DEF LiveInv, ContentInv, RestoreSnapshot
<1>2. Keeps(upload, source) /\ Reached(17, source, {"settings"})
  BY <1>1, OpenedKeeps
<1>3. /\ Shape(source) /\ Filling(source) /\ Runnable(source)
      /\ SameOrder(upload, source)
  BY <1>1, <1>2 DEF Keeps
<1>4. Shape(live) /\ Reached(17, live, {"settings"})
  BY LiveOpened DEF RestoreSnapshot
<1>5. /\ live.jobs.columns = source.jobs.columns
      /\ live.backups.columns = source.backups.columns
  <2>1. /\ JobOrder(live) = live.jobs.columns
        /\ BackupOrder(live) = live.backups.columns
    BY <1>4, AllColumns
  <2>2. /\ JobOrder(source) = source.jobs.columns
        /\ BackupOrder(source) = source.backups.columns
    BY <1>2, <1>3, AllColumns
  <2>. QED
    BY <2>1, <2>2, <1>1, <1>3 DEF SameOrder
<1>6. /\ live'.jobs = Copied(live.jobs, source.jobs)
      /\ live'.backups = Copied(live.backups, source.backups)
      /\ live'.jobLink = source.jobLink
      /\ live'.backupLink = source.backupLink
      /\ ~Old(live')
  BY SnapshotRestored
<1>7. live'.jobs = source.jobs /\ live'.backups = source.backups
  BY <1>3, <1>4, <1>5, <1>6, CopiedInOrder DEF Shape
<1>8. ~Old(source)
  BY <1>2, <1>3, AllColumns
<1>9. Filling(live')
  BY <1>3, <1>6, <1>7 DEF Filling
<1>10. Runnable(live')
  BY <1>3, <1>6, <1>7, <1>8 DEF Runnable
<1>. QED
  BY <1>6, <1>7, <1>9, <1>10

-----------------------------------------------------------------------------
(* The theorems.                                                           *)

\* Before the first step nothing is asked of a file.
LEMMA NothingReached ==
  ASSUME NEW file, NEW spared
  PROVE  Reached(0, file, spared) /\ Reached(1, file, spared)
BY DEF Reached

\* What the program starts with.
LEMMA FirstFiles ==
  ASSUME MigrationsInit
  PROVE  /\ LiveInv
         /\ Filling(live) /\ Runnable(live)
         /\ inS3 \in BOOLEAN /\ Linked(live, inS3)
         /\ upload # NoFile =>
              \E w \in Foreign :
                /\ upload \in FilesOf(w)
                /\ Filling(upload) /\ Runnable(upload)
                /\ w \in {0, 1} => ~Valid(upload)
<1>1. PICK v \in Versions : live \in FilesOf(v)
  BY DEF MigrationsInit
<1>2. v \in 0..7 /\ Foreign \subseteq 0..7
  BY MigrationsAssumption
<1>3. /\ inS3 \in BOOLEAN
      /\ inS3 <=> \/ live.backupLink
                  \/ live.endpoint /\ live.backups.row["stored_s3"] = "yes"
  BY DEF MigrationsInit
<1>4. /\ Shape(live) /\ Filling(live) /\ Runnable(live)
      /\ Linked(live, inS3)
  BY <1>1, <1>2, <1>3, FilesOK
<1>5. ASSUME upload # NoFile
      PROVE  /\ Shape(upload)
             /\ \E w \in Foreign :
                  /\ upload \in FilesOf(w)
                  /\ Filling(upload) /\ Runnable(upload)
                  /\ w \in {0, 1} => ~Valid(upload)
  <2>1. PICK w \in Foreign : upload \in FilesOf(w)
    BY <1>5 DEF MigrationsInit
  <2>2. PICK known \in BOOLEAN :
          known <=> \/ upload.backupLink
                    \/ /\ upload.endpoint
                       /\ upload.backups.row["stored_s3"] = "yes"
    OBVIOUS
  <2>. QED
    BY <2>1, <2>2, <1>2, FilesOK
<1>6. /\ at = 0 /\ failures = 0 /\ reshaped = FALSE /\ MaxFailures \in Nat
      /\ Len(Steps) = 16
  BY MigrationsAssumption, StepNames DEF MigrationsInit
<1>7. LiveInv
  <2>1. Reached(at, live, Spared)
    BY <1>6, NothingReached
  <2>2. reshaped \in BOOLEAN
    BY <1>6, Zenon
  <2>. QED
    BY <1>4, <1>5, <1>6, <2>1, <2>2 DEF LiveInv
<1>. QED
  BY <1>3, <1>4, <1>5, <1>7

\* Every file has a shape that Open can go on with, from wherever it was left.
THEOREM FilesInShape == MigrationsSpec => []LiveInv
<1>1. MigrationsInit => LiveInv
  BY FirstFiles
<1>2. LiveInv /\ [MigrationsNext]_migrationVars => LiveInv'
  <2>. SUFFICES ASSUME LiveInv, [MigrationsNext]_migrationVars
                PROVE  LiveInv'
    OBVIOUS
  <2>. /\ at \in 0..17 /\ failures \in 0..MaxFailures /\ MaxFailures \in Nat
       /\ Len(Steps) = 16 /\ reshaped \in BOOLEAN
       /\ Shape(live) /\ Reached(at, live, Spared)
       /\ upload # NoFile => Shape(upload)
    BY MigrationsAssumption, StepNames DEF LiveInv
  <2>1. CASE Begin
    <3>1. Reached(at', live', Spared')
      BY <2>1, NothingReached DEF Begin
    <3>2. reshaped' \in BOOLEAN
      BY <2>1, Zenon DEF Begin
    <3>. QED
      BY <2>1, <3>1, <3>2 DEF Begin, LiveInv
  <2>2. CASE OpenStep
    BY <2>2, LiveStepKeeps DEF OpenStep, LiveInv, Keeps
  <2>3. CASE Fail
    <3>1. Reached(at', live', Spared')
      BY <2>3, NothingReached DEF Fail
    <3>. QED
      BY <2>3, <3>1 DEF Fail, LiveInv
  <2>4. CASE TakeSnapshot
    BY <2>4 DEF TakeSnapshot, LiveInv, Spared
  <2>5. CASE DeleteJob
    BY <2>5, JobDeleted DEF DeleteJob, LiveInv, Spared
  <2>6. CASE RestoreSnapshot
    <3>1. Shape(live') /\ Reached(at, live', Spared)
      BY <2>6, SnapshotRestored
    <3>. QED
      BY <2>6, <3>1 DEF RestoreSnapshot, LiveInv, Spared
  <2>7. CASE UNCHANGED migrationVars
    BY <2>7 DEF migrationVars, LiveInv, Spared
  <2>. QED
    BY <2>1, <2>2, <2>3, <2>4, <2>5, <2>6, <2>7 DEF MigrationsNext
<1>. QED
  BY <1>1, <1>2, PTL DEF MigrationsSpec

\* SchemaComplete, for files of every version: once Open has ended, the schema
\* is the current one, wherever earlier attempts ended and whatever was restored
\* since.
THEOREM OpenCompletes == MigrationsSpec => []SchemaComplete
<1>1. LiveInv => SchemaTypeOK
  BY DEF LiveInv, Shape, TableShape, Distinct, Full, SchemaTypeOK, TableOK
<1>2. ASSUME LiveInv, IsOpen
      PROVE  /\ ToSet(Tables) \ live.tables \subseteq Spared
             /\ ToSet(live.jobs.columns) = ToSet(JobColumns)
             /\ ToSet(live.backups.columns) = ToSet(BackupColumns)
             /\ live.nullable
  <2>1. /\ Shape(live) /\ Reached(17, live, Spared)
        /\ Reached(17, live, {"settings"})
    BY <1>2, LiveOpened
  <2>2. ToSet(Tables) \ live.tables \subseteq Spared
    <3>1. \A m \in 1..10 : Tables[m] \in live.tables \union Spared
      BY <2>1 DEF Reached
    <3>. QED
      BY <3>1, TableNames DEF ToSet
  <2>. QED
    BY <2>1, <2>2, AllColumns
<1>3. LiveInv => SchemaComplete
  BY <1>1, <1>2 DEF SchemaComplete, Spared
<1>. QED
  BY <1>3, FilesInShape, PTL

\* What the files hold stays where it belongs: ContentInv is inductive given
\* LiveInv, when what is uploaded is in order.
LEMMA ContentsKept ==
  ASSUME InOrder PROVE MigrationsSpec => []ContentInv
<1>1. MigrationsInit => ContentInv
  <2>. SUFFICES ASSUME MigrationsInit PROVE ContentInv
    OBVIOUS
  <2>1. PICK v \in Versions : live \in FilesOf(v)
    BY DEF MigrationsInit
  <2>2. ASSUME upload # NoFile, Valid(upload)
        PROVE  Filling(upload) /\ Runnable(upload) /\ SameOrder(live, upload)
    <3>1. PICK w \in Foreign :
            upload \in FilesOf(w) /\ Filling(upload) /\ Runnable(upload)
      BY <2>2, FirstFiles
    <3>. QED
      BY <2>1, <2>2, <3>1, InOrder DEF InOrder
  <2>. QED
    BY <2>2, FirstFiles DEF ContentInv
<1>2. LiveInv /\ ContentInv /\ [MigrationsNext]_migrationVars => ContentInv'
  <2>. SUFFICES ASSUME LiveInv, ContentInv, [MigrationsNext]_migrationVars
                PROVE  ContentInv'
    OBVIOUS
  <2>1. CASE UNCHANGED <<live, upload>>
    BY <2>1 DEF ContentInv
  <2>2. CASE OpenStep
    <3>1. /\ Filling(live') /\ Runnable(live') /\ SameOrder(live, live')
          /\ upload' = upload
      BY <2>2, LiveStepKeeps DEF OpenStep, Keeps, ContentInv
    <3>. QED
      BY <3>1 DEF ContentInv, SameOrder
  <2>3. CASE TakeSnapshot
    BY <2>3 DEF TakeSnapshot, ContentInv, SameOrder
  <2>4. CASE DeleteJob
    <3>1. /\ ~Old(live') /\ SameOrder(live, live') /\ upload' = upload
          /\ live'.jobs.row = NoRow /\ live'.backups.row = NoRow
      BY <2>4, JobDeleted DEF DeleteJob
    <3>2. Filling(live') /\ Runnable(live')
      BY <3>1 DEF Filling, InPlace, Runnable
    <3>. QED
      BY <3>1, <3>2 DEF ContentInv, SameOrder
  <2>5. CASE RestoreSnapshot
    <3>1. /\ Filling(live') /\ Runnable(live') /\ SameOrder(live, live')
          /\ upload' = upload
      BY <2>5, SnapshotRestored, RestoredInOrder DEF RestoreSnapshot
    <3>. QED
      BY <3>1 DEF ContentInv, SameOrder
  <2>. QED
    BY <2>1, <2>2, <2>3, <2>4, <2>5
    DEF MigrationsNext, Begin, Fail, migrationVars
<1>. QED
  BY <1>1, <1>2, FilesInShape, PTL DEF MigrationsSpec

\* ContentsInPlace: no migration and no restore puts the content of one column
\* into another.
THEOREM NothingMisplaced ==
  ASSUME InOrder PROVE MigrationsSpec => []ContentsInPlace
<1>1. ContentInv => ContentsInPlace
  BY DEF ContentInv, Filling, ContentsInPlace
<1>. QED
  BY <1>1, ContentsKept, PTL

\* JobsRunnable: no job is left without a destination, neither by migrateV1 nor
\* by a restore.
THEOREM NoJobStranded ==
  ASSUME InOrder PROVE MigrationsSpec => []JobsRunnable
<1>1. LiveInv /\ ContentInv => JobsRunnable
  BY LiveOpened, AllColumns DEF ContentInv, Runnable, JobsRunnable
<1>. QED
  BY <1>1, FilesInShape, ContentsKept, PTL

\* RestoreKeepsColumns: a restored row holds in each column what the uploaded
\* file, opened, has in the column of that name.
THEOREM RestoredByName ==
  ASSUME InOrder PROVE MigrationsSpec => RestoreKeepsColumns
<1>. DEFINE Kept == RestoreSnapshot =>
                      LET source == Opened(upload)
                      IN /\ SameRow(live'.jobs, source.jobs)
                         /\ SameRow(live'.backups, source.backups)
                         /\ live'.backupLink = source.backupLink
<1>1. LiveInv /\ ContentInv => Kept
  BY RestoredInOrder DEF SameRow
<1>. QED
  BY <1>1, FilesInShape, ContentsKept, PTL DEF RestoreKeepsColumns

\* LinksKept, when only the user's own files can be restored: a snapshot of the
\* file of another installation knows nothing of this backup.
THEOREM CopiesStayLinked ==
  ASSUME Foreign \subseteq {0, 1} PROVE MigrationsSpec => []LinksKept
<1>1. MigrationsInit => LinkInv
  BY FirstFiles DEF LinkInv
<1>2. LiveInv /\ LinkInv /\ [MigrationsNext]_migrationVars => LinkInv'
  <2>. SUFFICES ASSUME LiveInv, LinkInv, [MigrationsNext]_migrationVars
                PROVE  LinkInv'
    OBVIOUS
  <2>1. CASE UNCHANGED <<live, upload, inS3>>
    BY <2>1 DEF LinkInv
  <2>2. CASE OpenStep
    <3>1. Linked(live', inS3)
      BY <2>2, LiveStepKeeps DEF Keeps, LinkInv
    <3>. QED
      BY <2>2, <3>1 DEF OpenStep, LinkInv
  <2>3. CASE TakeSnapshot
    BY <2>3 DEF TakeSnapshot, LinkInv
  <2>4. CASE DeleteJob
    <3>1. Linked(live', inS3)
      BY <2>4, JobDeleted DEF Linked
    <3>. QED
      BY <2>4, <3>1 DEF DeleteJob, LinkInv
  <2>5. CASE RestoreSnapshot
    <3>. DEFINE source == Opened(upload)
    <3>1. Shape(upload) /\ Linked(upload, inS3) /\ inS3 \in BOOLEAN
      BY <2>5 DEF RestoreSnapshot, LiveInv, LinkInv
    <3>2. Keeps(upload, source) /\ Reached(17, source, {"settings"})
      BY <3>1, OpenedKeeps
    <3>3. Linked(source, inS3) /\ ~Old(source)
      BY <3>1, <3>2, AllColumns DEF Keeps
    <3>4. /\ live'.backups = Copied(live.backups, source.backups)
          /\ live'.backupLink = source.backupLink /\ ~Old(live')
      BY <2>5, SnapshotRestored
    <3>5. source.backups.row = NoRow => live'.backups.row = NoRow
      BY <2>5, <3>4, CopiedShape, LiveOpened DEF RestoreSnapshot, Shape
    <3>6. Linked(live', inS3)
      BY <3>3, <3>4, <3>5 DEF Linked
    <3>. QED
      BY <2>5, <3>6 DEF RestoreSnapshot, LinkInv
  <2>. QED
    BY <2>1, <2>2, <2>3, <2>4, <2>5
    DEF MigrationsNext, Begin, Fail, migrationVars
<1>3. LiveInv /\ LinkInv => LinksKept
  BY LiveOpened, AllColumns DEF LinkInv, Linked, LinksKept
<1>. QED
  BY <1>1, <1>2, <1>3, FilesInShape, PTL DEF MigrationsSpec

=============================================================================
