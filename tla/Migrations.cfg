SPECIFICATION MigrationsSpec
CONSTANTS
  Versions = {0, 1, 2, 3, 4, 5, 6, 7}
  Foreign = {0, 1}
  NoRow = NoRow
  NoFile = NoFile
  MaxFailures = 3
INVARIANTS SchemaComplete ContentsInPlace LinksKept JobsRunnable
PROPERTIES RestoreKeepsColumns
