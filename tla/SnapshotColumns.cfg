SPECIFICATION MigrationsSpec
CONSTANTS
  Versions = {0}
  Foreign = {1, 2, 3, 4, 5, 6}
  NoRow = NoRow
  NoFile = NoFile
  MaxFailures = 0
PROPERTY RestoreKeepsColumns
