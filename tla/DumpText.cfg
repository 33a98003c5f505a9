SPECIFICATION DumpSpec
CONSTANTS
  Tables = {t1, t2, t0}
  Columnless = {t0}
  NoTable = NoTable
  Inside = {"plain", "end"}
  MaxLines = 6
INVARIANTS DumpInv DropsPrivilegesOnly CountsExact CutDataRefused
\* A dump ends.
CHECK_DEADLOCK FALSE
