---------------------------- MODULE MCBackupEngine ----------------------------
(* Small instances of BackupEngine.                                        *)
EXTENDS BackupEngine, TLC

\* Runners are interchangeable: they differ by nothing but their name.
RunnerSymmetry == Permutations(Runners)

\* Jobs with the same choice of settings are, too.
Symmetry == Permutations(Runners) \union Permutations(Jobs)

Config(keep, local, ds) ==
  [live |-> TRUE, keepLast |-> keep, destLocal |-> local, dests |-> ds]

\* Retention on and off, each kind of storage and both.
RetentionConfigs ==
  {Config(1, TRUE, Dests), Config(2, TRUE, {}), Config(1, FALSE, Dests),
   Config(0, TRUE, Dests)}

\* One setting: the runs differ by their jobs and by what fails.
OneConfig == {Config(1, TRUE, Dests)}
=============================================================================
