----------------------------- MODULE MCDeletions ----------------------------
(* Small instances of Deletions.                                           *)
EXTENDS Deletions, TLC

Symmetry == Permutations(Runners) \union Permutations(Requests)
                \union Permutations(Jobs)

Config(keep, local, ds) ==
  [live |-> TRUE, keepLast |-> keep, destLocal |-> local, dests |-> ds]

OneConfig == {Config(1, TRUE, Dests)}
=============================================================================
