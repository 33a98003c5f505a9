----------------------------- MODULE MCRestores -----------------------------
(* Small instances of Restores.                                            *)
EXTENDS Restores, TLC

Symmetry == Permutations(Runners) \union Permutations(Restorers)

Config(local, ds) ==
  [live |-> TRUE, keepLast |-> 1, destLocal |-> local, dests |-> ds]

LocalConfig == {Config(TRUE, {})}
BothConfig == {Config(TRUE, Dests)}

Opts(first, make, clear) == [first |-> first, make |-> make, clear |-> clear]

SafeOptions == {Opts(TRUE, FALSE, FALSE), Opts(TRUE, FALSE, TRUE)}
SomeOptions == SafeOptions \union {Opts(FALSE, TRUE, FALSE)}
=============================================================================
