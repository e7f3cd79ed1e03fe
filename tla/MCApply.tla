------------------------------ MODULE MCApply ------------------------------
(* Small plans for the model checker.                                      *)
EXTENDS ApplyClaims, ApplyRefinement

E(f, c) == [file |-> f, chunk |-> c]

\* Two pages of main.sqlite3 and one whole file of chainstate/.
PagesThenWhole == <<E("main", 1), E("main", 2), E("index", 1)>>
\* The same and a file that is absent.
Four == <<E("main", 1), E("main", 2), E("index", 1), E("block", 1)>>
\* One page file only.
PagesOnly == <<E("main", 1), E("main", 2)>>
=============================================================================
