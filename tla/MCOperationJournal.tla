------------------------- MODULE MCOperationJournal -------------------------
(* No property of OperationJournal names a key or an observed value.       *)
EXTENDS OperationJournal, TLC

Symmetry == Permutations(Keys) \cup Permutations(Values)
=============================================================================
