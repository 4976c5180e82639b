------------------------------ MODULE MCAccounts ------------------------------
(* Accounts on small sets. *)
EXTENDS Accounts, TLC

CONSTANTS t1, t2, t3, n1, n2

ThreeThreads == {t1, t2, t3}
TwoNames == {n1, n2}

(* Sound: threads and names are only compared. *)
Symmetry == Permutations(ThreeThreads) \cup Permutations(TwoNames)

==============================================================================
