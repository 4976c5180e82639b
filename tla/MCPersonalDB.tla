---------------------------- MODULE MCPersonalDB ----------------------------
(* Instances of PersonalDB for TLC. *)
EXTENDS PersonalDB, TLC

CONSTANTS t1, t2, t3
ThreeThreads == {t1, t2, t3}
Symmetry == Permutations(ThreeThreads)

==============================================================================
