---------------------------- MODULE MCAuthWaitList ----------------------------
(* AuthWaitList on small sets. *)
EXTENDS AuthWaitList, TLC

CONSTANTS r1, r2, r3

ThreeReq == {r1, r2, r3}

(* Sound for the safety runs: requests are only compared. *)
Symmetry == Permutations(ThreeReq)

==============================================================================
