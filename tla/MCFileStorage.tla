----------------------------- MODULE MCFileStorage -----------------------------
(* FileStorage on small sets: two sessions of one user and one of another. *)
EXTENDS FileStorage, TLC

CONSTANTS s1, s2, s3, u1, u2

ThreeSessions == {s1, s2, s3}
TwoUsers == {u1, u2}
TwoAndOne == (s1 :> u1) @@ (s2 :> u1) @@ (s3 :> u2)

(* Sound: s1 and s2 have the same user. *)
Symmetry == Permutations({s1, s2})

==============================================================================
