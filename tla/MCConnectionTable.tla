-------------------------- MODULE MCConnectionTable --------------------------
(* ConnectionTable on small sets. *)
EXTENDS ConnectionTable, TLC

CONSTANTS c1, c2, c3, h1, h2, h3, u1, u2

TwoConn == {c1, c2}
TwoHandle == {h1, h2}
ThreeConn == {c1, c2, c3}
ThreeHandle == {h1, h2, h3}
OneUser == {u1}
TwoUser == {u1, u2}

(* Sound for the safety runs: the names of connections, handles and users    *)
(* are only compared.                                                        *)
Symmetry == Permutations(ThreeConn) \cup Permutations(ThreeHandle)
              \cup Permutations(TwoUser)

==============================================================================
