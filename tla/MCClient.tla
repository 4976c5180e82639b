------------------------------- MODULE MCClient -------------------------------
(* Client with contacts and memos, and a few files. *)
EXTENDS Client

CONSTANTS contacts, memo, e1, e2

TwoLists == {contacts, memo}
TwoEntries == {e1, e2}

(* Sound: neither the lists nor the entries are told apart. *)
Symmetry == Permutations(TwoLists) \cup Permutations(TwoEntries)

(* Bounds: the lists have at most four rows together, of the six their ids   *)
(* allow; and while a leaked handle keeps the two databases apart, at most   *)
(* two, and no statement has failed.                                         *)
RowsOf(db) == Cardinality(UNION {{l} \X DOMAIN db.rows[l] : l \in List})

Small ==
  /\ RowsOf(local) <= 4
  /\ leaked => /\ ~local.spoilt /\ ~kept.spoilt
               /\ RowsOf(local) <= 2 /\ RowsOf(kept) <= 2

==============================================================================
