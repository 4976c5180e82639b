-------------------------------- MODULE Search --------------------------------
(***************************************************************************)
(* for (i = 0; i < count; i++) if (match) break: the search that the       *)
(* servers use on all their arrays, as the smallest index that matches.    *)
(***************************************************************************)
EXTENDS Integers, FiniteSets

First(indices) == CHOOSE i \in indices : \A j \in indices : i <= j

(* The k-th of these numbers: LIMIT 1 OFFSET k - 1, in the order of the ids.  *)
UpTo(ids, id) == {x \in ids : x <= id}
NthId(ids, k) == CHOOSE id \in ids : Cardinality(UpTo(ids, id)) = k

==============================================================================
