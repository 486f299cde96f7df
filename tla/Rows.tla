-------------------------------- MODULE Rows --------------------------------
(***************************************************************************)
(* Rows of a database table, as the handlers of the backend use them       *)
(* through gorm: a request reads a row, computes, and saves the whole row. *)
(* Nothing holds the row in between, so a save replaces whatever another   *)
(* request has written since the read.                                     *)
(***************************************************************************)
EXTENDS Integers, Sequences, FiniteSets

\* The table after saving the rows of the function save.
Saved(table, save) == [i \in DOMAIN table |-> IF i \in DOMAIN save THEN save[i] ELSE table[i]]

\* A request that has not begun, and one that has been answered.
New == [pc |-> "new"]
Done == [pc |-> "done"]

\* The rows that have changed since they were read.
Stale(table, read) == {i \in DOMAIN read : table[i] # read[i]}
=============================================================================
