--------------------------- MODULE MCGroupCommit ----------------------------
(***************************************************************************)
(* Small instances of GroupCommit for TLC: one organization with an object  *)
(* and, for the direct path, a blob.                                        *)
(***************************************************************************)
EXTENDS GroupCommit, TLC

AllOps == {c.op : c \in Calls}

\* Callers are interchangeable; used where no liveness is checked.
Symmetry == Permutations(Writers)

=============================================================================
