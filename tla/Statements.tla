----------------------------- MODULE Statements -----------------------------
(***************************************************************************)
(* The write operations of the SQLite backend as functions of the database. *)
(*                                                                          *)
(* One organization is modelled: its row in the orgs table, some rows of    *)
(* the objects table and some of the blobs table.  A row holds the name of  *)
(* the writer that stored it, Old if it was there at the start, or None if  *)
(* it does not exist; what is stored is otherwise opaque to the backend.    *)
(***************************************************************************)
EXTENDS Naturals

CONSTANTS
    Writers,    \* calls of a write operation; each is made at most once
    Objects,    \* the organization's keys in the objects table
    Blobs,      \* its checksums in the blobs table
    Org,        \* its row in the orgs table
    Old,        \* what a row holds that nobody here wrote
    None        \* an absent row

Rows      == Objects \cup Blobs \cup {Org}
Values    == Writers \cup {Old}
Databases == [Rows -> Values \cup {None}]

ASSUME RowsDistinct ==
    /\ Objects \cap Blobs = {}
    /\ Org \notin Objects \cup Blobs
    /\ None \notin Values
    /\ Old \notin Writers

\* What a caller asks for.  "tx" is CreateOrganizationWithKey's transaction.
Call(o, r) == [op |-> o, row |-> r]
Calls == {Call("put", r)    : r \in Objects \cup Blobs}
    \cup {Call("create", r) : r \in Objects \cup {Org}}
    \cup {Call("delete", r) : r \in Objects}
    \cup {Call("drop", r)   : r \in Blobs}
    \cup {Call("deleteOrg", Org), Call("tx", Org)}
NoCall == Call("none", Org)

\* What a call returns: an error class, and the row a delete removed.
Answer(e, v) == [err |-> e, old |-> v]
Answers == [err : {"nil", "conflict", "failed", "panic"}, old : Values \cup {None}]
Failed   == Answer("failed", None)
Panicked == Answer("panic", None)
NoAnswer == Answer("none", None)

\* The database after writer w's call c has run against d without an error.
Effect(d, w, c) ==
    CASE c.op = "put"       -> [d EXCEPT ![c.row] = w]
      [] c.op = "create"    -> [d EXCEPT ![c.row] = IF @ = None THEN w ELSE @]
      [] c.op \in {"delete", "drop"} -> [d EXCEPT ![c.row] = None]
      [] c.op = "deleteOrg" -> IF d[Org] = None THEN d ELSE [r \in Rows |-> None]
      [] c.op = "tx"        -> IF d[Org] # None THEN d
                               ELSE [r \in Rows |-> IF r \in Blobs THEN d[r] ELSE w]

\* What call c reports when it runs against d without an error.
Report(d, c) ==
    CASE c.op \in {"put", "drop"} -> Answer("nil", None)
      [] c.op \in {"create", "tx"} ->
            Answer(IF d[c.row] = None THEN "nil" ELSE "conflict", None)
      [] c.op \in {"delete", "deleteOrg"} -> Answer("nil", d[c.row])

=============================================================================
