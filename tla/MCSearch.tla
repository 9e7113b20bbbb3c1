------------------------------ MODULE MCSearch ------------------------------
(***************************************************************************)
(* A small instance of SearchIndex: up to five nodes, documents in which    *)
(* one attribute is set at several levels and two paths make one field ("b" *)
(* under "a", and "a_b"), and the values 10 < 9 as text, 9 < 10 as numbers. *)
(***************************************************************************)
EXTENDS SearchIndex, TLC

ten  == [text |-> 1, num |-> 10]
nine == [text |-> 2, num |-> 9]
web  == [text |-> 3, num |-> NotNum]

At(path, val) == [path |-> path, val |-> val]
name == <<"name">>
a    == <<"a">>
b    == <<"b">>
a_b  == <<"a", "b">>
def  == <<"default">>
over == <<"override">>

\* a is 9, overridden to 10; a.b replaces it; an array of two under a_b.
valued == {At(<<name>>, web), At(<<def, a>>, nine), At(<<over, a>>, ten)}
nested == {At(<<name>>, nine), At(<<def, a>>, nine), At(<<over, a, b>>, web)}
joined == {At(<<name>>, ten), At(<<def, a_b>>, web), At(<<def, a_b>>, nine)}

W(field, val) == [k |-> "word", field |-> field, val |-> val, glob |-> "none", pat |-> {}, neg |-> FALSE]
Name(f)  == W(f, web)
Star     == [W(<<"*">>, web) EXCEPT !.glob = "star"]
T(k)     == [k |-> k]
Range10  == [k |-> "range", lo |-> nine, hi |-> ten, inc |-> TRUE]
Above9   == [k |-> "range", lo |-> nine, hi |-> Open, inc |-> FALSE]
Phrase(v) == [k |-> "phrase", val |-> v, glob |-> "none", pat |-> {}]
Dashed(t) == [t EXCEPT !.neg = TRUE]
Globbed(t, pat) == [t EXCEPT !.glob = "some", !.pat = pat]

Queries ==
    {<<Name(a), T("colon"), W(a, ten)>>,                                \* a:10
     <<T("not"), Name(a), T("colon"), W(a, nine), T("or"),              \* NOT a:9 OR web a_b:pattern
       W(a, web), Name(a_b), T("colon"), Globbed(W(a, web), {web, nine})>>,
     <<T("lparen"), Name(a), T("colon"), Range10, T("or"),              \* (a:[9 TO 10] OR "9")
       Phrase(nine), T("rparen"), T("and"),                             \*   AND -name:{9 TO *}
       Dashed(Name(name)), T("colon"), Above9>>,
     <<T("lparen"), Name(a), T("colon")>>}                              \* (a:

NoReq == [op |-> "search", id |-> 1, doc |-> NoDoc, writes |-> <<>>, query |-> <<Star, T("colon"), Star>>,
          admin |-> TRUE, start |-> 0, rows |-> 7, path |-> <<>>]

Searches ==
    {[NoReq EXCEPT !.query = q] : q \in Queries}
    \cup {[NoReq EXCEPT !.admin = FALSE, !.path = <<a>>],
          [NoReq EXCEPT !.query = <<Name(a_b), T("colon"), Star>>, !.admin = FALSE,
                        !.start = 1, !.path = <<a, b>>]}

Writes ==
    {[NoReq EXCEPT !.op = "put", !.doc = valued],
     [NoReq EXCEPT !.op = "put", !.id = 2, !.doc = nested],
     [NoReq EXCEPT !.op = "delete"],
     [NoReq EXCEPT !.op = "tx", !.writes = <<Event(1, nested), Event(2, valued), Event(1, joined)>>],
     [NoReq EXCEPT !.op = "deleteOrg"],
     [NoReq EXCEPT !.op = "setACL"]}

AllDocuments == {valued, nested, joined, Garbled}

AllRequests == Searches \cup Writes

\* Five nodes, so that a quarter of them is more than one, and two nodes of
\* which one document is broken.
Seeds == {(1 :> valued) @@ (2 :> nested) @@ [i \in 3..5 |-> joined],
          (1 :> valued) @@ (2 :> Garbled)}

\* Small instances: two updates of one node while it is searched for, and two
\* searches, of which the second may wait for the index the first one builds.
FindA10   == [NoReq EXCEPT !.query = <<Name(a), T("colon"), W(a, ten)>>]
Updates   == {FindA10, [NoReq EXCEPT !.op = "put", !.doc = valued], [NoReq EXCEPT !.op = "put", !.doc = nested]}
Lookups   == {FindA10}
OneValued == {1 :> valued}

\* Goroutines are interchangeable.
Symmetry == Permutations(Procs)

=============================================================================
