---------------------------- MODULE SearchQuery -----------------------------
(***************************************************************************)
(* The search language: flattening a document into fields, parsing a query, *)
(* evaluating it on a document (Matches) and on an inverted index (Plan).   *)
(*                                                                          *)
(* A document is the set of its leaves; a leaf has a path of keys and a     *)
(* value, and the elements of an array share their path.  A key is the      *)
(* sequence of its "_"-separated parts, which is what makes two paths one   *)
(* field.  A value has a text (its rank in string order) and, when it reads *)
(* as one, a number (not a negative one here).                              *)
(*                                                                          *)
(* A query is the sequence of its tokens.  Parsing compiles it to postfix   *)
(* code, and both evaluations run that code on a stack.                     *)
(***************************************************************************)
EXTENDS Integers, FiniteSetsExt, SequencesExt

NotNum == -1
Open   == [text |-> 0, num |-> NotNum]      \* "*" as a bound of a range

-----------------------------------------------------------------------------
(* Documents.                                                               *)

Levels == <<<<"default">>, <<"normal">>, <<"override">>, <<"automatic">>>>

\* One of the two leaves would have to be a value and a map at once.
Related(p, q) == IsPrefix(p, q) \/ IsPrefix(q, p)

\* deepMerge: src wins wherever the two meet, a map only merging into a map.
deepMerge(dst, src) == {l \in dst : \A s \in src : ~Related(l.path, s.path)} \cup src

Level(doc, level) ==
    {[l EXCEPT !.path = Tail(@)] : l \in {l \in doc : Len(l.path) > 1 /\ l.path[1] = level}}

Merged(doc) == FoldLeft(LAMBDA acc, level : deepMerge(acc, Level(doc, level)), {}, Levels)

\* nodeSearchDoc: the merged attributes over the node's own top-level fields,
\* the precedence levels among them.
nodeSearchDoc(doc) ==
    LET top == {l.path[1] : l \in Merged(doc)}
    IN {l \in doc : l.path[1] \notin top} \cup Merged(doc)

\* Flatten: a leaf is found under every suffix of its path, keys joined.
Flatten(doc) ==
    UNION {{<<FlattenSeq(SubSeq(l.path, i, Len(l.path))), l.val>> : i \in 1..Len(l.path)}
           : l \in doc}

-----------------------------------------------------------------------------
(* Parsing.  A word is [k |-> "word", field, val, glob, pat, neg]: as a     *)
(* field name, as a value, its wildcards ("none", "star" for a lone *, or   *)
(* "some" with the values they match), and whether a dash negates it.  The  *)
(* lexer, which makes words of characters, is not modelled.                 *)

NoField == <<>>

\* buildTerm: the leaf a field and a value make.
buildTerm(field, v) ==
    IF v.glob = "star"
    THEN IF field \in {NoField, <<"*">>} THEN [k |-> "all"] ELSE [k |-> "exists", field |-> field]
    ELSE [k |-> "term", field |-> field, vals |-> IF v.glob = "some" THEN v.pat ELSE {v.val}]

Failed == [ok |-> FALSE, code |-> <<>>, next |-> 1]

\* The recursive descent: NOT binds tighter than AND (or mere juxtaposition),
\* AND tighter than OR; a loop collects the operands to the right.
Parse(toks) ==
    LET n == Len(toks) + 1
        at(i) == IF i < n THEN toks[i].k ELSE "eof"
        then(a, tail, b) == IF a.ok /\ b.ok
                            THEN [ok |-> TRUE, code |-> a.code \o tail \o b.code, next |-> b.next]
                            ELSE Failed
        clause(i) ==
            LET f == toks[i]
                neg == IF f.neg THEN <<[k |-> "not"]>> ELSE <<>>
                leaf(q, j) == [ok |-> TRUE, code |-> <<q>> \o neg, next |-> j]
            IN IF at(i + 1) # "colon" THEN leaf(buildTerm(NoField, f), i + 1)
               ELSE CASE at(i + 2) \in {"word", "phrase"} ->
                            leaf(buildTerm(f.field, toks[i + 2]), i + 3)
                      [] at(i + 2) = "range" ->
                            leaf([k |-> "range", field |-> f.field, r |-> toks[i + 2]], i + 3)
                      [] OTHER -> Failed
        p[x \in {"or", "orRest", "and", "andRest", "unary", "primary"} \X (1..(n + 1))] ==
            LET i == x[2]
                after(a, rest, tail) == IF a.ok THEN then(a, tail, p[<<rest, a.next>>]) ELSE Failed
                none == [ok |-> TRUE, code |-> <<>>, next |-> i]
            IN CASE x[1] = "or"  -> after(p[<<"and", i>>], "orRest", <<>>)
                 [] x[1] = "and" -> after(p[<<"unary", i>>], "andRest", <<>>)
                 [] x[1] = "orRest" ->
                      IF at(i) = "or" THEN after(p[<<"and", i + 1>>], "orRest", <<[k |-> "or"]>>)
                      ELSE none
                 [] x[1] = "andRest" ->
                      IF at(i) = "and" THEN after(p[<<"unary", i + 1>>], "andRest", <<[k |-> "and"]>>)
                      ELSE IF at(i) \in {"word", "phrase", "lparen", "not"}
                      THEN after(p[<<"unary", i>>], "andRest", <<[k |-> "and"]>>)
                      ELSE none
                 [] x[1] = "unary" ->
                      IF at(i) = "not"
                      THEN LET a == p[<<"unary", i + 1>>]
                           IN IF a.ok THEN [a EXCEPT !.code = Append(@, [k |-> "not"])] ELSE Failed
                      ELSE p[<<"primary", i>>]
                 [] x[1] = "primary" ->
                      CASE at(i) = "lparen" ->
                             LET a == p[<<"or", i + 1>>]
                             IN IF a.ok /\ at(a.next) = "rparen" THEN [a EXCEPT !.next = @ + 1]
                                ELSE Failed
                        [] at(i) = "phrase" ->
                             [ok |-> TRUE, code |-> <<buildTerm(NoField, toks[i])>>, next |-> i + 1]
                        [] at(i) = "word" -> clause(i)
                        [] OTHER -> Failed
        whole == p[<<"or", 1>>]
    IN IF whole.ok /\ whole.next = n THEN whole ELSE Failed

IsMatchAll(code) == code = <<[k |-> "all"]>>

-----------------------------------------------------------------------------
(* Evaluation.                                                              *)

\* rangeQ.inRange: by number if the value and both bounds are numbers, as text
\* otherwise.
inRange(r, v) ==
    LET numeric == /\ v.num # NotNum
                   /\ r.lo = Open \/ r.lo.num # NotNum
                   /\ r.hi = Open \/ r.hi.num # NotNum
        x(u) == IF numeric THEN u.num ELSE u.text
    IN /\ r.lo = Open \/ x(v) > x(r.lo) \/ (r.inc /\ x(v) = x(r.lo))
       /\ r.hi = Open \/ x(v) < x(r.hi) \/ (r.inc /\ x(v) = x(r.hi))

\* The stack machine over postfix code, Leaf giving a leaf's value.
Run(code, Leaf(_), And(_, _), Or(_, _), Not(_)) ==
    LET step(stack, q) ==
            LET s == Len(stack)
                binary(v) == Append(SubSeq(stack, 1, s - 2), v)
            IN CASE q.k = "and" -> binary(And(stack[s - 1], stack[s]))
                 [] q.k = "or"  -> binary(Or(stack[s - 1], stack[s]))
                 [] q.k = "not" -> Append(SubSeq(stack, 1, s - 1), Not(stack[s]))
                 [] OTHER       -> Append(stack, Leaf(q))
    IN FoldLeft(step, <<>>, code)[1]

\* Query.Matches on one document's fields, a set of <<field, value>>.
LeafMatches(q, f) ==
    CASE q.k = "all"    -> TRUE
      [] q.k = "exists" -> \E t \in f : t[1] = q.field
      [] q.k = "range"  -> \E t \in f : t[1] = q.field /\ inRange(q.r, t[2])
      [] q.k = "term"   -> \E t \in f : q.field \in {NoField, t[1]} /\ t[2] \in q.vals

Matches(code, f) ==
    Run(code, LAMBDA q : LeafMatches(q, f), LAMBDA a, b : a /\ b, LAMBDA a, b : a \/ b, LAMBDA a : ~a)

\* Mutant: a term without a field is looked up under the empty field name.
LeafPlanEmptyField(q, x) ==
    CASE q.k = "all"    -> x.all
      [] q.k = "exists" -> {e[2] : e \in {e \in x.fieldDocs : e[1] = q.field}}
      [] q.k = "range"  -> {e[3] : e \in {e \in x.postings : e[1] = q.field /\ inRange(q.r, e[2])}}
      [] q.k = "term"   -> {e[3] : e \in {e \in x.postings : e[1] = q.field /\ e[2] \in q.vals}}

\* Plan on the postings of an index, with the field dictionaries it keeps.
LeafPlan(q, x) ==
    CASE q.k = "all"    -> x.all
      [] q.k = "exists" -> {e[2] : e \in {e \in x.fieldDocs : e[1] = q.field}}
      [] q.k = "range"  -> {e[3] : e \in {e \in x.postings : e[1] = q.field /\ inRange(q.r, e[2])}}
      [] q.k = "term"   -> {e[3] : e \in {e \in x.postings :
                                q.field \in {NoField, e[1]} /\ e[2] \in q.vals}}

Plan(code, x) ==
    Run(code, LAMBDA q : LeafPlan(q, x), LAMBDA a, b : a \cap b, LAMBDA a, b : a \cup b,
        LAMBDA a : x.all \ a)

-----------------------------------------------------------------------------
(* Reference: what the tokens of a well-formed query say of a document,     *)
(* read off directly.  An OR outside every parenthesis splits the query     *)
(* first, then an AND, then juxtaposition; what is left is a negation, a    *)
(* parenthesis or one clause.                                               *)

Means(toks, f) ==
    LET depth(i, k) == Cardinality({m \in i..(k - 1) : toks[m].k = "lparen"})
                       - Cardinality({m \in i..(k - 1) : toks[m].k = "rparen"})
        tops(i, j, K) == {k \in i..j : toks[k].k \in K /\ depth(i, k) = 0}
        starts(i, j) == {k \in tops(i, j, {"word", "phrase", "lparen", "not"}) :
                            k > i /\ toks[k - 1].k \notin {"colon", "not"}}
        carries(i, j) ==
            LET v == IF j > i THEN toks[j] ELSE toks[i]
                named(t) == i = j \/ toks[i].field \in {t[1], <<"*">>}
                star == v.k # "range" /\ v.glob = "star"
                hit(u) == CASE v.k = "range"  -> inRange(v, u)
                            [] star           -> TRUE
                            [] v.glob = "some" -> u \in v.pat
                            [] OTHER          -> u = v.val
            IN (\E t \in f : named(t) /\ hit(t[2]))
               \/ (star /\ (i = j \/ toks[i].field = <<"*">>))
        says[x \in (1..Len(toks)) \X (1..Len(toks))] ==
            LET i == x[1]  j == x[2]
                ors == tops(i, j, {"or"})  ands == tops(i, j, {"and"})
            IN CASE ors # {}  -> says[<<i, Max(ors) - 1>>] \/ says[<<Max(ors) + 1, j>>]
                 [] ors = {} /\ ands # {} -> says[<<i, Max(ands) - 1>>] /\ says[<<Max(ands) + 1, j>>]
                 [] ors = {} /\ ands = {} /\ starts(i, j) # {} ->
                        LET k == Max(starts(i, j)) IN says[<<i, k - 1>>] /\ says[<<k, j>>]
                 [] OTHER -> CASE toks[i].k = "not" -> ~says[<<i + 1, j>>]
                               [] toks[i].k = "lparen" -> says[<<i + 1, j - 1>>]
                               [] OTHER -> (toks[i].k = "word" /\ toks[i].neg) # carries(i, j)
    IN says[<<1, Len(toks)>>]

=============================================================================
