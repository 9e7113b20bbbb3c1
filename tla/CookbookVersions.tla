-------------------------- MODULE CookbookVersions --------------------------
(***************************************************************************)
(* Cookbook versions, their order, and the constraints environments and     *)
(* dependencies place on them.                                              *)
(*                                                                          *)
(* A version is the sequence of its dot-separated segments.  Of a segment's *)
(* text only two things matter: the integer it reads as (NotInt when it is  *)
(* none) and where the text stands in string order.  "1" and "01" are two   *)
(* texts of one integer.                                                    *)
(***************************************************************************)
EXTENDS Integers, Sequences, FiniteSetsExt

CONSTANT Decimal    \* Decimal[n]: rank, in string order, of the text of n

NotInt == -1
Seg(n) == [int |-> n, text |-> Decimal[n]]

\* A constraint without an operator has op "bare"; the empty one is Anything.
Anything == [op |-> "any", ver |-> <<>>]

SegmentAt(v, i) == IF i <= Len(v) THEN v[i] ELSE Seg(0)

\* Mutant: the same comparison on the texts alone ("10" before "9").
compareVersionsAsText(a, b) ==
    LET D == {i \in 1..Max({Len(a), Len(b), 1}) :
                SegmentAt(a, i).text # SegmentAt(b, i).text}
    IN IF D = {} THEN 0
       ELSE IF SegmentAt(a, Min(D)).text < SegmentAt(b, Min(D)).text THEN -1 ELSE 1

\* compareVersions: -1, 0 or 1.  The first segment that decides is one whose
\* texts differ, and that differs as an integer too when both read as one.
compareVersions(a, b) ==
    LET decides(i) ==
            LET x == SegmentAt(a, i)  y == SegmentAt(b, i)
            IN /\ x.text # y.text
               /\ x.int = NotInt \/ y.int = NotInt \/ x.int # y.int
        D == {i \in 1..Max({Len(a), Len(b), 1}) : decides(i)}
    IN IF D = {} THEN 0
       ELSE LET x == SegmentAt(a, Min(D))
                y == SegmentAt(b, Min(D))
                below == IF x.int = NotInt \/ y.int = NotInt
                         THEN x.text < y.text ELSE x.int < y.int
            IN IF below THEN -1 ELSE 1

\* pessimisticUpper: the exclusive ceiling of "~> ver".
pessimisticUpper(ver) ==
    LET parts == IF Len(ver) > 1 THEN SubSeq(ver, 1, Len(ver) - 1) ELSE ver
        last  == parts[Len(parts)]
        n     == IF last.int = NotInt THEN 0 ELSE last.int
    IN [parts EXCEPT ![Len(parts)] = Seg(n + 1)]

satisfiesConstraint(v, c) ==
    LET cmp == compareVersions(v, c.ver)
    IN CASE c.op = "any" -> TRUE
         [] c.op \in {"bare", "=", "=="} -> cmp = 0
         [] c.op = "!=" -> cmp # 0
         [] c.op = ">"  -> cmp > 0
         [] c.op = "<"  -> cmp < 0
         [] c.op = ">=" -> cmp >= 0
         [] c.op = "<=" -> cmp <= 0
         [] c.op = "~>" -> cmp >= 0 /\ compareVersions(v, pessimisticUpper(c.ver)) < 0

validCookbookVersion(v) ==
    /\ Len(v) \in 1..3
    /\ \A i \in 1..Len(v) : v[i].int # NotInt /\ v[i].int >= 0

validCookbookConstraint(c) ==
    /\ c.op \in {"bare", "<", ">", "<=", ">=", "~>", "="}
    /\ validCookbookVersion(c.ver)

-----------------------------------------------------------------------------
(* Reference definitions: what the order and the constraints are to mean.   *)

Number(v, i) == IF i <= Len(v) THEN v[i].int ELSE 0
Numeric(v)   == \A i \in DOMAIN v : v[i].int # NotInt

\* Only numeric versions are ordered.
Newer(v, w) ==
    /\ Numeric(v) /\ Numeric(w)
    /\ \E i \in 1..3 : /\ Number(v, i) > Number(w, i)
                       /\ \A j \in 1..(i - 1) : Number(v, j) = Number(w, j)

\* "~> 1.2.3" fixes 1.2 and "~> 1.2" fixes 1; "~> 1" fixes 1 as well.
Admits(c, v) ==
    CASE c.op = "any" -> TRUE
      [] c.op \in {"bare", "=", "=="} -> ~Newer(v, c.ver) /\ ~Newer(c.ver, v)
      [] c.op = "!=" -> Newer(v, c.ver) \/ Newer(c.ver, v)
      [] c.op = ">"  -> Newer(v, c.ver)
      [] c.op = "<"  -> Newer(c.ver, v)
      [] c.op = ">=" -> ~Newer(c.ver, v)
      [] c.op = "<=" -> ~Newer(v, c.ver)
      [] c.op = "~>" -> /\ ~Newer(c.ver, v)
                        /\ \A i \in 1..Max({Len(c.ver) - 1, 1}) :
                              Number(v, i) = Number(c.ver, i)

=============================================================================
