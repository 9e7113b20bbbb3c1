---------------------------- MODULE AtomicStore -----------------------------
(***************************************************************************)
(* What store.Backend promises its callers: every write takes effect        *)
(* entirely, at one instant between its call and its return, and reports    *)
(* what it found at that instant; a write that returns an error took no     *)
(* effect.  Several writes may take effect at the same instant (group       *)
(* commit), in some order.                                                  *)
(***************************************************************************)
EXTENDS Statements, FiniteSets, Functions

VARIABLES
    db,     \* the committed rows
    call,   \* call[w]: what w asked for
    ans     \* ans[w]: what its call has been decided to return

vars == <<db, call, ans>>

Init ==
    /\ db \in {d \in [Rows -> {Old, None}] : d[Org] = None => \A r \in Rows : d[r] = None}
    /\ call = [w \in Writers |-> NoCall]
    /\ ans  = [w \in Writers |-> NoAnswer]

Pending == {w \in Writers : call[w] # NoCall /\ ans[w] = NoAnswer}

Begin(w) ==
    /\ call[w] = NoCall
    /\ \E c \in Calls : call' = [call EXCEPT ![w] = c]
    /\ UNCHANGED <<db, ans>>

\* The databases that the writers of s, in order, find: Run(s, n)[i - 1] is what the
\* i-th of them runs against, Run(s, n)[n] what all n leave.
Run(s, n) ==
    LET run[i \in 0 .. n] == IF i = 0 THEN db ELSE Effect(run[i - 1], s[i], call[s[i]])
    IN  run

Commit ==
    \E S \in SUBSET Pending :
        /\ IsFiniteSet(S)
        /\ LET n == Cardinality(S) IN
           \E s \in Bijection(1 .. n, S) :
               /\ db'  = Run(s, n)[n]
               /\ ans' = [w \in Writers |->
                             IF w \in S
                             THEN LET i == CHOOSE j \in 1 .. n : s[j] = w
                                  IN  Report(Run(s, n)[i - 1], call[w])
                             ELSE ans[w]]
        /\ UNCHANGED call

Fail ==
    \E S \in SUBSET Pending, a \in {Failed, Panicked} :
        /\ ans' = [w \in Writers |-> IF w \in S THEN a ELSE ans[w]]
        /\ UNCHANGED <<db, call>>

Next == (\E w \in Writers : Begin(w)) \/ Commit \/ Fail

Spec == Init /\ [][Next]_vars

=============================================================================
