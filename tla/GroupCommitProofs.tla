------------------------- MODULE GroupCommitProofs --------------------------
(***************************************************************************)
(* Proofs about GroupCommit, for any number of callers, rows and jobs and   *)
(* any capacity of the channel.                                             *)
(***************************************************************************)
EXTENDS GroupCommit, InductionLemmas, FiniteSetTheorems

\* Where a call is says what it asked for, and which mode the backend is in.
CallerAt(w) ==
    /\ pc[w] = "idle" <=> call[w] = NoCall
    /\ pc[w] # "done" => ans[w] = NoAnswer
    /\ pc[w] = "done" => ans[w] # NoAnswer
    /\ pc[w] \in {"begin", "fn", "commit"} => call[w].op = "tx"
    /\ pc[w] \in {"submit", "queued"} => Coalescing /\ call[w].op # "tx"
    /\ pc[w] \in {"exec", "delete", "objects", "blobs"} => ~Coalescing /\ call[w].op # "tx"
    /\ pc[w] = "delete" => call[w].op = "delete" /\ got[w] # None
    /\ pc[w] \in {"objects", "blobs"} => call[w].op = "deleteOrg"

\* The shape of the coalescer's locals at each of its positions.
LoopAt ==
    /\ ~Coalescing => At("exited") /\ ch = <<>>
    /\ At("wait") \/ At("exited") => Jobs = 0
    /\ At("wait") \/ At("exited") \/ At("drain") \/ At("begin") => loop.next = 1
    /\ ~(At("wait") \/ At("exited")) => Jobs > 0
    /\ At("reply") \/ At("isolate") \/ At("isolated") => loop.next <= Jobs
    /\ At("apply") => Len(loop.results) = loop.next - 1
    /\ At("reply") => Len(loop.results) = Jobs

\* The first job of the batch that has no answer yet.
First == IF At("apply") THEN 1 ELSE loop.next

\* A job is in one place, and its caller waits for it.
QueueAt ==
    /\ \A i \in 1 .. Len(ch) : pc[ch[i]] = "queued"
    /\ \A i \in First .. Jobs : pc[loop.batch[i]] = "queued"
    /\ \A i, j \in 1 .. Len(ch) : ch[i] = ch[j] => i = j
    /\ \A i, j \in First .. Jobs : loop.batch[i] = loop.batch[j] => i = j
    /\ \A i \in 1 .. Len(ch), j \in First .. Jobs : ch[i] # loop.batch[j]

\* One transaction at a time, and its holder is where it is open.
ConnAt ==
    /\ conn = Loop <=> At("apply") \/ At("isolated")
    /\ \A w \in Writers : conn = w <=> pc[w] \in {"fn", "commit"}

\* run[i] is the database after the first i jobs of the batch.
IsRun(run, n) ==
    /\ run[0] = db
    /\ \A i \in 1 .. n :
         /\ run[i] = Effect(run[i - 1], loop.batch[i], call[loop.batch[i]])
         /\ loop.results[i] = Report(run[i - 1], call[loop.batch[i]])

\* What the open transaction sees: the committed rows and what it has done to them.
TxAt ==
    /\ At("isolated") => tx = db
    /\ \A w \in Writers : pc[w] = "fn" => tx = db
    /\ \A w \in Writers : pc[w] = "commit" => db[Org] = None /\ tx = Effect(db, w, call[w])
    /\ At("apply") =>
         \E run : run \in [0 .. loop.next - 1 -> Databases] /\ IsRun(run, loop.next - 1) /\ run[loop.next - 1] = tx

Discipline ==
    /\ TypeOK
    /\ \A w \in Writers : CallerAt(w)
    /\ LoopAt
    /\ QueueAt
    /\ ConnAt

\* What a direct call has seen so far.
SeenAt(w) ==
    /\ pc[w] \notin {"idle", "done"} => db[call[w].row] \in seen[w]
    /\ pc[w] \in {"delete", "objects", "blobs"} => got[w] \in seen[w]
    /\ pc[w] \in {"objects", "blobs"} => None \in seen[w]

\* With d the committed rows and D the decided answers: a stored value is one that
\* its writer's answer reports, a value reported deleted is not stored any more and
\* cannot be stored again, and no two deletes report the same one.
Spent(D, v) == call[v].op = "delete" /\ D[v].old # None

Once(d, D) ==
    /\ \A r \in Rows : d[r] \in Writers => D[d[r]] # NoAnswer
    /\ \A v \in Writers : Spent(D, v) =>
          /\ d[call[v].row] # D[v].old
          /\ D[v].old \in Writers => D[D[v].old] # NoAnswer
    /\ \A v, w \in Writers :
          /\ Spent(D, v) /\ Spent(D, w)
          /\ call[v].row = call[w].row /\ D[v].old = D[w].old
          => v = w

OnceInv == Once(db, Decided)

-----------------------------------------------------------------------------
(* The values of the model.                                                 *)

CallOps == {"put", "create", "delete", "drop", "deleteOrg", "tx"}

LEMMA CallFacts ==
    ASSUME NEW c \in Calls
    PROVE  /\ c.op \in CallOps
           /\ c.row \in Rows
           /\ c.op \in {"deleteOrg", "tx"} => c.row = Org
           /\ c # NoCall
  BY DEF Calls, Call, NoCall, CallOps, Rows

LEMMA AnswerFacts ==
    /\ Failed \in Answers /\ Panicked \in Answers /\ NoAnswer \notin Answers
    /\ \A v \in Values \cup {None} : Answer("nil", v) \in Answers
  BY DEF Failed, Panicked, NoAnswer, Answers, Answer

LEMMA EffectType ==
    ASSUME NEW d \in Databases, NEW w \in Writers, NEW c \in Calls
    PROVE  /\ Effect(d, w, c) \in Databases
           /\ Report(d, c) \in Answers
<1> USE CallFacts DEF CallOps
<1>1. Effect(d, w, c) \in Databases
  BY DEF Effect, Databases, Values, Rows
<1>2. d[c.row] \in Values \cup {None}
  BY DEF Databases
<1>3. Report(d, c) \in Answers
  BY <1>2 DEF Report, Answer, Answers
<1> QED
  BY <1>1, <1>3

-----------------------------------------------------------------------------
(* Types and discipline: where everybody is.                                *)

Labels == {"idle", "submit", "queued", "exec", "delete", "objects", "blobs", "begin",
           "fn", "commit", "done"}
LoopType == [at : {"wait", "drain", "begin", "apply", "reply", "isolate", "isolated", "exited"},
             batch : Seq(Writers), next : Nat, results : Seq(Answers), nils : 0 .. MaxNils]

RowsOK == db \in Databases /\ tx \in Databases /\ conn \in Writers \cup {Free, Loop}

CallersOK ==
    /\ pc \in [Writers -> Labels]
    /\ call \in [Writers -> Calls \cup {NoCall}]
    /\ got \in [Writers -> Values \cup {None}]
    /\ ans \in [Writers -> Answers \cup {NoAnswer}]

LoopOK ==
    /\ ch \in Seq(Writers) /\ Len(ch) <= Cap
    /\ loop \in LoopType
    /\ loop.next \in 1 .. Jobs + 1

RestOK ==
    /\ closed \in BOOLEAN /\ shut \in BOOLEAN
    /\ seen \in [Writers -> SUBSET (Values \cup {None})]

LEMMA TypeParts == TypeOK <=> RowsOK /\ CallersOK /\ LoopOK /\ RestOK
  BY DEF TypeOK, RowsOK, CallersOK, LoopOK, RestOK, Labels, LoopType

LEMMA TypePartsPrimed == TypeOK' <=> RowsOK' /\ CallersOK' /\ LoopOK' /\ RestOK'
  BY DEF TypeOK, RowsOK, CallersOK, LoopOK, RestOK, Labels, LoopType, Jobs

LEMMA InitDiscipline == Init => Discipline
<1> SUFFICES ASSUME Init PROVE Discipline
  OBVIOUS
<1>1. RowsOK
  BY DEF Init, RowsOK, Databases, Values
<1>2. CallersOK
  BY DEF Init, CallersOK, Labels
<1>3. LoopOK
  BY GroupCommitConstants DEF Init, LoopOK, LoopType, Jobs
<1>4. RestOK
  BY DEF Init, RestOK
<1>5. ASSUME NEW w \in Writers PROVE CallerAt(w)
  BY DEF Init, CallerAt
<1>6. LoopAt
  BY GroupCommitConstants DEF Init, LoopAt, At, Jobs
<1>7. QueueAt
  BY <1>6 DEF Init, QueueAt, First, At, Jobs
<1>8. ConnAt
  BY GroupCommitConstants DEF Init, ConnAt, At
<1> QED
  BY <1>1, <1>2, <1>3, <1>4, <1>5, <1>6, <1>7, <1>8, TypeParts DEF Discipline

\* The coalescer's current job belongs to a caller that waits.
LEMMA JobFacts ==
    ASSUME Discipline, loop.next <= Jobs,
           At("apply") \/ At("reply") \/ At("isolate") \/ At("isolated")
    PROVE  /\ Job \in Writers
           /\ pc[Job] = "queued"
           /\ call[Job] \in Calls
           /\ call[Job].op # "tx"
           /\ Coalescing
<1>1. loop.next \in 1 .. Jobs /\ Job \in Writers
  BY TypeParts DEF Discipline, LoopOK, LoopType, Jobs, Job
<1>2. loop.next \in First .. Jobs
  BY <1>1 DEF First
<1>3. pc[Job] = "queued"
  BY <1>2 DEF Discipline, QueueAt, Job
<1>4. CallerAt(Job) /\ call[Job] \in Calls \cup {NoCall}
  BY <1>1, TypeParts DEF Discipline, CallersOK
<1> QED
  BY <1>1, <1>3, <1>4 DEF CallerAt

LEMMA CallingFacts ==
    ASSUME NEW w \in Writers, Discipline, pc[w] # "idle"
    PROVE  call[w] \in Calls
  BY TypeParts DEF Discipline, CallersOK, CallerAt

LEMMA CallerType ==
    ASSUME NEW w \in Writers, Discipline, Start(w) \/ Caller(w)
    PROVE  RowsOK' /\ CallersOK' /\ LoopOK'
<1> USE TypeParts DEF Discipline
<1>0. RowsOK /\ CallersOK /\ LoopOK
  OBVIOUS
<1>1. CASE Start(w)
  BY <1>0, <1>1 DEF Start, Goto, RowsOK, CallersOK, LoopOK, Labels, Jobs
<1> SUFFICES ASSUME Caller(w) PROVE RowsOK' /\ CallersOK' /\ LoopOK'
  BY <1>1
<1>2. CASE Submit(w)
  BY <1>0, <1>2, GroupCommitConstants DEF Submit, Goto, RowsOK, CallersOK, LoopOK, Labels, Jobs
<1>3. CASE SubmitClosed(w)
  BY <1>0, <1>3, AnswerFacts DEF SubmitClosed, Return, RowsOK, CallersOK, LoopOK, Labels, Jobs
<1>4. CASE Exec(w)
  <2>1. call[w] \in Calls
    BY <1>4, CallingFacts DEF Exec
  <2>2. Effect(db, w, call[w]) \in Databases /\ Report(db, call[w]) \in Answers
    BY <1>0, <2>1, EffectType DEF RowsOK
  <2> QED
    BY <1>0, <1>4, <2>2 DEF Exec, Return, RowsOK, CallersOK, LoopOK, Labels, Jobs
<1>5. CASE Get(w)
  <2>1. call[w] \in Calls
    BY <1>5, CallingFacts DEF Get
  <2>2. db[call[w].row] \in Values \cup {None}
    BY <1>0, <2>1, CallFacts DEF RowsOK, Databases
  <2> QED
    BY <1>0, <1>5, <2>2, AnswerFacts DEF Get, Return, Goto, RowsOK, CallersOK, LoopOK, Labels, Jobs
<1>6. CASE ExecDelete(w)
  <2>1. [db EXCEPT ![call[w].row] = None] \in Databases
    BY <1>0 DEF RowsOK, Databases
  <2>2. Answer("nil", got[w]) \in Answers
    BY <1>0, AnswerFacts DEF CallersOK
  <2> QED
    BY <1>0, <1>6, <2>1, <2>2 DEF ExecDelete, Return, RowsOK, CallersOK, LoopOK, Labels, Jobs
<1>7. CASE ExecDeleteOrg(w)
  <2>1. db[Org] \in Values \cup {None}
    BY <1>0 DEF RowsOK, Databases, Rows
  <2>2. Answer("nil", got[w]) \in Answers
    BY <1>0, AnswerFacts DEF CallersOK
  <2>3. RowsOK'
    BY <1>0, <1>7 DEF ExecDeleteOrg, RowsOK, Databases
  <2>4. CallersOK'
    BY <1>0, <1>7, <2>1, <2>2, AnswerFacts DEF ExecDeleteOrg, Return, Goto, CallersOK, Labels
  <2> QED
    BY <1>0, <1>7, <2>3, <2>4 DEF ExecDeleteOrg, LoopOK, Jobs
<1>8. CASE TxBegin(w)
  BY <1>0, <1>8 DEF TxBegin, Goto, RowsOK, CallersOK, LoopOK, Labels, Jobs
<1>9. CASE TxFn(w)
  <2>1. call[w] \in Calls
    BY <1>9, CallingFacts DEF TxFn
  <2>2. Effect(tx, w, call[w]) \in Databases /\ Report(tx, call[w]) \in Answers
    BY <1>0, <2>1, EffectType DEF RowsOK
  <2> QED
    BY <1>0, <1>9, <2>2 DEF TxFn, Return, Goto, RowsOK, CallersOK, LoopOK, Labels, Jobs
<1>10. CASE TxCommit(w)
  BY <1>0, <1>10, AnswerFacts DEF TxCommit, Return, RowsOK, CallersOK, LoopOK, Labels, Jobs
<1>11. CASE CallFails(w)
  BY <1>0, <1>11, AnswerFacts DEF CallFails, Return, RowsOK, CallersOK, LoopOK, Labels, Jobs
<1> QED
  BY <1>2, <1>3, <1>4, <1>5, <1>6, <1>7, <1>8, <1>9, <1>10, <1>11 DEF Caller

LEMMA CoalescerType ==
    ASSUME Discipline, Coalescer
    PROVE  RowsOK' /\ CallersOK' /\ LoopOK'
<1>0. RowsOK /\ CallersOK /\ LoopOK /\ LoopAt
  BY TypeParts DEF Discipline
<1>d. <<>> \in Seq(Answers) /\ <<>> \in Seq(Writers)
  OBVIOUS
<1>e. loop.next + 1 \in Nat
  BY <1>0 DEF LoopOK, LoopType
<1>a. ASSUME NEW l \in {"begin", "apply", "reply", "isolate"}, NEW rs \in Seq(Answers),
             loop' = From(l, rs), UNCHANGED ch
      PROVE  LoopOK'
  <2>1. loop' \in LoopType
    BY <1>0, <1>a DEF From, LoopOK, LoopType
  <2>2. loop'.batch = loop.batch /\ loop'.next = 1
    BY <1>0, <1>a DEF From, LoopOK, LoopType
  <2>3. Len(loop.batch) \in Nat
    BY <1>0 DEF LoopOK, LoopType
  <2> QED
    BY <1>0, <1>a, <2>1, <2>2, <2>3 DEF LoopOK, Jobs
<1>b. ASSUME NEW l \in {"reply", "isolate"}, NextJob(l), loop.next <= Jobs, UNCHANGED ch
      PROVE  LoopOK'
  <2>1. loop' \in LoopType
    <3>1. CASE loop.next = Jobs
      BY <1>0, <1>b, <1>d, <3>1 DEF NextJob, From, LoopOK, LoopType
    <3>2. CASE loop.next # Jobs
      BY <1>0, <1>b, <1>e, <3>2 DEF NextJob, LoopOK, LoopType
    <3> QED
      BY <3>1, <3>2
  <2>2. \/ loop'.batch = <<>> /\ loop'.next = 1
        \/ loop'.batch = loop.batch /\ loop'.next = loop.next + 1 /\ loop.next # Jobs
    BY <1>0, <1>b DEF NextJob, From, LoopOK, LoopType
  <2>3. Jobs \in Nat /\ loop.next \in 1 .. Jobs
    BY <1>0, <1>b DEF LoopOK, LoopType, Jobs
  <2> QED
    BY <1>0, <1>b, <2>1, <2>2, <2>3 DEF LoopOK, Jobs
<1>c. ASSUME NEW a \in Answers, Return(Job, a), Job \in Writers, UNCHANGED <<call, got>>
      PROVE  CallersOK'
  BY <1>0, <1>c DEF Return, CallersOK, Labels
<1>1. CASE Receive
  <2>1. Head(ch) \in Writers /\ Tail(ch) \in Seq(Writers) /\ Len(Tail(ch)) <= Cap
    BY <1>0, <1>1, GroupCommitConstants DEF Receive, LoopOK
  <2>2. loop.batch \in Seq(Writers) /\ Append(loop.batch, Head(ch)) \in Seq(Writers)
    BY <1>0, <2>1 DEF LoopOK, LoopType
  <2>3. /\ loop' \in LoopType
        /\ loop'.batch = Append(loop.batch, Head(ch))
        /\ loop'.next = loop.next
    BY <1>0, <1>1, <2>2 DEF Receive, LoopOK, LoopType
  <2>4. LoopOK'
    BY <1>0, <1>1, <2>1, <2>2, <2>3 DEF Receive, LoopOK, Jobs
  <2> QED
    BY <1>0, <1>1, <2>4 DEF Receive, RowsOK, CallersOK
<1>2. CASE Exit
  <2>1. loop' \in LoopType /\ loop'.batch = loop.batch /\ loop'.next = loop.next
    BY <1>0, <1>2 DEF Exit, LoopOK, LoopType
  <2> QED
    BY <1>0, <1>2, <2>1 DEF Exit, RowsOK, CallersOK, LoopOK, Jobs
<1>3. CASE Drain
  <2>1. Head(ch) \in Writers /\ Tail(ch) \in Seq(Writers) /\ Len(Tail(ch)) <= Cap
    BY <1>0, <1>3, GroupCommitConstants DEF Drain, LoopOK
  <2>2. loop.batch \in Seq(Writers) /\ Append(loop.batch, Head(ch)) \in Seq(Writers)
    BY <1>0, <2>1 DEF LoopOK, LoopType
  <2>3. /\ loop' \in LoopType
        /\ loop'.batch = Append(loop.batch, Head(ch))
        /\ loop'.next = loop.next
    BY <1>0, <1>3, <2>2 DEF Drain, LoopOK, LoopType
  <2>4. LoopOK'
    BY <1>0, <1>3, <2>1, <2>2, <2>3 DEF Drain, LoopOK, Jobs
  <2> QED
    BY <1>0, <1>3, <2>4 DEF Drain, RowsOK, CallersOK
<1>4. CASE DrainNil
  <2>1. loop' \in LoopType /\ loop'.batch = loop.batch /\ loop'.next = loop.next
    BY <1>0, <1>4, GroupCommitConstants DEF DrainNil, LoopOK, LoopType
  <2> QED
    BY <1>0, <1>4, <2>1 DEF DrainNil, RowsOK, CallersOK, LoopOK, Jobs
<1>5. CASE Drained
  BY <1>0, <1>5, <1>a, <1>d DEF Drained, RowsOK, CallersOK
<1>6. CASE BatchBegin
  BY <1>0, <1>6, <1>a, <1>d DEF BatchBegin, RowsOK, CallersOK
<1>7. CASE BatchBeginFails
  <2>0. Jobs \in Nat
    BY <1>0 DEF LoopOK, LoopType, Jobs
  <2>1. [i \in 1 .. Jobs |-> Failed] \in Seq(Answers)
    BY <2>0, AnswerFacts
  <2> QED
    BY <1>0, <1>7, <2>1, <1>a DEF BatchBeginFails, RowsOK, CallersOK
<1>8. CASE Apply
  <2>1. Job \in Writers /\ call[Job] \in Calls
    BY <1>8, JobFacts DEF Apply
  <2>2. Effect(tx, Job, call[Job]) \in Databases /\ Report(tx, call[Job]) \in Answers
    BY <1>0, <2>1, EffectType DEF RowsOK
  <2>6. Append(loop.results, Report(tx, call[Job])) \in Seq(Answers)
    BY <1>0, <2>2 DEF LoopOK, LoopType
  <2>3. loop' \in LoopType /\ loop'.batch = loop.batch /\ loop'.next = loop.next + 1
    BY <1>0, <1>8, <1>e, <2>6 DEF Apply, LoopOK, LoopType
  <2>4. Jobs \in Nat /\ loop.next \in 1 .. Jobs
    BY <1>0, <1>8 DEF Apply, LoopOK, LoopType, Jobs
  <2>5. LoopOK'
    BY <1>0, <1>8, <2>3, <2>4 DEF Apply, LoopOK, Jobs
  <2> QED
    BY <1>0, <1>8, <2>2, <2>5 DEF Apply, RowsOK, CallersOK
<1>9. CASE BatchCommit
  <2>1. loop.results \in Seq(Answers)
    BY <1>0 DEF LoopOK, LoopType
  <2> QED
    BY <1>0, <1>9, <2>1, <1>a DEF BatchCommit, RowsOK, CallersOK
<1>10. CASE BatchFails
  BY <1>0, <1>10, <1>a, <1>d DEF BatchFails, RowsOK, CallersOK
<1>11. CASE Reply
  <2>1. loop.next <= Jobs /\ Job \in Writers
    BY <1>0, <1>11, JobFacts DEF Reply, LoopAt
  <2>2. loop.results[loop.next] \in Answers
    BY <1>0, <1>11, <2>1 DEF Reply, LoopAt, LoopOK, LoopType, Jobs
  <2> QED
    BY <1>0, <1>11, <2>1, <2>2, <1>b, <1>c DEF Reply, RowsOK
<1>12. CASE IsolatedBegin
  <2>1. loop' \in LoopType /\ loop'.batch = loop.batch /\ loop'.next = loop.next
    BY <1>0, <1>12 DEF IsolatedBegin, LoopOK, LoopType
  <2> QED
    BY <1>0, <1>12, <2>1 DEF IsolatedBegin, RowsOK, CallersOK, LoopOK, Jobs
<1>13. CASE IsolatedCommit
  <2>1. loop.next <= Jobs
    BY <1>0, <1>13 DEF IsolatedCommit, LoopAt
  <2>2. Job \in Writers /\ call[Job] \in Calls
    BY <1>13, <2>1, JobFacts DEF IsolatedCommit
  <2>3. Effect(tx, Job, call[Job]) \in Databases /\ Report(tx, call[Job]) \in Answers
    BY <1>0, <2>2, EffectType DEF RowsOK
  <2> QED
    BY <1>0, <1>13, <2>1, <2>2, <2>3, <1>b, <1>c DEF IsolatedCommit, RowsOK
<1>14. CASE IsolatedFails
  <2>1. loop.next <= Jobs
    BY <1>0, <1>14 DEF IsolatedFails, LoopAt
  <2>2. Job \in Writers
    BY <1>14, <2>1, JobFacts DEF IsolatedFails
  <2> QED
    BY <1>0, <1>14, <2>1, <2>2, <1>b, <1>c, AnswerFacts DEF IsolatedFails, RowsOK
<1> QED
  BY <1>1, <1>2, <1>3, <1>4, <1>5, <1>6, <1>7, <1>8, <1>9, <1>10, <1>11, <1>12, <1>13, <1>14
     DEF Coalescer

LEMMA ClosingType ==
    ASSUME Discipline, Close \/ ClosePools
    PROVE  RowsOK' /\ CallersOK' /\ LoopOK'
  BY TypeParts DEF Discipline, Close, ClosePools, RowsOK, CallersOK, LoopOK, Jobs

LEMMA TypeStep ==
    ASSUME Discipline, Next
    PROVE  TypeOK'
<1> USE TypeParts DEF Discipline
<1>1. CASE Stopped
  BY <1>1, TypePartsPrimed
     DEF Stopped, vars, RowsOK, CallersOK, LoopOK, RestOK, Jobs
<1> SUFFICES ASSUME ~Stopped
             PROVE  TypeOK'
  BY <1>1
<1>2. RowsOK' /\ CallersOK' /\ LoopOK'
  BY CallerType, CoalescerType, ClosingType DEF Next
<1>3. closed' \in BOOLEAN /\ shut' \in BOOLEAN
  BY DEF Next, Start, Caller, Submit, SubmitClosed, Exec, Get, ExecDelete, ExecDeleteOrg,
         TxBegin, TxFn, TxCommit, CallFails, Coalescer, Receive, Exit, Drain, DrainNil, Drained,
         BatchBegin, BatchBeginFails, Apply, BatchCommit, BatchFails, Reply, IsolatedBegin,
         IsolatedCommit, IsolatedFails, Close, ClosePools, RestOK
<1>4. \A w \in Writers : db'[call'[w].row] \in Values \cup {None}
  <2> TAKE w \in Writers
  <2>1. call'[w].row \in Rows
    BY <1>2, CallFacts DEF CallersOK, NoCall, Call, Rows
  <2> QED
    BY <1>2, <2>1 DEF RowsOK, Databases
<1>5. seen' \in [Writers -> SUBSET (Values \cup {None})]
  <2>1. History
    BY DEF Next
  <2> QED
    BY <1>4, <2>1 DEF History, RestOK
<1> QED
  BY <1>2, <1>3, <1>5, TypePartsPrimed DEF RestOK

\* A call that takes no step stays where it is.
LEMMA CallerStays ==
    ASSUME NEW v \in Writers, CallerAt(v),
           pc'[v] = pc[v], call'[v] = call[v], got'[v] = got[v], ans'[v] = ans[v]
    PROVE  CallerAt(v)'
  BY DEF CallerAt

\* A call that returns has an answer.
LEMMA CallerReturns ==
    ASSUME NEW w \in Writers, NEW a \in Answers, Discipline, Return(w, a), call'[w] = call[w],
           pc[w] # "idle"
    PROVE  CallerAt(w)'
<1>1. pc'[w] = "done" /\ ans'[w] = a
  BY TypeParts DEF Return, Discipline, CallersOK
<1>2. call[w] # NoCall
  BY DEF Discipline, CallerAt
<1> QED
  BY <1>1, <1>2, AnswerFacts DEF CallerAt

LEMMA CallerOwnStep ==
    ASSUME NEW w \in Writers, Discipline, Start(w) \/ Caller(w)
    PROVE  CallerAt(w)'
<1>0. RowsOK /\ CallersOK /\ CallerAt(w)
  BY TypeParts DEF Discipline
<1>1. CASE Start(w)
  <2>1. PICK c \in Calls :
            /\ call' = [call EXCEPT ![w] = c]
            /\ Goto(w, IF c.op = "tx" THEN "begin" ELSE IF Coalescing THEN "submit" ELSE "exec")
    BY <1>1 DEF Start
  <2>2. c # NoCall
    BY CallFacts
  <2> QED
    BY <1>0, <1>1, <2>1, <2>2, GroupCommitConstants DEF Start, Goto, CallersOK, CallerAt
<1>2. CASE Submit(w)
  BY <1>0, <1>2 DEF Submit, Goto, CallersOK, CallerAt
<1>3. CASE SubmitClosed(w)
  BY <1>3, CallerReturns, AnswerFacts DEF SubmitClosed
<1>4. CASE Exec(w)
  <2>1. pc[w] # "idle" /\ Report(db, call[w]) \in Answers
    BY <1>0, <1>4, CallingFacts, EffectType DEF Exec, RowsOK
  <2> QED
    BY <1>4, <2>1, CallerReturns DEF Exec
<1>5. CASE Get(w)
  BY <1>0, <1>5, CallerReturns, AnswerFacts DEF Get, Goto, CallersOK, CallerAt
<1>6. CASE ExecDelete(w)
  BY <1>0, <1>6, CallerReturns, AnswerFacts DEF ExecDelete, CallersOK
<1>7. CASE ExecDeleteOrg(w)
  BY <1>0, <1>7, CallerReturns, AnswerFacts DEF ExecDeleteOrg, Goto, CallersOK, CallerAt
<1>8. CASE TxBegin(w)
  BY <1>0, <1>8 DEF TxBegin, Goto, CallersOK, CallerAt
<1>9. CASE TxFn(w)
  <2>1. pc[w] # "idle" /\ Report(tx, call[w]) \in Answers
    BY <1>0, <1>9, CallingFacts, EffectType DEF TxFn, RowsOK
  <2> QED
    BY <1>0, <1>9, <2>1, CallerReturns DEF TxFn, Goto, CallersOK, CallerAt
<1>10. CASE TxCommit(w)
  BY <1>10, CallerReturns, AnswerFacts DEF TxCommit
<1>11. CASE CallFails(w)
  BY <1>11, CallerReturns, AnswerFacts DEF CallFails
<1> QED
  BY <1>1, <1>2, <1>3, <1>4, <1>5, <1>6, <1>7, <1>8, <1>9, <1>10, <1>11 DEF Caller

\* A step of w's own is no step of another caller.
LEMMA CallerFrame ==
    ASSUME NEW w \in Writers, Discipline, Start(w) \/ Caller(w), NEW v \in Writers, v # w
    PROVE  pc'[v] = pc[v] /\ call'[v] = call[v] /\ got'[v] = got[v] /\ ans'[v] = ans[v]
<1>0. CallersOK
  BY TypeParts DEF Discipline
<1> QED
  BY <1>0 DEF Start, Caller, Submit, SubmitClosed, Exec, Get, ExecDelete, ExecDeleteOrg,
              TxBegin, TxFn, TxCommit, CallFails, Return, Goto, CallersOK

\* The coalescer's steps either answer its job or leave the callers alone.
LEMMA CoalescerAnswers ==
    ASSUME Discipline, Coalescer
    PROVE  /\ UNCHANGED <<call, got>>
           /\ \/ UNCHANGED <<pc, ans>>
              \/ /\ loop.next <= Jobs
                 /\ At("reply") \/ At("isolate") \/ At("isolated")
                 /\ \E a \in Answers : Return(Job, a)
<1>1. CASE Reply \/ IsolatedCommit \/ IsolatedFails
  <2>0. RowsOK /\ LoopOK /\ LoopAt
    BY TypeParts DEF Discipline
  <2>1. loop.next <= Jobs /\ (At("reply") \/ At("isolate") \/ At("isolated"))
    BY <1>1, <2>0 DEF Reply, IsolatedCommit, IsolatedFails, LoopAt
  <2>2. Job \in Writers /\ call[Job] \in Calls
    BY <2>1, JobFacts
  <2>3. Report(tx, call[Job]) \in Answers /\ Failed \in Answers
    BY <2>0, <2>2, EffectType, AnswerFacts DEF RowsOK
  <2>4. At("reply") => loop.results[loop.next] \in Answers
    BY <2>0, <2>1 DEF LoopOK, LoopType, LoopAt, Jobs
  <2> QED
    BY <1>1, <2>1, <2>3, <2>4 DEF Reply, IsolatedCommit, IsolatedFails
<1>2. CASE ~(Reply \/ IsolatedCommit \/ IsolatedFails)
  BY <1>2 DEF Coalescer, Receive, Exit, Drain, DrainNil, Drained, BatchBegin, BatchBeginFails,
              Apply, BatchCommit, BatchFails, IsolatedBegin
<1> QED
  BY <1>1, <1>2

LEMMA CallersStep ==
    ASSUME Discipline, Next, NEW v \in Writers
    PROVE  CallerAt(v)'
<1>0. CallerAt(v) /\ CallersOK
  BY TypeParts DEF Discipline
<1>1. ASSUME NEW w \in Writers, Start(w) \/ Caller(w)
      PROVE  CallerAt(v)'
  BY <1>0, <1>1, CallerOwnStep, CallerFrame, CallerStays
<1>2. CASE Coalescer
  <2>1. CASE UNCHANGED <<pc, ans>>
    BY <1>0, <1>2, <2>1, CoalescerAnswers, CallerStays
  <2>2. CASE \E a \in Answers : Return(Job, a) /\ Job \in Writers /\ pc[Job] = "queued"
    <3>1. PICK a \in Answers : Return(Job, a)
      BY <2>2
    <3>2. CASE v = Job
      BY <1>2, <2>2, <3>1, <3>2, CoalescerAnswers, CallerReturns
    <3>3. CASE v # Job
      <4>1. pc'[v] = pc[v] /\ ans'[v] = ans[v]
        BY <1>0, <3>1, <3>3 DEF Return, CallersOK
      <4> QED
        BY <1>0, <1>2, <4>1, CoalescerAnswers, CallerStays
    <3> QED
      BY <3>2, <3>3
  <2> QED
    BY <1>2, <2>1, <2>2, CoalescerAnswers, JobFacts
<1>3. CASE Close \/ ClosePools \/ Stopped
  BY <1>0, <1>3, CallerStays DEF Close, ClosePools, Stopped, vars
<1> QED
  BY <1>1, <1>2, <1>3 DEF Next

LEMMA CallerLoop ==
    ASSUME NEW w \in Writers, Discipline, Start(w) \/ Caller(w)
    PROVE  /\ UNCHANGED loop
           /\ UNCHANGED ch \/ (Submit(w) /\ ch' = Append(ch, w))
  BY DEF Start, Caller, Submit, SubmitClosed, Exec, Get, ExecDelete, ExecDeleteOrg,
         TxBegin, TxFn, TxCommit, CallFails

LEMMA LoopStep ==
    ASSUME Discipline, Next
    PROVE  LoopAt'
<1>0. LoopOK /\ LoopAt
  BY TypeParts DEF Discipline
<1>1. loop \in LoopType /\ Jobs \in Nat /\ loop.next \in 1 .. Jobs + 1
  BY <1>0 DEF LoopOK, LoopType, Jobs
<1>2. ASSUME NEW w \in Writers, Start(w) \/ Caller(w)
      PROVE  LoopAt'
  <2>1. Submit(w) => Coalescing
    BY DEF Submit, Discipline, CallerAt
  <2> QED
    BY <1>0, <1>2, <2>1, CallerLoop DEF LoopAt, At, Jobs
<1>3. CASE Coalescer
  <2>0. Coalescing
    BY <1>0, <1>3, GroupCommitConstants
       DEF LoopAt, Coalescer, Receive, Exit, Drain, DrainNil, Drained, BatchBegin,
           BatchBeginFails, Apply, BatchCommit, BatchFails, Reply, IsolatedBegin,
           IsolatedCommit, IsolatedFails, At
  <2>1. CASE Receive \/ Drain
    <3>1. /\ loop'.at = "drain" /\ loop'.batch = Append(loop.batch, Head(ch))
          /\ loop'.next = loop.next
      BY <1>1, <2>1 DEF Receive, Drain, LoopType, At
    <3>2. Len(loop'.batch) = Jobs + 1 /\ loop.next = 1
      BY <1>0, <1>1, <2>1, <3>1 DEF LoopType, Jobs, Receive, Drain, LoopAt, LoopOK
    <3> QED
      BY <1>1, <2>0, <3>1, <3>2 DEF LoopAt, At, Jobs
  <2>2. CASE Exit \/ DrainNil
    <3>1. /\ loop'.at = (IF Exit THEN "exited" ELSE "drain")
          /\ loop'.batch = loop.batch /\ loop'.next = loop.next
      BY <1>1, <2>2 DEF Exit, DrainNil, LoopType, At
    <3> QED
      BY <1>0, <1>1, <2>0, <2>2, <3>1 DEF LoopAt, At, Jobs, Exit, DrainNil
  <2>3. CASE Drained \/ BatchBegin \/ BatchFails
    <3>1. /\ loop'.at \in {"begin", "apply", "isolate"} /\ loop'.next = 1
          /\ loop'.batch = loop.batch /\ loop'.results = <<>>
      BY <1>1, <2>3 DEF Drained, BatchBegin, BatchFails, From, LoopType
    <3>2. Jobs > 0
      BY <1>0, <2>3 DEF LoopAt, At, Drained, BatchBegin, BatchFails
    <3> QED
      BY <1>1, <2>0, <3>1, <3>2 DEF LoopAt, At, Jobs
  <2>4. CASE BatchBeginFails
    <3>1. /\ loop'.at = "reply" /\ loop'.next = 1
          /\ loop'.batch = loop.batch /\ Len(loop'.results) = Jobs
      BY <1>1, <2>4 DEF BatchBeginFails, From, LoopType
    <3> QED
      BY <1>0, <1>1, <2>0, <2>4, <3>1 DEF LoopAt, At, Jobs, BatchBeginFails
  <2>5. CASE Apply
    <3>1. /\ loop'.at = "apply" /\ loop'.next = loop.next + 1
          /\ loop'.batch = loop.batch /\ Len(loop'.results) = Len(loop.results) + 1
      BY <1>1, <2>5 DEF Apply, LoopType, At
    <3> QED
      BY <1>0, <1>1, <2>0, <2>5, <3>1 DEF LoopAt, At, Jobs, Apply
  <2>6. CASE BatchCommit
    <3>1. /\ loop'.at = "reply" /\ loop'.next = 1
          /\ loop'.batch = loop.batch /\ loop'.results = loop.results
      BY <1>1, <2>6 DEF BatchCommit, From, LoopType
    <3> QED
      BY <1>0, <1>1, <2>0, <2>6, <3>1 DEF LoopAt, At, Jobs, BatchCommit
  <2>7. CASE IsolatedBegin
    <3>1. /\ loop'.at = "isolated" /\ loop'.next = loop.next /\ loop'.batch = loop.batch
      BY <1>1, <2>7 DEF IsolatedBegin, LoopType
    <3> QED
      BY <1>0, <1>1, <2>0, <2>7, <3>1 DEF LoopAt, At, Jobs, IsolatedBegin
  <2>8. CASE Reply \/ IsolatedCommit \/ IsolatedFails
    <3>1. PICK l \in {"reply", "isolate"} :
              NextJob(l) /\ (l = "reply" => At("reply"))
      BY <2>8 DEF Reply, IsolatedCommit, IsolatedFails
    <3>2. \/ loop'.at = "wait" /\ loop'.next = 1 /\ loop'.batch = <<>>
          \/ /\ loop'.at = l /\ loop'.next = loop.next + 1 /\ loop'.batch = loop.batch
             /\ loop'.results = loop.results /\ loop.next # Jobs
      BY <1>1, <3>1 DEF NextJob, From, LoopType
    <3>3. loop.next <= Jobs
      BY <1>0, <2>8 DEF LoopAt, Reply, IsolatedCommit, IsolatedFails
    <3> QED
      BY <1>0, <1>1, <2>0, <3>1, <3>2, <3>3 DEF LoopAt, At, Jobs
  <2> QED
    BY <1>3, <2>1, <2>2, <2>3, <2>4, <2>5, <2>6, <2>7, <2>8 DEF Coalescer
<1>4. CASE Close \/ ClosePools \/ Stopped
  BY <1>0, <1>4 DEF Close, ClosePools, Stopped, vars, LoopAt, At, Jobs
<1> QED
  BY <1>2, <1>3, <1>4 DEF Next

\* What the coalescer's steps do to its batch: take a job from the channel, leave
\* the unanswered jobs as they are, or answer the first of them.
LEMMA CoalescerMoves ==
    ASSUME Discipline, Coalescer
    PROVE  \/ /\ ch # <<>> /\ ch' = Tail(ch) /\ loop'.batch = Append(loop.batch, Head(ch))
              /\ First = 1 /\ First' = 1 /\ UNCHANGED pc
           \/ /\ UNCHANGED <<ch, pc>>
              /\ loop'.batch = loop.batch /\ First' = First
           \/ /\ UNCHANGED ch /\ Job \in Writers /\ pc' = [pc EXCEPT ![Job] = "done"]
              /\ First = loop.next /\ loop.next <= Jobs
              /\ \/ loop'.batch = <<>> /\ First' = 1
                 \/ loop'.batch = loop.batch /\ First' = First + 1
<1>0. LoopOK /\ LoopAt
  BY TypeParts DEF Discipline
<1>1. loop \in LoopType /\ Jobs \in Nat /\ loop.next \in 1 .. Jobs + 1
  BY <1>0 DEF LoopOK, LoopType, Jobs
<1>2. CASE Receive \/ Drain
  <2>1. /\ loop'.at = "drain" /\ loop'.batch = Append(loop.batch, Head(ch))
        /\ loop'.next = loop.next
    BY <1>1, <1>2 DEF Receive, Drain, LoopType, At
  <2>2. loop.next = 1
    BY <1>0, <1>2 DEF LoopAt, Receive, Drain
  <2> QED
    BY <1>2, <2>1, <2>2 DEF Receive, Drain, First, At
<1>3. CASE Exit \/ DrainNil \/ IsolatedBegin
  <2>1. loop'.at # "apply" /\ loop'.batch = loop.batch /\ loop'.next = loop.next
    BY <1>1, <1>3 DEF Exit, DrainNil, IsolatedBegin, LoopType, At
  <2> QED
    BY <1>3, <2>1 DEF Exit, DrainNil, IsolatedBegin, First, At
<1>4. CASE Drained \/ BatchBegin \/ BatchFails \/ BatchBeginFails \/ BatchCommit
  <2>1. loop'.batch = loop.batch /\ loop'.next = 1
    BY <1>1, <1>4 DEF Drained, BatchBegin, BatchFails, BatchBeginFails, BatchCommit, From, LoopType
  <2>2. First = 1
    BY <1>0, <1>4 DEF LoopAt, First, At, Drained, BatchBegin, BatchFails, BatchBeginFails, BatchCommit
  <2> QED
    BY <1>4, <2>1, <2>2 DEF Drained, BatchBegin, BatchFails, BatchBeginFails, BatchCommit, First, At
<1>5. CASE Apply
  <2>1. loop'.at = "apply" /\ loop'.batch = loop.batch
    BY <1>1, <1>5 DEF Apply, LoopType, At
  <2> QED
    BY <1>5, <2>1 DEF Apply, First, At
<1>6. CASE Reply \/ IsolatedCommit \/ IsolatedFails
  <2>1. PICK l \in {"reply", "isolate"} : NextJob(l)
    BY <1>6 DEF Reply, IsolatedCommit, IsolatedFails
  <2>2. \/ loop'.at = "wait" /\ loop'.next = 1 /\ loop'.batch = <<>>
        \/ loop'.at = l /\ loop'.next = loop.next + 1 /\ loop'.batch = loop.batch
    BY <1>1, <2>1 DEF NextJob, From, LoopType
  <2>3. loop.next <= Jobs /\ First = loop.next /\ Job \in Writers
    BY <1>0, <1>6, JobFacts DEF LoopAt, First, At, Reply, IsolatedCommit, IsolatedFails
  <2>4. UNCHANGED ch /\ pc' = [pc EXCEPT ![Job] = "done"]
    BY <1>6 DEF Reply, IsolatedCommit, IsolatedFails, Return
  <2> QED
    BY <2>2, <2>3, <2>4 DEF First, At
<1> QED
  BY <1>2, <1>3, <1>4, <1>5, <1>6 DEF Coalescer

LEMMA QueueStep ==
    ASSUME Discipline, Next
    PROVE  QueueAt'
<1>0. LoopOK /\ QueueAt /\ CallersOK
  BY TypeParts DEF Discipline
<1>1. /\ ch \in Seq(Writers) /\ loop.batch \in Seq(Writers)
      /\ Jobs \in Nat /\ loop.next \in 1 .. Jobs + 1 /\ First \in 1 .. Jobs + 1
  BY <1>0 DEF LoopOK, LoopType, Jobs, First
<1>2. ASSUME NEW w \in Writers, Start(w) \/ Caller(w)
      PROVE  QueueAt'
  <2>1. pc[w] # "queued"
    BY <1>2 DEF Start, Caller, Submit, SubmitClosed, Exec, Get, ExecDelete, ExecDeleteOrg,
                TxBegin, TxFn, TxCommit, CallFails
  <2>2. \A v \in Writers : pc[v] = "queued" => pc'[v] = "queued"
    BY <1>2, <2>1, CallerFrame
  <2>3. /\ \A i \in 1 .. Len(ch) : ch[i] \in Writers /\ ch[i] # w
        /\ \A i \in First .. Jobs : loop.batch[i] \in Writers /\ loop.batch[i] # w
    BY <1>0, <1>1, <2>1 DEF QueueAt, Jobs
  <2>4. First' = First /\ Jobs' = Jobs /\ loop' = loop
    BY <1>2, CallerLoop DEF First, Jobs, At
  <2>5. CASE UNCHANGED ch
    BY <1>0, <2>2, <2>3, <2>4, <2>5 DEF QueueAt
  <2>6. CASE Submit(w) /\ ch' = Append(ch, w)
    <3>1. pc'[w] = "queued"
      BY <1>0, <2>6 DEF Submit, Goto, CallersOK
    <3>2. /\ Len(ch') = Len(ch) + 1
          /\ \A i \in 1 .. Len(ch) : ch'[i] = ch[i]
          /\ ch'[Len(ch) + 1] = w
      BY <1>1, <2>6
    <3>3. \A i \in 1 .. Len(ch') : i \in 1 .. Len(ch) \/ i = Len(ch) + 1
      BY <1>1, <3>2
    <3> QED
      BY <1>0, <2>2, <2>3, <2>4, <3>1, <3>2, <3>3 DEF QueueAt
  <2> QED
    BY <1>2, <2>5, <2>6, CallerLoop
<1>3. CASE Coalescer
  <2>1. CASE /\ ch # <<>> /\ ch' = Tail(ch) /\ loop'.batch = Append(loop.batch, Head(ch))
             /\ First = 1 /\ First' = 1 /\ UNCHANGED pc
    <3>1. /\ Len(ch) > 0 /\ Len(ch') = Len(ch) - 1
          /\ \A i \in 1 .. Len(ch') : i + 1 \in 1 .. Len(ch) /\ ch'[i] = ch[i + 1]
      BY <1>1, <2>1
    <3>2. /\ Len(loop'.batch) = Jobs + 1
          /\ \A i \in 1 .. Jobs : loop'.batch[i] = loop.batch[i]
          /\ loop'.batch[Jobs + 1] = ch[1]
      BY <1>1, <2>1 DEF Jobs
    <3>3. \A i \in 1 .. Jobs' : i \in 1 .. Jobs \/ i = Jobs + 1
      BY <1>1, <3>2 DEF Jobs
    <3>4. \A i \in 1 .. Len(ch) : ch[i] = ch[1] => i = 1
      BY <1>0, <1>1, <3>1 DEF QueueAt
    <3>5. /\ \A i \in 1 .. Len(ch') : pc'[ch'[i]] = "queued"
          /\ \A i \in First' .. Jobs' : pc'[loop'.batch[i]] = "queued"
      BY <1>0, <1>1, <2>1, <3>1, <3>2, <3>3 DEF QueueAt
    <3>6. \A i, j \in 1 .. Len(ch') : ch'[i] = ch'[j] => i = j
      BY <1>0, <1>1, <3>1 DEF QueueAt
    <3>7. \A i, j \in First' .. Jobs' : loop'.batch[i] = loop'.batch[j] => i = j
      BY <1>0, <1>1, <2>1, <3>1, <3>2, <3>3 DEF QueueAt
    <3>8. \A i \in 1 .. Len(ch'), j \in First' .. Jobs' : ch'[i] # loop'.batch[j]
      BY <1>0, <1>1, <2>1, <3>1, <3>2, <3>3, <3>4 DEF QueueAt
    <3> QED
      BY <3>5, <3>6, <3>7, <3>8 DEF QueueAt
  <2>2. CASE UNCHANGED <<ch, pc>> /\ loop'.batch = loop.batch /\ First' = First
    BY <1>0, <2>2 DEF QueueAt, Jobs
  <2>3. CASE /\ UNCHANGED ch /\ Job \in Writers /\ pc' = [pc EXCEPT ![Job] = "done"]
             /\ First = loop.next /\ loop.next <= Jobs
             /\ \/ loop'.batch = <<>> /\ First' = 1
                \/ loop'.batch = loop.batch /\ First' = First + 1
    <3>1. \A i \in 1 .. Len(ch) : ch[i] # Job /\ pc'[ch[i]] = "queued"
      BY <1>0, <1>1, <2>3 DEF QueueAt, Job, CallersOK
    <3>2. \A i \in First + 1 .. Jobs : loop.batch[i] # Job /\ pc'[loop.batch[i]] = "queued"
      BY <1>0, <1>1, <2>3 DEF QueueAt, Job, CallersOK
    <3>3. CASE loop'.batch = <<>> /\ First' = 1
      <4>1. First' .. Jobs' = {}
        BY <3>3 DEF Jobs
      <4> QED
        BY <1>0, <2>3, <3>1, <4>1 DEF QueueAt
    <3>4. CASE loop'.batch = loop.batch /\ First' = First + 1
      <4>1. Jobs' = Jobs /\ First' .. Jobs' \subseteq First .. Jobs
        BY <1>1, <2>3, <3>4 DEF Jobs
      <4> QED
        BY <1>0, <2>3, <3>1, <3>2, <3>4, <4>1 DEF QueueAt
    <3> QED
      BY <2>3, <3>3, <3>4
  <2> QED
    BY <1>3, <2>1, <2>2, <2>3, CoalescerMoves
<1>4. CASE Close \/ ClosePools \/ Stopped
  BY <1>0, <1>4 DEF Close, ClosePools, Stopped, vars, QueueAt, First, At, Jobs
<1> QED
  BY <1>2, <1>3, <1>4 DEF Next

LEMMA ConnStep ==
    ASSUME Discipline, Next
    PROVE  ConnAt'
<1>0. RowsOK /\ CallersOK /\ LoopOK /\ LoopAt /\ ConnAt
  BY TypeParts DEF Discipline
<1>1. loop \in LoopType
  BY <1>0 DEF LoopOK
<1> USE GroupCommitConstants
<1>2. ASSUME NEW w \in Writers, Start(w) \/ Caller(w)
      PROVE  ConnAt'
  <2>1. loop' = loop /\ \A v \in Writers : v # w => pc'[v] = pc[v]
    BY <1>2, CallerLoop, CallerFrame
  <2>2. CASE UNCHANGED conn /\ pc[w] \notin {"fn", "commit"} /\ pc'[w] \notin {"fn", "commit"}
    BY <1>0, <2>1, <2>2 DEF ConnAt, At
  <2>3. CASE TxBegin(w)
    BY <1>0, <2>1, <2>3 DEF ConnAt, At, TxBegin, Goto, CallersOK
  <2>4. CASE TxFn(w)
    BY <1>0, <2>1, <2>4 DEF ConnAt, At, TxFn, Goto, Return, CallersOK
  <2>5. CASE TxCommit(w)
    BY <1>0, <2>1, <2>5 DEF ConnAt, At, TxCommit, Return, CallersOK
  <2>6. CASE CallFails(w)
    BY <1>0, <2>1, <2>6 DEF ConnAt, At, CallFails, Return, CallersOK
  <2> QED
    BY <1>0, <1>2, <2>2, <2>3, <2>4, <2>5, <2>6
       DEF Start, Caller, Submit, SubmitClosed, Exec, Get, ExecDelete, ExecDeleteOrg, Return,
           Goto, CallersOK
<1>3. CASE Coalescer
  <2>1. \A v \in Writers : pc'[v] \in {"fn", "commit"} <=> pc[v] \in {"fn", "commit"}
    BY <1>0, <1>3, CoalescerAnswers, JobFacts DEF Return, CallersOK
  <2>2. CASE Receive \/ Drain \/ Exit \/ DrainNil \/ Drained \/ BatchBeginFails \/ Reply
    <3>1. UNCHANGED conn /\ ~At("apply") /\ ~At("isolated")
      BY <2>2 DEF Receive, Drain, Exit, DrainNil, Drained, BatchBeginFails, Reply, At
    <3>2. loop'.at \notin {"apply", "isolated"}
      BY <1>1, <2>2 DEF Receive, Drain, Exit, DrainNil, Drained, BatchBeginFails, Reply, At,
                        From, NextJob, LoopType
    <3> QED
      BY <1>0, <2>1, <3>1, <3>2 DEF ConnAt, At
  <2>3. CASE BatchBegin \/ IsolatedBegin
    <3>1. loop'.at \in {"apply", "isolated"} /\ conn = Free /\ conn' = Loop
      BY <1>1, <2>3 DEF BatchBegin, IsolatedBegin, From, LoopType
    <3> QED
      BY <1>0, <2>1, <3>1 DEF ConnAt, At
  <2>4. CASE Apply
    <3>1. loop'.at = "apply" /\ At("apply") /\ UNCHANGED conn
      BY <1>1, <2>4 DEF Apply, LoopType, At
    <3> QED
      BY <1>0, <2>1, <3>1 DEF ConnAt, At
  <2>5. CASE BatchCommit \/ BatchFails \/ IsolatedCommit
    <3>1. loop'.at \notin {"apply", "isolated"}
      BY <1>1, <2>5 DEF BatchCommit, BatchFails, IsolatedCommit, From, NextJob, LoopType
    <3>2. conn = Loop /\ conn' = Free
      BY <1>0, <2>5 DEF BatchCommit, BatchFails, IsolatedCommit, ConnAt
    <3> QED
      BY <1>0, <2>1, <3>1, <3>2 DEF ConnAt, At
  <2>6. CASE IsolatedFails
    <3>1. loop'.at \notin {"apply", "isolated"}
      BY <1>1, <2>6 DEF IsolatedFails, From, NextJob, LoopType
    <3>2. conn' # Loop
      BY <1>0, <2>6 DEF IsolatedFails, ConnAt, At
    <3>3. conn' = conn \/ (conn = Loop /\ conn' = Free)
      BY <1>0, <2>6 DEF IsolatedFails, ConnAt
    <3> QED
      BY <1>0, <2>1, <3>1, <3>2, <3>3 DEF ConnAt, At
  <2> QED
    BY <1>3, <2>2, <2>3, <2>4, <2>5, <2>6 DEF Coalescer
<1>4. CASE Close \/ ClosePools \/ Stopped
  BY <1>0, <1>4 DEF Close, ClosePools, Stopped, vars, ConnAt, At
<1> QED
  BY <1>2, <1>3, <1>4 DEF Next

LEMMA DisciplineStep ==
    ASSUME Discipline, [Next]_vars
    PROVE  Discipline'
<1>1. CASE Next
  BY <1>1, TypeStep, CallersStep, LoopStep, QueueStep, ConnStep DEF Discipline
<1>2. CASE UNCHANGED vars
  BY <1>2 DEF vars, Discipline, TypeOK, CallerAt, LoopAt, QueueAt, ConnAt, First, At, Jobs
<1> QED
  BY <1>1, <1>2

\* Every variable keeps its type, in either mode: the results of a batch are answers,
\* one per job, the channel stays within its capacity, and the loop never reads past
\* its batch.
THEOREM TypeCorrect == Spec => []TypeOK
<1>1. Init => Discipline
  BY InitDiscipline
<1>2. Discipline /\ [Next]_vars => Discipline'
  BY DisciplineStep
<1>3. Discipline => TypeOK
  BY DEF Discipline
<1> QED
  BY <1>1, <1>2, <1>3, PTL DEF Spec

-----------------------------------------------------------------------------
(* What the open transaction sees.                                          *)

\* The batch's transaction, while nobody touches the committed rows or the jobs.
LEMMA RunKept ==
    ASSUME Discipline, TxAt, UNCHANGED <<db, tx, loop>>,
           \A v \in Writers : pc[v] = "queued" => call'[v] = call[v]
    PROVE  At("apply")' =>
             \E run : run \in [0 .. loop'.next - 1 -> Databases] /\ IsRun(run, loop.next - 1)'
                      /\ run[loop'.next - 1] = tx'
<1> SUFFICES ASSUME At("apply")
             PROVE  \E run : run \in [0 .. loop.next - 1 -> Databases]
                             /\ IsRun(run, loop.next - 1)' /\ run[loop.next - 1] = tx
  BY DEF At
<1>1. PICK run : run \in [0 .. loop.next - 1 -> Databases] /\ IsRun(run, loop.next - 1)
                 /\ run[loop.next - 1] = tx
  BY DEF TxAt
<1>2. \A i \in 1 .. loop.next - 1 : loop.batch[i] \in Writers /\ pc[loop.batch[i]] = "queued"
  <2>1. \A i \in 1 .. loop.next - 1 : i \in First .. Jobs /\ i \in 1 .. Len(loop.batch)
    BY TypeParts DEF Discipline, LoopOK, LoopType, First, Jobs
  <2> QED
    BY <2>1, TypeParts DEF Discipline, QueueAt, LoopOK, LoopType
<1>3. IsRun(run, loop.next - 1)'
  BY <1>1, <1>2 DEF IsRun
<1> QED
  BY <1>1, <1>3

\* Nobody writes while another's transaction is open.
LEMMA CallerTx ==
    ASSUME NEW w \in Writers, Discipline, TxAt, Start(w) \/ Caller(w)
    PROVE  TxAt'
<1>0. RowsOK /\ CallersOK /\ ConnAt /\ CallerAt(w)
  BY TypeParts DEF Discipline
<1> USE GroupCommitConstants
<1>1. loop' = loop /\ \A v \in Writers : v # w => pc'[v] = pc[v] /\ call'[v] = call[v]
  BY CallerLoop, CallerFrame
<1>2. pc[w] # "queued"
  BY DEF Start, Caller, Submit, SubmitClosed, Exec, Get, ExecDelete, ExecDeleteOrg,
         TxBegin, TxFn, TxCommit, CallFails
<1>3. CASE UNCHANGED <<db, tx>> /\ pc'[w] \notin {"fn", "commit"}
  <2>1. At("apply")' =>
             \E run : run \in [0 .. loop'.next - 1 -> Databases] /\ IsRun(run, loop.next - 1)'
                      /\ run[loop'.next - 1] = tx'
    BY <1>1, <1>2, <1>3, RunKept
  <2> QED
    BY <1>1, <1>3, <2>1 DEF TxAt, At
<1>4. CASE conn = Free /\ ~(pc'[w] \in {"fn", "commit"})
  BY <1>0, <1>1, <1>4 DEF TxAt, ConnAt, At
<1>5. CASE conn = w
  <2>1. ~At("apply") /\ ~At("isolated") /\ \A v \in Writers : v # w => pc[v] \notin {"fn", "commit"}
    BY <1>0, <1>5 DEF ConnAt
  <2>2. pc[w] \in {"fn", "commit"}
    BY <1>0, <1>5 DEF ConnAt
  <2>3. CASE TxFn(w)
    BY <1>0, <1>1, <2>1, <2>3 DEF TxAt, TxFn, Goto, Return, CallersOK, At
  <2>4. CASE TxCommit(w) \/ CallFails(w)
    <3>1. pc'[w] = "done"
      BY <1>0, <2>4 DEF TxCommit, CallFails, Return, CallersOK
    <3> QED
      BY <1>1, <2>1, <3>1 DEF TxAt, At
  <2> QED
    BY <1>0, <2>2, <2>3, <2>4 DEF Start, Caller, Submit, SubmitClosed, Exec, Get, ExecDelete,
                                  ExecDeleteOrg, TxBegin
<1>6. CASE TxBegin(w)
  BY <1>0, <1>1, <1>6 DEF TxAt, ConnAt, At, TxBegin, Goto, CallersOK
<1>7. CASE Start(w)
  BY <1>0, <1>3, <1>7 DEF Start, Goto, CallersOK
<1>8. CASE Submit(w) \/ SubmitClosed(w) \/ Get(w)
  BY <1>0, <1>3, <1>8 DEF Submit, SubmitClosed, Get, Return, Goto, CallersOK
<1>9. CASE Exec(w) \/ ExecDelete(w) \/ ExecDeleteOrg(w)
  BY <1>0, <1>4, <1>9 DEF Exec, ExecDelete, ExecDeleteOrg, Return, Goto, CallersOK
<1>10. CASE CallFails(w) /\ conn # w
  BY <1>0, <1>3, <1>10 DEF CallFails, Return, CallersOK
<1> QED
  BY <1>0, <1>5, <1>6, <1>7, <1>8, <1>9, <1>10 DEF Caller, ConnAt, TxFn, TxCommit

LEMMA CoalescerTx ==
    ASSUME Discipline, TxAt, Coalescer
    PROVE  TxAt'
<1>0. RowsOK /\ CallersOK /\ LoopOK /\ LoopAt /\ ConnAt
  BY TypeParts DEF Discipline
<1>1. /\ loop \in LoopType /\ Jobs \in Nat /\ loop.next \in 1 .. Jobs + 1
      /\ loop.results \in Seq(Answers)
  BY <1>0 DEF LoopOK, LoopType, Jobs
<1> USE GroupCommitConstants
<1>2. \A v \in Writers : /\ call'[v] = call[v]
                         /\ pc'[v] \in {"fn", "commit"} => pc'[v] = pc[v]
  BY <1>0, CoalescerAnswers, JobFacts DEF Return, CallersOK
<1>3. CASE UNCHANGED <<db, tx>> /\ loop'.at \notin {"apply", "isolated"}
  BY <1>2, <1>3 DEF TxAt, At
<1>4. CASE conn \in {Loop, Free} /\ loop'.at \notin {"apply", "isolated"}
  <2>1. \A v \in Writers : pc'[v] \notin {"fn", "commit"}
    BY <1>0, <1>2, <1>4 DEF ConnAt
  <2> QED
    BY <2>1, <1>4 DEF TxAt, At
<1>5. CASE Receive \/ Drain \/ Exit \/ DrainNil \/ Drained \/ BatchBeginFails \/ Reply
  <2>1. loop'.at \notin {"apply", "isolated"}
    BY <1>1, <1>5 DEF Receive, Drain, Exit, DrainNil, Drained, BatchBeginFails, Reply, At,
                      From, NextJob, LoopType
  <2> QED
    BY <1>3, <1>5, <2>1 DEF Receive, Drain, Exit, DrainNil, Drained, BatchBeginFails, Reply
<1>6. CASE BatchCommit \/ BatchFails \/ IsolatedCommit
  <2>1. loop'.at \notin {"apply", "isolated"}
    BY <1>1, <1>6 DEF BatchCommit, BatchFails, IsolatedCommit, From, NextJob, LoopType
  <2> QED
    BY <1>0, <1>4, <1>6, <2>1 DEF BatchCommit, BatchFails, IsolatedCommit, ConnAt
<1>7. CASE IsolatedFails
  <2>1. loop'.at \notin {"apply", "isolated"}
    BY <1>1, <1>7 DEF IsolatedFails, From, NextJob, LoopType
  <2> QED
    BY <1>0, <1>3, <1>4, <1>7, <2>1 DEF IsolatedFails, ConnAt
<1>8. CASE IsolatedBegin
  <2>1. loop'.at = "isolated" /\ tx' = db' /\ \A v \in Writers : pc'[v] \notin {"fn", "commit"}
    BY <1>0, <1>1, <1>2, <1>8 DEF IsolatedBegin, LoopType, ConnAt
  <2> QED
    BY <2>1 DEF TxAt, At
<1>9. CASE BatchBegin
  <2>1. loop'.at = "apply" /\ loop'.next = 1
    BY <1>1, <1>9 DEF BatchBegin, From, LoopType
  <2>2. tx' = db /\ db' = db /\ \A v \in Writers : pc'[v] \notin {"fn", "commit"}
    BY <1>0, <1>2, <1>9 DEF BatchBegin, ConnAt
  <2>3. [i \in 0 .. 0 |-> db] \in [0 .. 0 -> Databases] /\ IsRun([i \in 0 .. 0 |-> db], 0)'
    BY <1>0, <2>2 DEF IsRun, RowsOK
  <2>4. \E run : run \in [0 .. loop'.next - 1 -> Databases] /\ IsRun(run, loop.next - 1)'
                 /\ run[loop'.next - 1] = tx'
    BY <2>1, <2>2, <2>3
  <2> QED
    BY <2>1, <2>2, <2>4 DEF TxAt, At
<1>10. CASE Apply
  <2>1. /\ loop'.at = "apply" /\ loop'.next = loop.next + 1 /\ loop'.batch = loop.batch
        /\ loop'.results = Append(loop.results, Report(tx, call[Job]))
    BY <1>1, <1>10 DEF Apply, LoopType, At
  <2>2. db' = db /\ call' = call /\ tx' = Effect(tx, Job, call[Job])
    BY <1>10 DEF Apply
  <2>3. PICK run : run \in [0 .. loop.next - 1 -> Databases] /\ IsRun(run, loop.next - 1)
                   /\ run[loop.next - 1] = tx
    BY <1>10 DEF Apply, TxAt
  <2>4. tx' \in Databases
    BY <1>0, <1>10, <2>2, JobFacts, EffectType DEF Apply, RowsOK
  <2>5. Len(loop.results) = loop.next - 1
    BY <1>0, <1>10 DEF Apply, LoopAt
  <2> DEFINE ext == [i \in 0 .. loop.next |-> IF i = loop.next THEN tx' ELSE run[i]]
  <2>6. ext \in [0 .. loop.next -> Databases]
    BY <1>1, <2>3, <2>4
  <2>7. ext[0] = db /\ ext[loop.next] = tx'
    BY <1>1, <2>3 DEF IsRun
  <2>8. ASSUME NEW i \in 1 .. loop.next
        PROVE  /\ ext[i] = Effect(ext[i - 1], loop.batch[i], call[loop.batch[i]])
               /\ loop'.results[i] = Report(ext[i - 1], call[loop.batch[i]])
    <3>1. CASE i = loop.next
      <4>1. ext[i - 1] = tx
        BY <1>1, <2>3, <3>1
      <4>2. loop'.results[i] = Report(tx, call[Job])
        BY <1>1, <2>1, <2>5, <3>1
      <4> QED
        BY <2>2, <2>7, <3>1, <4>1, <4>2 DEF Job
    <3>2. CASE i # loop.next
      <4>1. i \in 1 .. loop.next - 1 /\ ext[i] = run[i] /\ ext[i - 1] = run[i - 1]
        BY <1>1, <3>2
      <4>2. loop'.results[i] = loop.results[i]
        BY <1>1, <2>1, <2>5, <4>1
      <4> QED
        BY <2>3, <4>1, <4>2 DEF IsRun
    <3> QED
      BY <3>1, <3>2
  <2>9. PICK e, n : e = ext /\ n = loop.next
    OBVIOUS
  <2>10. IsRun(e, n)'
    BY <2>1, <2>2, <2>7, <2>8, <2>9 DEF IsRun
  <2> HIDE DEF ext
  <2>11. \E r : r \in [0 .. loop'.next - 1 -> Databases] /\ IsRun(r, loop.next - 1)'
                /\ r[loop'.next - 1] = tx'
    <3>1. loop'.next - 1 = n
      BY <1>1, <2>1, <2>9
    <3>2. e \in [0 .. loop'.next - 1 -> Databases] /\ e[loop'.next - 1] = tx'
      BY <2>6, <2>7, <2>9, <3>1
    <3>3. IsRun(e, loop.next - 1)'
      BY <2>10, <3>1
    <3> QED
      BY <3>2, <3>3
  <2>12. \A v \in Writers : pc'[v] \notin {"fn", "commit"}
    BY <1>0, <1>2, <1>10 DEF Apply, ConnAt
  <2> QED
    BY <2>1, <2>11, <2>12 DEF TxAt, At
<1> QED
  BY <1>5, <1>6, <1>7, <1>8, <1>9, <1>10 DEF Coalescer

LEMMA TxStep ==
    ASSUME Discipline, TxAt, [Next]_vars
    PROVE  TxAt'
<1>1. CASE Close \/ ClosePools \/ UNCHANGED vars
  <2>1. UNCHANGED <<db, tx, loop, pc, call>>
    BY <1>1 DEF Close, ClosePools, vars
  <2> QED
    BY <2>1 DEF TxAt, At, IsRun
<1> QED
  BY <1>1, CallerTx, CoalescerTx DEF Next, Stopped

-----------------------------------------------------------------------------
(* The refinement: GroupCommit implements AtomicStore.                      *)

\* A caller's answer is decided when it has it or when its batch has committed.
DecidedIs ==
    /\ Decided \in [Writers -> Answers \cup {NoAnswer}]
    /\ \A i \in First .. Jobs : At("reply") => Decided[loop.batch[i]] = loop.results[i]
    /\ \A w \in Writers : ~At("reply") \/ pc[w] # "queued" => Decided[w] = ans[w]
    /\ \A w \in Writers : (\A i \in First .. Jobs : loop.batch[i] # w) => Decided[w] = ans[w]

LEMMA DecidedFacts == Discipline => DecidedIs
<1> SUFFICES ASSUME Discipline PROVE DecidedIs
  OBVIOUS
<1>0. CallersOK /\ LoopOK /\ LoopAt /\ QueueAt
  BY TypeParts DEF Discipline
<1>1. /\ loop.batch \in Seq(Writers) /\ loop.results \in Seq(Answers)
      /\ Jobs \in Nat /\ loop.next \in 1 .. Jobs + 1
      /\ At("reply") => First = loop.next /\ Len(loop.results) = Jobs
  BY <1>0 DEF LoopOK, LoopType, Jobs, LoopAt, First, At
<1>2. ASSUME NEW w \in Writers, At("reply"), NEW i \in loop.next .. Jobs, loop.batch[i] = w
      PROVE  Decided[w] = loop.results[i] /\ Decided[w] \in Answers /\ pc[w] = "queued"
  <2> DEFINE k == CHOOSE j \in loop.next .. Jobs : loop.batch[j] = w
  <2>1. k \in loop.next .. Jobs /\ loop.batch[k] = w
    BY <1>2
  <2>2. k = i
    BY <1>0, <1>1, <1>2, <2>1 DEF QueueAt
  <2>3. Decided[w] = loop.results[k]
    BY <1>2 DEF Decided
  <2>4. loop.results[i] \in Answers
    BY <1>1, <1>2
  <2>5. pc[w] = "queued"
    BY <1>0, <1>1, <1>2 DEF QueueAt
  <2> QED
    BY <2>2, <2>3, <2>4, <2>5
<1>3. ASSUME NEW w \in Writers, ~(At("reply") /\ \E i \in loop.next .. Jobs : loop.batch[i] = w)
      PROVE  Decided[w] = ans[w]
  BY <1>3 DEF Decided
<1>4. \A w \in Writers : Decided[w] \in Answers \cup {NoAnswer}
  BY <1>0, <1>2, <1>3 DEF CallersOK
<1>5. Decided \in [Writers -> Answers \cup {NoAnswer}]
  <2>1. Decided = [w \in Writers |-> Decided[w]]
    BY DEF Decided
  <2> QED
    BY <1>4, <2>1
<1>6. \A i \in First .. Jobs : At("reply") => Decided[loop.batch[i]] = loop.results[i]
  <2> SUFFICES ASSUME At("reply"), NEW i \in loop.next .. Jobs
               PROVE  Decided[loop.batch[i]] = loop.results[i]
    BY <1>1
  <2>1. loop.batch[i] \in Writers
    BY <1>1 DEF Jobs
  <2> QED
    BY <1>2, <2>1
<1>7. \A w \in Writers : ~At("reply") \/ pc[w] # "queued" => Decided[w] = ans[w]
  BY <1>2, <1>3
<1>8. \A w \in Writers : (\A i \in First .. Jobs : loop.batch[i] # w) => Decided[w] = ans[w]
  BY <1>1, <1>3
<1> QED
  BY <1>5, <1>6, <1>7, <1>8 DEF DecidedIs

LEMMA DecidedFactsPrimed == Discipline' => DecidedIs'
  BY DecidedFacts, PTL

\* The values of the abstract specification are those of this one.
LEMMA SameValues ==
    /\ \A d, w, c : Abstract!Effect(d, w, c) = Effect(d, w, c)
    /\ \A d, c : Abstract!Report(d, c) = Report(d, c)
    /\ Abstract!Calls = Calls /\ Abstract!NoCall = NoCall
    /\ Abstract!NoAnswer = NoAnswer /\ Abstract!Failed = Failed /\ Abstract!Panicked = Panicked
    /\ Abstract!Rows = Rows
<1>1. Abstract!Rows = Rows
  BY DEF Abstract!Rows, Rows
<1>2. \A e, v : Abstract!Answer(e, v) = Answer(e, v)
  BY DEF Abstract!Answer, Answer
<1>3. \A o, r : Abstract!Call(o, r) = Call(o, r)
  BY DEF Abstract!Call, Call
<1>4. \A d, w, c : Abstract!Effect(d, w, c) = Effect(d, w, c)
  BY <1>1, Zenon DEF Abstract!Effect, Effect
<1>5. \A d, c : Abstract!Report(d, c) = Report(d, c)
  BY Zenon DEF Abstract!Report, Report, Abstract!Answer, Answer
<1>6. Abstract!Calls = Calls /\ Abstract!NoCall = NoCall
  BY Zenon DEF Abstract!Calls, Calls, Abstract!NoCall, NoCall, Abstract!Call, Call
<1>7. Abstract!NoAnswer = NoAnswer /\ Abstract!Failed = Failed /\ Abstract!Panicked = Panicked
  BY <1>2 DEF Abstract!NoAnswer, NoAnswer, Abstract!Failed, Failed, Abstract!Panicked, Panicked
<1> QED
  BY <1>1, <1>4, <1>5, <1>6, <1>7

\* A run of the writers of s against the committed rows is the one that the abstract
\* specification means.
LEMMA RunIsRun ==
    ASSUME NEW n \in Nat, NEW s, NEW run,
           run \in [0 .. n -> Databases], run[0] = db,
           \A i \in 1 .. n : run[i] = Effect(run[i - 1], s[i], call[s[i]])
    PROVE  \A i \in 0 .. n : Abstract!Run(s, n)[i] = run[i]
<1> DEFINE step(f) == [i \in 0 .. n |-> IF i = 0 THEN db ELSE Effect(f[i - 1], s[i], call[s[i]])]
           g == Abstract!Run(s, n)
<1>1. g = CHOOSE f : f = step(f)
  <2>1. \A f : step(f) = [i \in 0 .. n |-> IF i = 0 THEN db
                                           ELSE Abstract!Effect(f[i - 1], s[i], call[s[i]])]
    BY SameValues
  <2> HIDE DEF step
  <2>2. (CHOOSE f : f = step(f)) =
          CHOOSE f : f = [i \in 0 .. n |-> IF i = 0 THEN db
                                           ELSE Abstract!Effect(f[i - 1], s[i], call[s[i]])]
    BY <2>1
  <2> QED
    BY <2>2, Zenon DEF Abstract!Run
<1>2. run = step(run)
  <2>1. \A i \in 0 .. n : run[i] = step(run)[i]
    <3> TAKE i \in 0 .. n
    <3>1. CASE i = 0
      BY <3>1
    <3>2. CASE i # 0
      <4>1. i \in 1 .. n
        BY <3>2
      <4> QED
        BY <3>2, <4>1
    <3> QED
      BY <3>1, <3>2
  <2>2. run = [i \in 0 .. n |-> run[i]] /\ step(run) = [i \in 0 .. n |-> step(run)[i]]
    OBVIOUS
  <2> HIDE DEF step
  <2> QED
    BY <2>1, <2>2
<1>3. g = step(g)
  <2> HIDE DEF step, g
  <2> QED
    BY <1>1, <1>2
<1>4. g[0] = db /\ \A i \in 1 .. n : g[i] = Effect(g[i - 1], s[i], call[s[i]])
  <2>1. \A i \in 0 .. n : g[i] = step(g)[i]
    BY <1>3, Zenon
  <2> HIDE DEF g
  <2>2. step(g)[0] = db /\ \A i \in 1 .. n : step(g)[i] = Effect(g[i - 1], s[i], call[s[i]])
    OBVIOUS
  <2> HIDE DEF step
  <2>3. 0 \in 0 .. n /\ \A i \in 1 .. n : i \in 0 .. n
    OBVIOUS
  <2> QED
    BY <2>1, <2>2, <2>3
<1> HIDE DEF g
<1> DEFINE T == {i \in 0 .. n : g[i] = run[i]}
<1>5. 0 \in T
  BY <1>4
<1>6. \A i \in 0 .. n : i \in T /\ i < n => i + 1 \in T
  <2> SUFFICES ASSUME NEW i \in 0 .. n, g[i] = run[i], i < n
               PROVE  g[i + 1] = run[i + 1]
    OBVIOUS
  <2>1. i + 1 \in 1 .. n /\ (i + 1) - 1 = i
    OBVIOUS
  <2> QED
    BY <2>1, <1>4
<1>7. 0 .. n \subseteq T
  <2> HIDE DEF T
  <2> QED
    BY <1>5, <1>6, IntervalInduction
<1> QED
  BY <1>7 DEF g

\* The n writers of s take effect one after the other at one instant; run[i] is what
\* the first i of them leave.
TakeEffect(n, s, run) ==
    /\ s \in [1 .. n -> Writers]
    /\ \A i, j \in 1 .. n : s[i] = s[j] => i = j
    /\ \A i \in 1 .. n : call[s[i]] # NoCall /\ Decided[s[i]] = NoAnswer
    /\ run \in [0 .. n -> Databases] /\ run[0] = db
    /\ \A i \in 1 .. n : run[i] = Effect(run[i - 1], s[i], call[s[i]])
    /\ db' = run[n]
    /\ Decided' \in [Writers -> Answers \cup {NoAnswer}]
    /\ \A i \in 1 .. n : Decided'[s[i]] = Report(run[i - 1], call[s[i]])
    /\ \A w \in Writers : (\A i \in 1 .. n : s[i] # w) => Decided'[w] = Decided[w]
    /\ UNCHANGED call

\* What a step of GroupCommit is to its callers.
Outcome ==
    \/ \E w \in Writers : Abstract!Begin(w)
    \/ Abstract!Fail
    \/ \E n \in Nat : \E s, run : TakeEffect(n, s, run)
    \/ UNCHANGED <<db, call, Decided>>

LEMMA RunOfEffect ==
    ASSUME NEW n \in Nat, NEW s, NEW run, TakeEffect(n, s, run)
    PROVE  \A i \in 0 .. n : Abstract!Run(s, n)[i] = run[i]
<1>1. /\ run \in [0 .. n -> Databases] /\ run[0] = db
      /\ \A i \in 1 .. n : run[i] = Effect(run[i - 1], s[i], call[s[i]])
  BY DEF TakeEffect
<1> QED
  BY <1>1, RunIsRun, SMTT(30)

LEMMA AbstractCommit ==
    ASSUME NEW n \in Nat, NEW s, NEW run, TakeEffect(n, s, run)
    PROVE  Abstract!Commit
<1> SUFFICES ASSUME
           s \in [1 .. n -> Writers], \A i, j \in 1 .. n : s[i] = s[j] => i = j,
           \A i \in 1 .. n : call[s[i]] # NoCall /\ Decided[s[i]] = NoAnswer,
           run \in [0 .. n -> Databases], run[0] = db,
           \A i \in 1 .. n : run[i] = Effect(run[i - 1], s[i], call[s[i]]),
           UNCHANGED call, db' = run[n],
           Decided' \in [Writers -> Answers \cup {NoAnswer}],
           \A i \in 1 .. n : Decided'[s[i]] = Report(run[i - 1], call[s[i]]),
           \A w \in Writers : (\A i \in 1 .. n : s[i] # w) => Decided'[w] = Decided[w]
    PROVE  Abstract!Commit
  BY DEF TakeEffect
<1> DEFINE S == {s[i] : i \in 1 .. n}
<1>1. s \in Bijection(1 .. n, S)
  BY DEF Bijection, Injection, Surjection, IsInjective
<1>2. IsFiniteSet(S) /\ Cardinality(S) = n
  <2>1. ExistsBijection(1 .. n, S)
    BY <1>1, Zenon DEF ExistsBijection
  <2>2. IsFiniteSet(1 .. n) /\ Cardinality(1 .. n) = n
    BY FS_Interval
  <2> HIDE DEF S
  <2> QED
    BY <2>1, <2>2, FS_Bijection
<1>3. Abstract!IsFiniteSet(S) /\ Abstract!Cardinality(S) = n
  <2> HIDE DEF S
  <2>1. Abstract!IsFiniteSet(S)
    BY <1>2, Zenon DEF Abstract!IsFiniteSet, IsFiniteSet
  <2>2. Abstract!Cardinality(S) = Cardinality(S)
    BY Zenon DEF Abstract!Cardinality, Cardinality, Abstract!IsFiniteSet, IsFiniteSet
  <2> QED
    BY <1>2, <2>1, <2>2
<1>4. s \in Abstract!Bijection(1 .. n, S)
  BY <1>1, Zenon DEF Abstract!Bijection, Bijection, Abstract!Injection, Injection,
     Abstract!Surjection, Surjection, Abstract!IsInjective, IsInjective
<1>5. S \in SUBSET Abstract!Pending
  BY SameValues DEF Abstract!Pending
<1>6. \A i \in 0 .. n : Abstract!Run(s, n)[i] = run[i]
  BY RunOfEffect, SMTT(30)
<1>7. db' = Abstract!Run(s, n)[n]
  BY <1>6
<1>8. \A w \in Writers : Decided'[w] =
         IF w \in S
         THEN LET i == CHOOSE j \in 1 .. n : s[j] = w
              IN  Abstract!Report(Abstract!Run(s, n)[i - 1], call[w])
         ELSE Decided[w]
  <2> TAKE w \in Writers
  <2>1. CASE w \in S
    <3> DEFINE i == CHOOSE j \in 1 .. n : s[j] = w
    <3>1. i \in 1 .. n /\ s[i] = w
      BY <2>1
    <3>2. i - 1 \in 0 .. n
      BY <3>1
    <3> HIDE DEF i
    <3>3. Decided'[w] = Abstract!Report(Abstract!Run(s, n)[i - 1], call[w])
      BY <1>6, <3>1, <3>2, SameValues
    <3> QED
      BY <2>1, <3>3 DEF i
  <2>2. CASE w \notin S
    BY <2>2
  <2> QED
    BY <2>1, <2>2
<1>9. Decided' = [w \in Writers |->
         IF w \in S
         THEN LET i == CHOOSE j \in 1 .. n : s[j] = w
              IN  Abstract!Report(Abstract!Run(s, n)[i - 1], call[w])
         ELSE Decided[w]]
  <2> HIDE DEF S
  <2> QED
    BY <1>8
<1> DEFINE Body(m, t) ==
         /\ db' = Abstract!Run(t, m)[m]
         /\ Decided' = [w \in Writers |->
                IF w \in S
                THEN LET i == CHOOSE j \in 1 .. m : t[j] = w
                     IN  Abstract!Report(Abstract!Run(t, m)[i - 1], call[w])
                ELSE Decided[w]]
<1> HIDE DEF S
<1>10. Body(n, s)
  BY <1>7, <1>9
<1>11. \E t \in Abstract!Bijection(1 .. Abstract!Cardinality(S), S) :
          Body(Abstract!Cardinality(S), t)
  <2> HIDE DEF Body
  <2> QED
    BY <1>3, <1>4, <1>10
<1> QED
  BY <1>3, <1>5, <1>11, Zenon DEF Abstract!Commit

\* One writer that takes effect by itself.
LEMMA TakesEffectAlone ==
    ASSUME NEW w \in Writers, call[w] \in Calls, Decided[w] = NoAnswer, db \in Databases,
           UNCHANGED call, db' = Effect(db, w, call[w]),
           Decided \in [Writers -> Answers \cup {NoAnswer}],
           Decided' = [Decided EXCEPT ![w] = Report(db, call[w])]
    PROVE  Outcome
<1> DEFINE s == [i \in 1 .. 1 |-> w]
           run == [i \in 0 .. 1 |-> IF i = 0 THEN db ELSE Effect(db, w, call[w])]
<1>1. 1 .. 1 = {1} /\ 0 .. 1 = {0, 1}
  OBVIOUS
<1>2. call[w] # NoCall /\ Effect(db, w, call[w]) \in Databases /\ Report(db, call[w]) \in Answers
  BY CallFacts, EffectType
<1>3. s \in [1 .. 1 -> Writers] /\ \A i, j \in 1 .. 1 : s[i] = s[j] => i = j
  BY <1>1
<1>4. \A i \in 1 .. 1 : call[s[i]] # NoCall /\ Decided[s[i]] = NoAnswer
  BY <1>2
<1>5. run \in [0 .. 1 -> Databases] /\ run[0] = db
  BY <1>1, <1>2
<1>6. \A i \in 1 .. 1 : run[i] = Effect(run[i - 1], s[i], call[s[i]])
  BY <1>1
<1>7. db' = run[1]
  BY <1>1
<1>8. Decided' \in [Writers -> Answers \cup {NoAnswer}]
  BY <1>2
<1>9. \A i \in 1 .. 1 : Decided'[s[i]] = Report(run[i - 1], call[s[i]])
  BY <1>1
<1>10. \A v \in Writers : (\A i \in 1 .. 1 : s[i] # v) => Decided'[v] = Decided[v]
  BY <1>1
<1> HIDE DEF s, run
<1>11. TakeEffect(1, s, run)
  BY <1>3, <1>4, <1>5, <1>6, <1>7, <1>8, <1>9, <1>10 DEF TakeEffect
<1> QED
  BY <1>11 DEF Outcome

\* A caller's own step decides no other answer.
LEMMA CallerDecided ==
    ASSUME NEW w \in Writers, Discipline, Discipline', Start(w) \/ Caller(w)
    PROVE  /\ Decided[w] = NoAnswer
           /\ Decided' = [Decided EXCEPT ![w] = ans'[w]]
<1>0. DecidedIs /\ DecidedIs' /\ CallersOK /\ CallerAt(w) /\ QueueAt /\ LoopOK
  BY DecidedFacts, DecidedFactsPrimed, TypeParts DEF Discipline
<1>1. pc[w] \notin {"queued", "done"}
  BY DEF Start, Caller, Submit, SubmitClosed, Exec, Get, ExecDelete, ExecDeleteOrg,
         TxBegin, TxFn, TxCommit, CallFails
<1>2. Decided[w] = NoAnswer
  BY <1>0, <1>1 DEF DecidedIs, CallerAt
<1>3. UNCHANGED loop /\ \A v \in Writers : v # w => ans'[v] = ans[v]
  BY CallerLoop, CallerFrame
<1>4. \A v \in Writers : v # w => Decided'[v] = Decided[v]
  BY <1>3 DEF Decided, At, Jobs
<1>5. Decided'[w] = ans'[w]
  <2>1. \A i \in First .. Jobs : loop.batch[i] # w
    BY <1>0, <1>1 DEF QueueAt
  <2>2. First' = First /\ Jobs' = Jobs /\ loop'.batch = loop.batch
    BY <1>3 DEF First, Jobs, At
  <2> QED
    BY <1>0, <2>1, <2>2 DEF DecidedIs
<1> QED
  BY <1>0, <1>2, <1>4, <1>5 DEF DecidedIs

LEMMA AbstractFail ==
    ASSUME NEW S \in SUBSET Writers, NEW a \in {Failed, Panicked},
           \A w \in S : call[w] # NoCall /\ Decided[w] = NoAnswer,
           UNCHANGED <<db, call>>,
           Decided' = [w \in Writers |-> IF w \in S THEN a ELSE Decided[w]]
    PROVE  Abstract!Fail
<1>1. S \in SUBSET Abstract!Pending
  BY SameValues DEF Abstract!Pending
<1> QED
  BY <1>1, SameValues DEF Abstract!Fail

LEMMA CallerRefines ==
    ASSUME NEW w \in Writers, Coalescing, Discipline, Discipline', TxAt, Start(w) \/ Caller(w)
    PROVE  Outcome
<1>0. /\ RowsOK /\ CallersOK /\ CallerAt(w)
      /\ Decided \in [Writers -> Answers \cup {NoAnswer}]
  BY DecidedFacts, TypeParts DEF Discipline, DecidedIs
<1>1. Decided[w] = NoAnswer /\ Decided' = [Decided EXCEPT ![w] = ans'[w]]
  BY CallerDecided
<1>2. CASE Start(w)
  <2>1. Decided' = Decided
    <3>1. ans'[w] = NoAnswer
      BY <1>0, <1>2 DEF Start, CallerAt
    <3> QED
      BY <1>0, <1>1, <3>1
  <2>2. call[w] = NoCall /\ \E c \in Calls : call' = [call EXCEPT ![w] = c]
    BY <1>0, <1>2 DEF Start, CallerAt
  <2>3. Abstract!Begin(w)
    BY <1>2, <2>1, <2>2, SameValues DEF Abstract!Begin, Start
  <2> QED
    BY <2>3 DEF Outcome
<1>3. CASE UNCHANGED <<db, call, ans>>
  <2>1. pc[w] # "done"
    BY DEF Start, Caller, Submit, SubmitClosed, Exec, Get, ExecDelete, ExecDeleteOrg,
           TxBegin, TxFn, TxCommit, CallFails
  <2>2. ans'[w] = NoAnswer
    BY <1>0, <1>3, <2>1 DEF CallerAt
  <2> QED
    BY <1>0, <1>1, <1>3, <2>2 DEF Outcome
<1>4. ASSUME NEW a \in {Failed, Panicked}, Return(w, a), UNCHANGED <<db, call>>, pc[w] # "idle"
      PROVE  Outcome
  <2>1. ans'[w] = a
    BY <1>0, <1>4 DEF Return, CallersOK
  <2>2. call[w] # NoCall
    BY <1>0, <1>4 DEF CallerAt
  <2>3. Decided' = [v \in Writers |-> IF v \in {w} THEN a ELSE Decided[v]]
    BY <1>0, <1>1, <2>1
  <2>4. \A v \in {w} : call[v] # NoCall /\ Decided[v] = NoAnswer
    BY <1>1, <2>2
  <2>5. Abstract!Fail
    <3>1. {w} \in SUBSET Writers
      OBVIOUS
    <3> QED
      BY <1>4, <2>3, <2>4, <3>1, AbstractFail
  <2> QED
    BY <2>5 DEF Outcome
<1>5. ASSUME UNCHANGED call, pc[w] # "idle", db' = Effect(db, w, call[w]),
             Return(w, Report(db, call[w]))
      PROVE  Outcome
  <2>1. call[w] \in Calls
    BY <1>5, CallingFacts
  <2>2. Decided' = [Decided EXCEPT ![w] = Report(db, call[w])]
    BY <1>0, <1>1, <1>5 DEF Return, CallersOK
  <2> QED
    BY <1>0, <1>1, <1>5, <2>1, <2>2, TakesEffectAlone DEF RowsOK
<1>6. CASE Submit(w) \/ TxBegin(w)
  BY <1>3, <1>6 DEF Submit, TxBegin
<1>7. CASE SubmitClosed(w)
  BY <1>4, <1>7 DEF SubmitClosed
<1>8. CASE CallFails(w)
  BY <1>4, <1>8 DEF CallFails
<1>9. CASE TxFn(w)
  <2>1. tx = db /\ call[w].op = "tx"
    BY <1>0, <1>9 DEF TxFn, TxAt, CallerAt
  <2>2. CASE tx[Org] = None
    BY <1>3, <1>9, <2>2 DEF TxFn
  <2>3. CASE tx[Org] # None
    <3>1. Effect(db, w, call[w]) = db
      BY <2>1, <2>3 DEF Effect
    <3> QED
      BY <1>5, <1>9, <2>1, <2>3, <3>1 DEF TxFn
  <2> QED
    BY <2>2, <2>3
<1>10. CASE TxCommit(w)
  <2>1. db[Org] = None /\ tx = Effect(db, w, call[w]) /\ call[w].op = "tx"
    BY <1>0, <1>10 DEF TxCommit, TxAt, CallerAt
  <2>2. call[w] \in Calls
    BY <1>10, CallingFacts DEF TxCommit
  <2>3. Report(db, call[w]) = Answer("nil", None)
    BY <2>1, <2>2, CallFacts DEF Report
  <2> QED
    BY <1>5, <1>10, <2>1, <2>3 DEF TxCommit
<1>11. ~(Exec(w) \/ Get(w) \/ ExecDelete(w) \/ ExecDeleteOrg(w))
  BY <1>0 DEF CallerAt, Exec, Get, ExecDelete, ExecDeleteOrg
<1> QED
  BY <1>2, <1>6, <1>7, <1>8, <1>9, <1>10, <1>11 DEF Caller

\* A batch whose answers are decided together: the jobs of the batch get its results,
\* nobody else an answer.
LEMMA BatchDecided ==
    ASSUME Discipline, Discipline', At("begin") \/ At("apply"), loop'.at = "reply",
           loop'.batch = loop.batch, loop'.next = 1, UNCHANGED <<pc, ans, call>>
    PROVE  /\ \A i \in 1 .. Jobs : /\ loop.batch[i] \in Writers
                                   /\ call[loop.batch[i]] # NoCall
                                   /\ Decided[loop.batch[i]] = NoAnswer
                                   /\ Decided'[loop.batch[i]] = loop'.results[i]
           /\ \A i, j \in 1 .. Jobs : loop.batch[i] = loop.batch[j] => i = j
           /\ \A w \in Writers : (\A i \in 1 .. Jobs : loop.batch[i] # w) => Decided'[w] = Decided[w]
<1>0. DecidedIs /\ DecidedIs' /\ LoopOK /\ LoopAt /\ QueueAt /\ \A w \in Writers : CallerAt(w)
  BY DecidedFacts, DecidedFactsPrimed, TypeParts DEF Discipline
<1>1. First = 1 /\ First' = 1 /\ Jobs' = Jobs /\ At("reply")' /\ ~At("reply")
  BY <1>0 DEF LoopAt, First, At, Jobs
<1>2. ASSUME NEW i \in 1 .. Jobs
      PROVE  /\ loop.batch[i] \in Writers
             /\ call[loop.batch[i]] # NoCall
             /\ Decided[loop.batch[i]] = NoAnswer
             /\ Decided'[loop.batch[i]] = loop'.results[i]
  <2>1. loop.batch[i] \in Writers
    BY <1>0 DEF LoopOK, LoopType, Jobs
  <2>2. pc[loop.batch[i]] = "queued"
    BY <1>0, <1>1 DEF QueueAt
  <2>3. call[loop.batch[i]] # NoCall /\ ans[loop.batch[i]] = NoAnswer
    BY <1>0, <2>1, <2>2 DEF CallerAt
  <2> QED
    BY <1>0, <1>1, <2>1, <2>3 DEF DecidedIs
<1>3. \A i, j \in 1 .. Jobs : loop.batch[i] = loop.batch[j] => i = j
  BY <1>0, <1>1 DEF QueueAt
<1>4. \A w \in Writers : (\A i \in 1 .. Jobs : loop.batch[i] # w) => Decided'[w] = Decided[w]
  BY <1>0, <1>1 DEF DecidedIs
<1> QED
  BY <1>2, <1>3, <1>4

LEMMA CoalescerRefines ==
    ASSUME Coalescing, Discipline, Discipline', TxAt, Coalescer
    PROVE  Outcome
<1>0. /\ RowsOK /\ CallersOK /\ LoopOK /\ LoopAt /\ QueueAt /\ DecidedIs /\ DecidedIs'
      /\ \A w \in Writers : CallerAt(w)
  BY DecidedFacts, DecidedFactsPrimed, TypeParts DEF Discipline
<1>1. /\ loop \in LoopType /\ Jobs \in Nat /\ loop.next \in 1 .. Jobs + 1
      /\ loop.batch \in Seq(Writers)
  BY <1>0 DEF LoopOK, LoopType, Jobs
<1>2. CASE UNCHANGED <<db, call, ans>> /\ ~At("reply") /\ ~At("reply")'
  <2>1. \A w \in Writers : Decided'[w] = Decided[w]
    BY <1>0, <1>2 DEF DecidedIs
  <2> QED
    BY <1>0, <1>2, <2>1 DEF DecidedIs, Outcome
<1>3. CASE \/ Receive \/ Drain \/ Exit \/ DrainNil \/ Drained \/ BatchBegin \/ Apply
           \/ BatchFails \/ IsolatedBegin
  <2>1. loop'.at # "reply" /\ loop.at # "reply"
    BY <1>1, <1>3 DEF Receive, Drain, Exit, DrainNil, Drained, BatchBegin, Apply, BatchFails,
                      IsolatedBegin, From, At, LoopType
  <2> QED
    BY <1>2, <1>3, <2>1 DEF Receive, Drain, Exit, DrainNil, Drained, BatchBegin, Apply,
                            BatchFails, IsolatedBegin, At
<1>4. CASE BatchBeginFails
  <2>1. /\ loop'.at = "reply" /\ loop'.batch = loop.batch /\ loop'.next = 1
        /\ loop'.results = [i \in 1 .. Jobs |-> Failed]
    BY <1>1, <1>4 DEF BatchBeginFails, From, LoopType
  <2>2. UNCHANGED <<db, pc, ans, call>> /\ At("begin")
    BY <1>4 DEF BatchBeginFails
  <2> DEFINE S == {loop.batch[i] : i \in 1 .. Jobs}
  <2>3. S \in SUBSET Writers /\ \A w \in S : call[w] # NoCall /\ Decided[w] = NoAnswer
    BY <2>1, <2>2, BatchDecided
  <2>4. \A w \in Writers : Decided'[w] = IF w \in S THEN Failed ELSE Decided[w]
    BY <2>1, <2>2, BatchDecided
  <2>5. Decided' = [w \in Writers |-> IF w \in S THEN Failed ELSE Decided[w]]
    <3> HIDE DEF S
    <3> QED
      BY <1>0, <2>4 DEF DecidedIs
  <2> HIDE DEF S
  <2>6. Abstract!Fail
    BY <2>2, <2>3, <2>5, AbstractFail
  <2> QED
    BY <2>6 DEF Outcome
<1>5. CASE BatchCommit
  <2>1. /\ loop'.at = "reply" /\ loop'.batch = loop.batch /\ loop'.next = 1
        /\ loop'.results = loop.results
    BY <1>1, <1>5 DEF BatchCommit, From, LoopType
  <2>2. UNCHANGED <<pc, ans, call>> /\ At("apply") /\ db' = tx
    BY <1>5 DEF BatchCommit
  <2>3. loop.next - 1 = Jobs
    BY <1>1, <1>5 DEF BatchCommit
  <2>4. PICK run : run \in [0 .. Jobs -> Databases] /\ IsRun(run, Jobs) /\ run[Jobs] = tx
    BY <2>2, <2>3 DEF TxAt
  <2>5. loop.batch \in [1 .. Jobs -> Writers]
    BY <1>1 DEF Jobs
  <2>6. /\ \A i \in 1 .. Jobs : /\ loop.batch[i] \in Writers
                                /\ call[loop.batch[i]] # NoCall
                                /\ Decided[loop.batch[i]] = NoAnswer
                                /\ Decided'[loop.batch[i]] = loop.results[i]
        /\ \A i, j \in 1 .. Jobs : loop.batch[i] = loop.batch[j] => i = j
        /\ \A w \in Writers : (\A i \in 1 .. Jobs : loop.batch[i] # w) => Decided'[w] = Decided[w]
    BY <2>1, <2>2, BatchDecided
  <2>7. TakeEffect(Jobs, loop.batch, run)
    BY <1>0, <2>2, <2>4, <2>5, <2>6 DEF TakeEffect, IsRun, DecidedIs
  <2> QED
    BY <1>1, <2>7 DEF Outcome
<1>6. CASE Reply
  <2>1. /\ UNCHANGED <<db, call>> /\ At("reply") /\ Return(Job, loop.results[loop.next])
        /\ NextJob("reply")
    BY <1>6 DEF Reply
  <2>2. loop.next <= Jobs /\ First = loop.next
    BY <1>0, <2>1 DEF LoopAt, First, At
  <2>3. Job \in Writers /\ pc'[Job] = "done" /\ ans'[Job] = loop.results[loop.next]
    BY <1>0, <2>1, <2>2, JobFacts DEF Return, CallersOK
  <2>4. Decided[Job] = loop.results[loop.next]
    BY <1>0, <1>1, <2>1, <2>2 DEF DecidedIs, Job
  <2>5. \/ loop'.at = "wait" /\ loop.next = Jobs
        \/ /\ loop'.at = "reply" /\ loop'.next = loop.next + 1 /\ loop'.batch = loop.batch
           /\ loop'.results = loop.results /\ loop.next # Jobs
    BY <1>1, <2>1 DEF NextJob, From, LoopType
  <2>6. ASSUME NEW w \in Writers
        PROVE  Decided'[w] = Decided[w]
    <3>1. CASE w = Job
      BY <1>0, <2>3, <2>4, <3>1 DEF DecidedIs
    <3>2. CASE w # Job /\ \E i \in First .. Jobs : loop.batch[i] = w
      <4>1. PICK i \in loop.next .. Jobs : loop.batch[i] = w
        BY <2>2, <3>2
      <4>2. i # loop.next
        BY <3>2, <4>1 DEF Job
      <4>3. i \in loop.next + 1 .. Jobs /\ loop.next # Jobs
        BY <1>1, <4>1, <4>2
      <4>4. First' = loop.next + 1 /\ Jobs' = Jobs /\ At("reply")'
        BY <2>5, <4>3 DEF First, At, Jobs
      <4> QED
        BY <1>0, <2>1, <2>2, <2>5, <4>1, <4>3, <4>4 DEF DecidedIs
    <3>3. CASE w # Job /\ ~\E i \in First .. Jobs : loop.batch[i] = w
      <4>1. ans'[w] = ans[w]
        BY <1>0, <2>1, <3>3 DEF Return, CallersOK
      <4>2. ~At("reply")' \/ \A i \in First' .. Jobs' : loop'.batch[i] # w
        BY <1>1, <2>2, <2>5, <3>3 DEF First, At, Jobs
      <4> QED
        BY <1>0, <3>3, <4>1, <4>2 DEF DecidedIs
    <3> QED
      BY <3>1, <3>2, <3>3
  <2> QED
    BY <1>0, <2>1, <2>6 DEF DecidedIs, Outcome
<1>7. CASE IsolatedCommit \/ IsolatedFails
  <2>1. loop.next <= Jobs /\ ~At("reply") /\ (At("isolate") \/ At("isolated"))
    BY <1>0, <1>7 DEF LoopAt, IsolatedCommit, IsolatedFails, At
  <2>2. Job \in Writers /\ pc[Job] = "queued" /\ call[Job] \in Calls
    BY <2>1, JobFacts
  <2>3. ~At("reply")'
    BY <1>1, <1>7 DEF IsolatedCommit, IsolatedFails, NextJob, From, LoopType, At
  <2>4. Decided = ans /\ Decided' = ans' /\ Decided[Job] = NoAnswer
    <3>1. ans' \in [Writers -> Answers \cup {NoAnswer}]
      BY TypePartsPrimed DEF Discipline, CallersOK
    <3>2. Decided = ans /\ Decided' = ans'
      BY <1>0, <2>1, <2>3, <3>1 DEF DecidedIs, CallersOK
    <3> QED
      BY <1>0, <2>2, <3>2 DEF CallerAt
  <2>5. CASE IsolatedCommit
    <3>1. tx = db
      BY <2>5 DEF IsolatedCommit, TxAt
    <3>2. /\ db' = Effect(db, Job, call[Job])
          /\ Decided' = [Decided EXCEPT ![Job] = Report(db, call[Job])]
          /\ UNCHANGED call
      BY <2>4, <2>5, <3>1 DEF IsolatedCommit, Return
    <3> QED
      BY <1>0, <2>2, <2>4, <3>2, TakesEffectAlone DEF RowsOK, DecidedIs
  <2>6. CASE IsolatedFails
    <3>1. Decided' = [w \in Writers |-> IF w \in {Job} THEN Failed ELSE Decided[w]]
      BY <1>0, <2>4, <2>6 DEF IsolatedFails, Return, CallersOK
    <3>2. {Job} \in SUBSET Writers /\ \A w \in {Job} : call[w] # NoCall /\ Decided[w] = NoAnswer
      BY <2>2, <2>4, CallFacts
    <3>3. UNCHANGED <<db, call>>
      BY <2>6 DEF IsolatedFails
    <3>4. Abstract!Fail
      BY <3>1, <3>2, <3>3, AbstractFail
    <3> QED
      BY <3>4 DEF Outcome
  <2> QED
    BY <1>7, <2>5, <2>6
<1> QED
  BY <1>3, <1>4, <1>5, <1>6, <1>7 DEF Coalescer

LEMMA StepOutcome ==
    ASSUME Coalescing, Discipline, Discipline', TxAt, [Next]_vars
    PROVE  Outcome
<1>1. CASE Close \/ ClosePools \/ UNCHANGED vars
  BY <1>1 DEF Close, ClosePools, vars, Outcome, Decided, At, Jobs
<1> QED
  BY <1>1, CallerRefines, CoalescerRefines DEF Next, Stopped

LEMMA OutcomeRefines == Outcome => [Abstract!Next]_(Abstract!vars)
  BY AbstractCommit DEF Outcome, Abstract!Next, Abstract!vars

LEMMA InitTx == Init => TxAt
  BY GroupCommitConstants DEF Init, TxAt, At

LEMMA InitRefines == Init => Abstract!Init
<1> SUFFICES ASSUME Init PROVE Abstract!Init
  OBVIOUS
<1>1. Decided = [w \in Writers |-> NoAnswer]
  BY GroupCommitConstants DEF Init, Decided, At
<1> QED
  BY <1>1, SameValues DEF Init, Abstract!Init

\* With group commit the backend implements AtomicStore: each write takes effect at
\* one instant of its call, in the order of its batch, and reports what it found then;
\* a write that fails, in a batch or isolated, has had no effect.
THEOREM GroupCommitIsAtomic == Coalescing => (Spec => Atomic)
<1> SUFFICES ASSUME Coalescing PROVE Spec => Atomic
  OBVIOUS
<1>1. Init => Discipline /\ TxAt /\ Abstract!Init
  BY InitDiscipline, InitTx, InitRefines
<1>2. Discipline /\ TxAt /\ [Next]_vars => Discipline' /\ TxAt'
  BY DisciplineStep, TxStep
<1>3. Discipline /\ Discipline' /\ TxAt /\ [Next]_vars => [Abstract!Next]_(Abstract!vars)
  BY StepOutcome, OutcomeRefines
<1> QED
  BY <1>1, <1>2, <1>3, PTL DEF Spec, Atomic, Abstract!Spec

-----------------------------------------------------------------------------
(* A removal is reported once.                                              *)

\* One write, that nobody has decided yet, takes effect.
LEMMA OnceKept ==
    ASSUME NEW d \in Databases, NEW D \in [Writers -> Answers \cup {NoAnswer}],
           NEW w \in Writers, D[w] = NoAnswer, call[w] \in Calls, Once(d, D),
           call \in [Writers -> Calls \cup {NoCall}]
    PROVE  Once(Effect(d, w, call[w]), [D EXCEPT ![w] = Report(d, call[w])])
<1> DEFINE e == Effect(d, w, call[w])
           a == Report(d, call[w])
           E == [D EXCEPT ![w] = a]
<1>1. e \in Databases /\ a \in Answers /\ a # NoAnswer
  BY EffectType, AnswerFacts
<1>2. \A r \in Rows : e[r] \in {d[r], w, None}
  BY CallFacts DEF Effect, CallOps, Databases
<1>3. call[w].op = "delete" => a.old = d[call[w].row] /\ e[call[w].row] = None
  BY CallFacts DEF Report, Effect, Answer, Databases
<1>4. \A v \in Writers : call[v].row \in Rows
  BY CallFacts DEF NoCall, Call, Rows
<1>5. None \notin Writers /\ NoAnswer.old = None
  BY RowsDistinct DEF Values, NoAnswer, Answer
<1> HIDE DEF e, a
<1>6. E[w] = a /\ \A v \in Writers : v # w => E[v] = D[v]
  OBVIOUS
<1>7. \A v \in Writers : D[v] # NoAnswer => E[v] # NoAnswer
  BY <1>1, <1>6
<1> HIDE DEF E
<1>8. \A r \in Rows : e[r] \in Writers => E[e[r]] # NoAnswer
  BY <1>1, <1>2, <1>5, <1>6, <1>7 DEF Once
<1>9. ASSUME NEW v \in Writers, Spent(E, v)
      PROVE  /\ e[call[v].row] # E[v].old
             /\ E[v].old \in Writers => E[E[v].old] # NoAnswer
  <2>1. CASE v = w
    BY <1>3, <1>4, <1>6, <1>7, <1>9, <2>1 DEF Spent, Once
  <2>2. CASE v # w
    <3>1. Spent(D, v) /\ E[v].old = D[v].old
      BY <1>6, <1>9, <2>2 DEF Spent
    <3>2. d[call[v].row] # D[v].old /\ (D[v].old \in Writers => D[D[v].old] # NoAnswer)
      BY <3>1 DEF Once
    <3>3. D[v].old # w /\ D[v].old # None
      BY <3>1, <3>2 DEF Spent
    <3> QED
      BY <1>2, <1>4, <1>7, <3>1, <3>2, <3>3
  <2> QED
    BY <2>1, <2>2
<1>10. ASSUME NEW v \in Writers, NEW u \in Writers, Spent(E, v), Spent(E, u),
              call[v].row = call[u].row, E[v].old = E[u].old
       PROVE  v = u
  <2>1. \A x \in Writers : x # w /\ Spent(E, x) => Spent(D, x) /\ E[x].old = D[x].old
    BY <1>6 DEF Spent
  <2>2. \A x \in Writers : Spent(D, x) => d[call[x].row] # D[x].old
    BY DEF Once
  <2>3. Spent(E, w) => E[w].old = d[call[w].row]
    BY <1>3, <1>6 DEF Spent
  <2> QED
    BY <1>10, <2>1, <2>2, <2>3 DEF Once
<1> QED
  BY <1>8, <1>9, <1>10 DEF Once, e, a, E

\* Several writes take effect one after the other.
LEMMA OnceKeptByAll ==
    ASSUME NEW n \in Nat, NEW s, NEW run, TakeEffect(n, s, run), OnceInv, Discipline, DecidedIs
    PROVE  OnceInv'
<1>0. db \in Databases /\ call \in [Writers -> Calls \cup {NoCall}]
  BY TypeParts DEF Discipline, RowsOK, CallersOK
<1> DEFINE D(i) == [w \in Writers |-> IF \E j \in 1 .. i : s[j] = w THEN Decided'[w] ELSE Decided[w]]
           T == {i \in 0 .. n : Once(run[i], D(i))}
<1>1. \A i \in 0 .. n : D(i) \in [Writers -> Answers \cup {NoAnswer}]
  BY DEF TakeEffect, DecidedIs
<1>2. D(0) = Decided
  <2>1. \A w \in Writers : ~\E j \in 1 .. 0 : s[j] = w
    OBVIOUS
  <2> QED
    BY <2>1 DEF DecidedIs
<1>3. D(n) = Decided'
  BY DEF TakeEffect
<1>4. 0 \in T
  BY <1>2 DEF TakeEffect, OnceInv
<1>5. \A i \in 0 .. n : i \in T /\ i < n => i + 1 \in T
  <2> SUFFICES ASSUME NEW i \in 0 .. n, Once(run[i], D(i)), i < n
               PROVE  Once(run[i + 1], D(i + 1))
    OBVIOUS
  <2>1. i + 1 \in 1 .. n /\ (i + 1) - 1 = i
    OBVIOUS
  <2>2. PICK w \in Writers : w = s[i + 1]
    BY <2>1 DEF TakeEffect
  <2>3. /\ call[w] \in Calls /\ Decided[w] = NoAnswer
        /\ run[i] \in Databases
        /\ run[i + 1] = Effect(run[i], w, call[w])
        /\ Decided'[w] = Report(run[i], call[w])
    BY <1>0, <2>1, <2>2 DEF TakeEffect
  <2>4. ~\E j \in 1 .. i : s[j] = w
    BY <2>1, <2>2 DEF TakeEffect
  <2>5. D(i)[w] = NoAnswer
    BY <2>3, <2>4
  <2>6. D(i + 1) = [D(i) EXCEPT ![w] = Report(run[i], call[w])]
    <3>1. \A j \in 1 .. i + 1 : j \in 1 .. i \/ j = i + 1
      OBVIOUS
    <3>2. \A j \in 1 .. i : j \in 1 .. i + 1
      OBVIOUS
    <3>3. \A v \in Writers : (\E j \in 1 .. i + 1 : s[j] = v) <=> (\E j \in 1 .. i : s[j] = v) \/ v = w
      BY <2>1, <2>2, <3>1, <3>2
    <3>4. ASSUME NEW v \in Writers
          PROVE  D(i + 1)[v] = IF v = w THEN Report(run[i], call[w]) ELSE D(i)[v]
      BY <2>3, <3>3
    <3>5. D(i + 1) = [v \in Writers |-> D(i + 1)[v]]
      OBVIOUS
    <3>6. [D(i) EXCEPT ![w] = Report(run[i], call[w])]
            = [v \in Writers |-> IF v = w THEN Report(run[i], call[w]) ELSE D(i)[v]]
      OBVIOUS
    <3> HIDE DEF D
    <3> QED
      BY <3>4, <3>5, <3>6
  <2> HIDE DEF D
  <2> QED
    BY <1>0, <1>1, <2>3, <2>5, <2>6, OnceKept
<1>6. 0 .. n \subseteq T
  <2> HIDE DEF T
  <2> QED
    BY <1>4, <1>5, IntervalInduction
<1>7. Once(run[n], D(n))
  BY <1>6
<1>8. Once(db', Decided')
  BY <1>3, <1>7 DEF TakeEffect
<1> QED
  BY <1>8 DEF OnceInv, Once, Spent, TakeEffect

LEMMA OnceStep ==
    ASSUME Discipline, OnceInv, Outcome, DecidedIs
    PROVE  OnceInv'
<1>0. CallersOK /\ RowsOK /\ \A w \in Writers : CallerAt(w)
  BY TypeParts DEF Discipline
<1>1. ASSUME NEW w \in Writers, Abstract!Begin(w)
      PROVE  OnceInv'
  <2>1. PICK c \in Calls : call[w] = NoCall /\ call' = [call EXCEPT ![w] = c]
    BY <1>1, SameValues DEF Abstract!Begin
  <2>2. UNCHANGED <<db, Decided>>
    BY <1>1 DEF Abstract!Begin
  <2>3. Decided[w] = NoAnswer /\ NoAnswer.old = None
    BY <1>0, <2>1 DEF CallerAt, DecidedIs, NoAnswer, Answer
  <2>4. \A v \in Writers : Decided[v].old # None => call'[v] = call[v]
    BY <1>0, <2>1, <2>3 DEF CallersOK
  <2> QED
    BY <2>2, <2>4 DEF OnceInv, Once, Spent
<1>2. CASE Abstract!Fail
  <2>1. PICK S \in SUBSET Writers, a \in {Failed, Panicked} :
            /\ \A w \in S : Decided[w] = NoAnswer
            /\ Decided' = [w \in Writers |-> IF w \in S THEN a ELSE Decided[w]]
            /\ UNCHANGED <<db, call>>
    BY <1>2, SameValues DEF Abstract!Fail, Abstract!Pending
  <2>2. a.old = None /\ a # NoAnswer
    BY DEF Failed, Panicked, NoAnswer, Answer
  <2>3. \A w \in Writers : Decided[w] # NoAnswer => Decided'[w] = Decided[w]
    BY <2>1
  <2>4. \A w \in Writers : Decided'[w].old # None => Decided'[w] = Decided[w]
    BY <2>1, <2>2
  <2>5. \A w \in Writers : Spent(Decided, w)' => Spent(Decided, w) /\ Decided'[w] = Decided[w]
    BY <2>1, <2>4 DEF Spent
  <2> QED
    BY <2>1, <2>3, <2>5 DEF OnceInv, Once
<1>3. CASE UNCHANGED <<db, call, Decided>>
  BY <1>3 DEF OnceInv, Once, Spent
<1> QED
  BY <1>1, <1>2, <1>3, OnceKeptByAll DEF Outcome

LEMMA InitOnce == Init => OnceInv
<1> SUFFICES ASSUME Init PROVE OnceInv
  OBVIOUS
<1>1. Decided = [w \in Writers |-> NoAnswer]
  BY GroupCommitConstants DEF Init, Decided, At
<1>2. NoAnswer.old = None /\ \A r \in Rows : db[r] \notin Writers
  BY RowsDistinct DEF Init, NoAnswer, Answer, Values
<1> QED
  BY <1>1, <1>2 DEF OnceInv, Once, Spent

LEMMA OnceMeans == Discipline /\ OnceInv => DeletesReportOnce
<1> SUFFICES ASSUME Discipline, OnceInv PROVE DeletesReportOnce
  OBVIOUS
<1>0. DecidedIs /\ \A w \in Writers : CallerAt(w)
  BY DecidedFacts DEF Discipline
<1>1. NoAnswer.old = None
  BY DEF NoAnswer, Answer
<1>2. \A w \in Writers : ans[w].old # None => Decided[w] = ans[w]
  BY <1>0, <1>1 DEF CallerAt, DecidedIs
<1> QED
  BY <1>2 DEF DeletesReportOnce, OnceInv, Once, Spent

\* With group commit a stored value is reported deleted by one Delete at most, whatever
\* batches, failures and retries the deletes ride in.
THEOREM RemovalsReportedOnce == Coalescing => (Spec => []DeletesReportOnce)
<1> SUFFICES ASSUME Coalescing PROVE Spec => []DeletesReportOnce
  OBVIOUS
<1>1. Init => Discipline /\ TxAt /\ OnceInv
  BY InitDiscipline, InitTx, InitOnce
<1>2. Discipline /\ TxAt /\ OnceInv /\ [Next]_vars => Discipline' /\ TxAt' /\ OnceInv'
  BY DisciplineStep, TxStep, StepOutcome, OnceStep, DecidedFacts
<1>3. Discipline /\ OnceInv => DeletesReportOnce
  BY OnceMeans
<1> QED
  BY <1>1, <1>2, <1>3, PTL DEF Spec

-----------------------------------------------------------------------------
(* The direct path: reports were true.                                      *)

SeenInv == ReportsWereTrue /\ \A w \in Writers : SeenAt(w)

\* What a report of w's says of the values its row has held.
TrueReport(w, a, S) ==
    a.err \in {"nil", "conflict"} =>
        LET op == call[w].op IN
        IF a.err = "conflict" THEN S # {None}
        ELSE /\ op \in {"put", "create", "tx"} => w \in S
             /\ op \in {"create", "tx", "delete", "drop", "deleteOrg"} => None \in S
             /\ op \in {"delete", "deleteOrg"} => a.old \in S

\* Every step of a call is in its history.
LEMMA HistorySees ==
    ASSUME ~Coalescing, Discipline, Discipline', History, SeenInv, NEW w \in Writers,
           pc[w] # "done", pc'[w] # "idle"
    PROVE  seen'[w] = seen[w] \cup {db'[call'[w].row]}
  BY DEF History

\* A call that takes no step sees what others do to its row.
LEMMA OthersSee ==
    ASSUME ~Coalescing, Discipline, Discipline', History, SeenInv, NEW w \in Writers,
           pc'[w] = pc[w], call'[w] = call[w], got'[w] = got[w], ans'[w] = ans[w]
    PROVE  SeenAt(w)' /\ (pc'[w] = "done" => TrueReport(w, ans[w], seen[w]) /\ seen'[w] = seen[w])
<1>1. CASE pc[w] \in {"idle", "done"}
  <2>1. seen'[w] = seen[w]
    BY <1>1 DEF History
  <2> QED
    BY <1>1, <2>1 DEF SeenAt, SeenInv, ReportsWereTrue, TrueReport
<1>2. CASE pc[w] \notin {"idle", "done"}
  <2>1. seen'[w] = seen[w] \cup {db'[call'[w].row]}
    BY <1>2, HistorySees
  <2> QED
    BY <1>2, <2>1 DEF SeenAt, SeenInv
<1> QED
  BY <1>1, <1>2

\* A call that goes on, with nothing to remember.
LEMMA GoesOn ==
    ASSUME ~Coalescing, Discipline, Discipline', History, SeenInv, NEW w \in Writers,
           pc[w] # "done", pc'[w] \notin {"idle", "done"},
           pc'[w] \in {"delete", "objects", "blobs"} => got'[w] \in seen'[w],
           pc'[w] \in {"objects", "blobs"} => None \in seen'[w]
    PROVE  SeenAt(w)'
  BY HistorySees DEF SeenAt

LEMMA OwnStepSeen ==
    ASSUME ~Coalescing, Discipline, Discipline', TxAt, History, SeenInv, NEW w \in Writers,
           Start(w) \/ Caller(w)
    PROVE  SeenAt(w)' /\ (pc'[w] = "done" => call'[w] = call[w] /\ TrueReport(w, ans'[w], seen'[w]))
<1>0. RowsOK /\ CallersOK /\ CallersOK' /\ CallerAt(w) /\ CallerAt(w)' /\ SeenAt(w)
  BY TypeParts, TypePartsPrimed DEF Discipline, SeenInv
<1>1. pc[w] # "done" /\ pc'[w] # "idle"
  BY <1>0 DEF Start, Caller, Submit, SubmitClosed, Exec, Get, ExecDelete, ExecDeleteOrg,
              TxBegin, TxFn, TxCommit, CallFails, Return, Goto, CallersOK
<1>2. seen'[w] = seen[w] \cup {db'[call'[w].row]}
  BY <1>1, HistorySees
<1>3. CASE Start(w)
  BY <1>0, <1>1, <1>3, GoesOn DEF Start, Goto, CallersOK
<1> SUFFICES ASSUME Caller(w), ~Start(w)
             PROVE  SeenAt(w)' /\ (pc'[w] = "done" => call'[w] = call[w] /\ TrueReport(w, ans'[w], seen'[w]))
  BY <1>3
<1>4. pc[w] # "idle" /\ call' = call /\ call[w] \in Calls
  <2>1. pc[w] # "idle" /\ call' = call
    BY DEF Caller, Submit, SubmitClosed, Exec, Get, ExecDelete, ExecDeleteOrg,
              TxBegin, TxFn, TxCommit, CallFails
  <2> QED
    BY <2>1, CallingFacts
<1>5. db[call[w].row] \in seen[w]
  BY <1>0, <1>1, <1>4 DEF SeenAt
<1>6. /\ call[w].op \in CallOps /\ call[w].row \in Rows
      /\ call[w].op \in {"deleteOrg", "tx"} => call[w].row = Org
  BY <1>4, CallFacts
<1>7. ASSUME NEW a, Return(w, a), TrueReport(w, a, seen'[w])
      PROVE  SeenAt(w)' /\ (pc'[w] = "done" => call'[w] = call[w] /\ TrueReport(w, ans'[w], seen'[w]))
  BY <1>0, <1>4, <1>7 DEF SeenAt, Return, CallersOK
<1>8. ASSUME db' = Effect(db, w, call[w]), call[w].op \in {"put", "create", "drop", "tx"}
      PROVE  TrueReport(w, Report(db, call[w]), seen'[w])
  <2>1. CASE call[w].op = "put"
    BY <1>0, <1>2, <1>4, <1>6, <1>8, <2>1 DEF TrueReport, Report, Effect, Answer, RowsOK, Databases
  <2>2. CASE call[w].op = "create"
    BY <1>0, <1>2, <1>4, <1>5, <1>6, <1>8, <2>2 DEF TrueReport, Report, Effect, Answer, RowsOK, Databases
  <2>3. CASE call[w].op = "drop"
    BY <1>0, <1>2, <1>4, <1>6, <1>8, <2>3 DEF TrueReport, Report, Effect, Answer, RowsOK, Databases
  <2>4. CASE call[w].op = "tx"
    <3>1. Org \in Rows /\ Org \notin Blobs
      BY RowsDistinct DEF Rows
    <3> QED
      BY <1>0, <1>2, <1>4, <1>5, <1>6, <1>8, <2>4, <3>1
         DEF TrueReport, Report, Effect, Answer, RowsOK, Databases
  <2> QED
    BY <1>8, <2>1, <2>2, <2>3, <2>4
<1>9. CASE Submit(w) \/ TxBegin(w)
  BY <1>0, <1>1, <1>9, GoesOn DEF Submit, TxBegin, Goto, CallersOK
<1>10. CASE SubmitClosed(w) \/ CallFails(w)
  BY <1>7, <1>10 DEF SubmitClosed, CallFails, TrueReport, Panicked, Failed, Answer
<1>11. CASE Exec(w)
  BY <1>7, <1>8, <1>11 DEF Exec
<1>12. CASE Get(w)
  <2>1. got'[w] = db[call[w].row] /\ got'[w] \in seen'[w] /\ call[w].op = "delete"
    BY <1>0, <1>2, <1>5, <1>12 DEF Get, CallersOK
  <2>2. CASE got'[w] = None
    <3>1. TrueReport(w, Answer("nil", None), seen'[w])
      BY <2>1, <2>2 DEF TrueReport, Answer
    <3> QED
      BY <1>7, <1>12, <2>2, <3>1 DEF Get
  <2>3. CASE got'[w] # None
    BY <1>0, <1>1, <1>12, <2>1, <2>3, GoesOn DEF Get, Goto, CallersOK
  <2> QED
    BY <2>2, <2>3
<1>13. CASE ExecDelete(w)
  <2>1. call[w].op = "delete" /\ got[w] \in seen'[w] /\ None \in seen'[w]
    BY <1>0, <1>2, <1>4, <1>6, <1>13 DEF ExecDelete, CallerAt, SeenAt, RowsOK, Databases
  <2>2. TrueReport(w, Answer("nil", got[w]), seen'[w])
    BY <2>1 DEF TrueReport, Answer
  <2> QED
    BY <1>7, <1>13, <2>2 DEF ExecDelete
<1>14. CASE ExecDeleteOrg(w)
  <2>1. call[w].op = "deleteOrg" /\ call[w].row = Org
    BY <1>6, <1>14 DEF ExecDeleteOrg
  <2>2. CASE pc[w] = "exec"
    <3>1. /\ got'[w] = db[Org] /\ db'[Org] = None
          /\ IF db[Org] = None THEN Return(w, Answer("nil", None))
                               ELSE Goto(w, "objects")
      BY <1>0, <1>6, <1>14, <2>1, <2>2 DEF ExecDeleteOrg, CallersOK, RowsOK, Databases
    <3>2. got'[w] \in seen'[w] /\ None \in seen'[w]
      BY <1>2, <1>4, <1>5, <2>1, <3>1
    <3>3. CASE db[Org] = None
      <4>1. TrueReport(w, Answer("nil", None), seen'[w])
        BY <2>1, <3>2 DEF TrueReport, Answer
      <4> QED
        BY <1>7, <3>1, <3>3, <4>1
    <3>4. CASE db[Org] # None
      BY <1>0, <1>1, <3>1, <3>2, <3>4, GoesOn DEF Goto, CallersOK
    <3> QED
      BY <3>3, <3>4
  <2>3. CASE pc[w] = "objects"
    BY <1>0, <1>1, <1>2, <1>14, <2>3, GoesOn DEF ExecDeleteOrg, Goto, CallersOK, SeenAt
  <2>4. CASE pc[w] = "blobs"
    <3>1. TrueReport(w, Answer("nil", got[w]), seen'[w])
      BY <1>0, <1>2, <2>1, <2>4 DEF SeenAt, TrueReport, Answer
    <3> QED
      BY <1>7, <1>14, <2>4, <3>1 DEF ExecDeleteOrg
  <2> QED
    BY <1>14, <2>2, <2>3, <2>4 DEF ExecDeleteOrg
<1>15. CASE TxFn(w)
  <2>1. tx = db /\ call[w].op = "tx"
    BY <1>0, <1>15 DEF TxFn, TxAt, CallerAt
  <2>2. CASE tx[Org] = None
    BY <1>0, <1>1, <1>15, <2>2, GoesOn DEF TxFn, Goto, CallersOK
  <2>3. CASE tx[Org] # None
    <3>1. db' = Effect(db, w, call[w])
      BY <1>15, <2>1, <2>3 DEF TxFn, Effect
    <3> QED
      BY <1>7, <1>8, <1>15, <2>1, <2>3, <3>1 DEF TxFn
  <2> QED
    BY <2>2, <2>3
<1>16. CASE TxCommit(w)
  <2>1. db[Org] = None /\ tx = Effect(db, w, call[w]) /\ call[w].op = "tx"
    BY <1>0, <1>16 DEF TxCommit, TxAt, CallerAt
  <2>2. Report(db, call[w]) = Answer("nil", None)
    BY <1>6, <2>1 DEF Report
  <2>3. TrueReport(w, Answer("nil", None), seen'[w])
    BY <1>8, <1>16, <2>1, <2>2 DEF TxCommit
  <2> QED
    BY <1>7, <1>16, <2>3 DEF TxCommit
<1> QED
  BY <1>9, <1>10, <1>11, <1>12, <1>13, <1>14, <1>15, <1>16 DEF Caller

LEMMA SeenStep ==
    ASSUME ~Coalescing, Discipline, Discipline', TxAt, SeenInv, [Next]_vars
    PROVE  SeenInv'
<1>1. CASE UNCHANGED vars
  BY <1>1 DEF vars, SeenInv, SeenAt, ReportsWereTrue
<1> SUFFICES ASSUME Next, ~UNCHANGED vars PROVE SeenInv'
  BY <1>1
<1>2. History
  BY DEF Next, Stopped
<1>3. ASSUME NEW v \in Writers
      PROVE  SeenAt(v)' /\ (pc'[v] = "done" => call'[v] = call[v] /\ TrueReport(v, ans'[v], seen'[v]))
  <2>1. CASE \E w \in Writers : Start(w) \/ Caller(w)
    <3>1. PICK w \in Writers : Start(w) \/ Caller(w)
      BY <2>1
    <3>2. CASE v = w
      BY <1>2, <3>1, <3>2, OwnStepSeen
    <3>3. CASE v # w
      BY <1>2, <3>1, <3>3, CallerFrame, OthersSee
    <3> QED
      BY <3>2, <3>3
  <2>2. CASE Close \/ ClosePools
    BY <1>2, <2>2, OthersSee DEF Close, ClosePools
  <2>3. ~Coalescer
    BY DEF Discipline, LoopAt, Coalescer, Receive, Exit, Drain, DrainNil, Drained, BatchBegin,
           BatchBeginFails, Apply, BatchCommit, BatchFails, Reply, IsolatedBegin,
           IsolatedCommit, IsolatedFails, At
  <2> QED
    BY <2>1, <2>2, <2>3 DEF Next, Stopped
<1>4. ReportsWereTrue'
  BY <1>3 DEF ReportsWereTrue, TrueReport
<1> QED
  BY <1>3, <1>4 DEF SeenInv

\* Without group commit, what a call reports was so at some moment while it ran: its
\* value was stored, its row absent, the row it met there, the value it returns in it.
THEOREM DirectReportsWereTrue == ~Coalescing => (Spec => []ReportsWereTrue)
<1> SUFFICES ASSUME ~Coalescing PROVE Spec => []ReportsWereTrue
  OBVIOUS
<1>1. Init => Discipline /\ TxAt /\ SeenInv
  <2>1. Init => SeenInv
    BY DEF Init, SeenInv, SeenAt, ReportsWereTrue
  <2> QED
    BY <2>1, InitDiscipline, InitTx
<1>2. Discipline /\ TxAt /\ SeenInv /\ [Next]_vars => Discipline' /\ TxAt' /\ SeenInv'
  BY DisciplineStep, TxStep, SeenStep
<1>3. SeenInv => ReportsWereTrue
  BY DEF SeenInv
<1> QED
  BY <1>1, <1>2, <1>3, PTL DEF Spec

=============================================================================
