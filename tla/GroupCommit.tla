---------------------------- MODULE GroupCommit -----------------------------
(***************************************************************************)
(* How the SQLite backend carries out a write.                              *)
(*                                                                          *)
(* With group commit (WithGroupCommit) a write is queued for one goroutine, *)
(* the coalescer, which runs all that is queued in one transaction and      *)
(* answers each caller after the commit; when the batch fails it runs every *)
(* write again in a transaction of its own.  Without it, a caller issues    *)
(* its statements itself and each one commits.  A store transaction (Tx)    *)
(* is the same in both modes.  All of them share the writer pool's only     *)
(* connection.                                                              *)
(*                                                                          *)
(* SQLite is external: a transaction is atomic and isolated, and a begin, a *)
(* statement or a commit may fail, which leaves the committed rows alone.   *)
(***************************************************************************)
EXTENDS Statements, Sequences

CONSTANTS
    Coalescing,     \* whether the backend was opened WithGroupCommit
    Ops,            \* the operations a run exercises
    Cap,            \* capacity of the coalescer's channel (1024 in the code)
    MaxNils,        \* bound: nil jobs counted in a batch
    Free, Loop      \* who has the connection: nobody, or the coalescer

ASSUME GroupCommitConstants ==
    /\ Coalescing \in BOOLEAN
    /\ Cap \in Nat \ {0} /\ MaxNils \in Nat
    /\ {Free, Loop} \cap Writers = {} /\ Free # Loop

VARIABLES
    db,         \* the committed rows
    conn,       \* who has the writer connection
    tx,         \* the rows as the open transaction sees them
    pc,         \* pc[w]: where w's call is
    call,       \* call[w]: what w asked for
    got,        \* got[w]: the row w's Delete read
    ans,        \* ans[w]: what w's call returned
    ch,         \* writes queued for the coalescer
    loop,       \* the coalescer: where it is, its batch, the job it is at,
                \* the results so far, and the nil jobs at the batch's end
    closed,     \* whether Close has been called
    shut,       \* whether the pools have been closed
    seen        \* history: the values w's row has held during w's direct call

vars == <<db, conn, tx, pc, call, got, ans, ch, loop, closed, shut, seen>>

Init ==
    /\ db \in {d \in [Rows -> {Old, None}] : d[Org] = None => \A r \in Rows : d[r] = None}
    /\ conn = Free
    /\ tx = db
    /\ pc   = [w \in Writers |-> "idle"]
    /\ call = [w \in Writers |-> NoCall]
    /\ got  = [w \in Writers |-> None]
    /\ ans  = [w \in Writers |-> NoAnswer]
    /\ ch = <<>>
    /\ loop = [at |-> IF Coalescing THEN "wait" ELSE "exited",
               batch |-> <<>>, next |-> 1, results |-> <<>>, nils |-> 0]
    /\ closed = FALSE
    /\ shut = FALSE
    /\ seen = [w \in Writers |-> {}]

InFlight(w) == pc[w] \notin {"idle", "done"}

\* What every step does to the history, which is kept for the direct path: w's
\* call has seen its row as it is now.
History == seen' = [w \in Writers |->
    IF Coalescing \/ pc'[w] = "idle" \/ pc[w] = "done" THEN seen[w]
    ELSE seen[w] \cup {db'[call'[w].row]}]

Return(w, a) ==
    /\ pc'  = [pc EXCEPT ![w] = "done"]
    /\ ans' = [ans EXCEPT ![w] = a]

Goto(w, l) == pc' = [pc EXCEPT ![w] = l]

-----------------------------------------------------------------------------
(* The caller.  coalesce sends a write to the coalescer, or runs it here.   *)

Start(w) ==
    /\ pc[w] = "idle"
    /\ \E c \in {k \in Calls : k.op \in Ops} :
        /\ call' = [call EXCEPT ![w] = c]
        /\ Goto(w, IF c.op = "tx" THEN "begin" ELSE IF Coalescing THEN "submit" ELSE "exec")
    /\ UNCHANGED <<db, conn, tx, got, ans, ch, loop, closed, shut>>

\* submit: enqueue the job; a full channel blocks.
Submit(w) ==
    /\ pc[w] = "submit"
    /\ ~closed /\ Len(ch) < Cap
    /\ ch' = Append(ch, w)
    /\ Goto(w, "queued")
    /\ UNCHANGED <<db, conn, tx, call, got, ans, loop, closed, shut>>

\* A send on the closed channel panics, whether it was blocked or comes late.
SubmitClosed(w) ==
    /\ pc[w] = "submit"
    /\ closed
    /\ Return(w, Panicked)
    /\ UNCHANGED <<db, conn, tx, call, got, ch, loop, closed, shut>>

\* The direct path: one statement, which commits by itself.
Exec(w) ==
    /\ pc[w] = "exec" /\ call[w].op \in {"put", "create", "drop"}
    /\ conn = Free /\ ~shut
    /\ db' = Effect(db, w, call[w])
    /\ Return(w, Report(db, call[w]))
    /\ UNCHANGED <<conn, tx, call, got, ch, loop, closed, shut>>

\* Delete reads the row through the reader pool ...
Get(w) ==
    /\ pc[w] = "exec" /\ call[w].op = "delete"
    /\ ~shut
    /\ got' = [got EXCEPT ![w] = db[call[w].row]]
    /\ IF got'[w] = None
       THEN Return(w, Answer("nil", None))
       ELSE Goto(w, "delete") /\ UNCHANGED ans
    /\ UNCHANGED <<db, conn, tx, call, ch, loop, closed, shut>>

\* Mutant: the error of the DELETE statement is dropped.
ExecDeleteUnchecked(w) ==
    /\ pc[w] = "delete"
    /\ conn = Free
    /\ \E d \in {db, [db EXCEPT ![call[w].row] = None]} : db' = d
    /\ Return(w, Answer("nil", got[w]))
    /\ UNCHANGED <<conn, tx, call, got, ch, loop, closed, shut>>

\* ... and then deletes it, and reports the row it read.
ExecDelete(w) ==
    /\ pc[w] = "delete"
    /\ conn = Free /\ ~shut
    /\ db' = [db EXCEPT ![call[w].row] = None]
    /\ Return(w, Answer("nil", got[w]))
    /\ UNCHANGED <<conn, tx, call, got, ch, loop, closed, shut>>

\* DeleteOrg issues up to three statements: the org's row, its objects, its blobs.
ExecDeleteOrg(w) ==
    /\ pc[w] \in {"exec", "objects", "blobs"} /\ call[w].op = "deleteOrg"
    /\ conn = Free /\ ~shut
    /\ \/ /\ pc[w] = "exec"
          /\ got' = [got EXCEPT ![w] = db[Org]]
          /\ db' = [db EXCEPT ![Org] = None]
          /\ IF db[Org] = None THEN Return(w, Answer("nil", None))
                               ELSE Goto(w, "objects") /\ UNCHANGED ans
       \/ /\ pc[w] = "objects"
          /\ db' = [r \in Rows |-> IF r \in Objects THEN None ELSE db[r]]
          /\ Goto(w, "blobs")
          /\ UNCHANGED <<got, ans>>
       \/ /\ pc[w] = "blobs"
          /\ db' = [r \in Rows |-> IF r \in Blobs THEN None ELSE db[r]]
          /\ Return(w, Answer("nil", got[w]))
          /\ UNCHANGED got
    /\ UNCHANGED <<conn, tx, call, ch, loop, closed, shut>>

\* A store transaction: begin, run the caller's function, commit.
TxBegin(w) ==
    /\ pc[w] = "begin"
    /\ conn = Free /\ ~shut
    /\ conn' = w /\ tx' = db
    /\ Goto(w, "fn")
    /\ UNCHANGED <<db, call, got, ans, ch, loop, closed, shut>>

TxFn(w) ==
    /\ pc[w] = "fn"
    /\ \/ /\ tx[Org] = None
          /\ tx' = Effect(tx, w, call[w])
          /\ Goto(w, "commit")
          /\ UNCHANGED <<conn, ans>>
       \/ /\ tx[Org] # None              \* CreateOrg's conflict rolls back
          /\ Return(w, Report(tx, call[w]))
          /\ conn' = Free /\ tx' = db
    /\ UNCHANGED <<db, call, got, ch, loop, closed, shut>>

TxCommit(w) ==
    /\ pc[w] = "commit"
    /\ db' = tx /\ conn' = Free
    /\ Return(w, Answer("nil", None))
    /\ UNCHANGED <<tx, call, got, ch, loop, closed, shut>>

\* A statement, a begin or a commit fails: the call returns the error, and an
\* open transaction is rolled back.
CallFails(w) ==
    /\ pc[w] \in {"exec", "delete", "objects", "blobs", "begin", "fn", "commit"}
    /\ Return(w, Failed)
    /\ IF conn = w THEN conn' = Free /\ tx' = db ELSE UNCHANGED <<conn, tx>>
    /\ UNCHANGED <<db, call, got, ch, loop, closed, shut>>

-----------------------------------------------------------------------------
(* The coalescer's goroutine.                                               *)

At(l) == loop.at = l
Jobs  == Len(loop.batch)
Job   == loop.batch[loop.next]
\* Start over with the batch at l, answering rs.
From(l, rs) == [loop EXCEPT !.at = l, !.next = 1, !.results = rs]

\* The outer loop takes the first job ...
Receive ==
    /\ At("wait") /\ ch # <<>>
    /\ loop' = [loop EXCEPT !.at = "drain", !.batch = Append(@, Head(ch))]
    /\ ch' = Tail(ch)
    /\ UNCHANGED <<db, conn, tx, pc, call, got, ans, closed, shut>>

\* Mutant: an outer loop that receives without asking whether the channel is closed.
ExitNever ==
    /\ At("wait") /\ ch = <<>> /\ closed
    /\ loop' = [loop EXCEPT !.nils = IF @ < MaxNils THEN @ + 1 ELSE @]
    /\ UNCHANGED <<db, conn, tx, pc, call, got, ans, ch, closed, shut>>

\* ... or ends, when the channel is closed and empty.
Exit ==
    /\ At("wait") /\ ch = <<>> /\ closed
    /\ loop' = [loop EXCEPT !.at = "exited"]
    /\ UNCHANGED <<db, conn, tx, pc, call, got, ans, ch, closed, shut>>

\* The inner loop takes what is queued without waiting ...
Drain ==
    /\ At("drain") /\ ch # <<>>
    /\ loop' = [loop EXCEPT !.batch = Append(@, Head(ch))]
    /\ ch' = Tail(ch)
    /\ UNCHANGED <<db, conn, tx, pc, call, got, ans, closed, shut>>

\* ... for ever if the channel is closed: the receive is always ready, with nil.
DrainNil ==
    /\ At("drain") /\ ch = <<>> /\ closed
    /\ loop' = [loop EXCEPT !.nils = IF @ < MaxNils THEN @ + 1 ELSE @]
    /\ UNCHANGED <<db, conn, tx, pc, call, got, ans, ch, closed, shut>>

Drained ==
    /\ At("drain") /\ ch = <<>> /\ ~closed
    /\ loop' = From("begin", <<>>)
    /\ UNCHANGED <<db, conn, tx, pc, call, got, ans, ch, closed, shut>>

\* runBatch: begin one transaction for the whole batch ...
BatchBegin ==
    /\ At("begin") /\ conn = Free
    /\ conn' = Loop /\ tx' = db
    /\ loop' = From("apply", <<>>)
    /\ UNCHANGED <<db, pc, call, got, ans, ch, closed, shut>>

\* Mutant: the results are left unset when the transaction does not begin.
BatchBeginFailsUnset ==
    /\ At("begin")
    /\ loop' = From("reply", [i \in 1 .. Jobs |-> NoAnswer])
    /\ UNCHANGED <<db, conn, tx, pc, call, got, ans, ch, closed, shut>>

\* ... or fail every job of it ...
BatchBeginFails ==
    /\ At("begin")
    /\ loop' = From("reply", [i \in 1 .. Jobs |-> Failed])
    /\ UNCHANGED <<db, conn, tx, pc, call, got, ans, ch, closed, shut>>

\* Mutant: the transaction's view reads through the reader pool.
ApplyReadingCommitted ==
    /\ At("apply") /\ loop.next <= Jobs
    /\ tx' = Effect(tx, Job, call[Job])
    /\ loop' = [loop EXCEPT !.next = @ + 1,
                            !.results = Append(@, Report(db, call[Job]))]
    /\ UNCHANGED <<db, conn, pc, call, got, ans, ch, closed, shut>>

\* ... apply the jobs in order; a conflict is a result like any other ...
Apply ==
    /\ At("apply") /\ loop.next <= Jobs
    /\ tx' = Effect(tx, Job, call[Job])
    /\ loop' = [loop EXCEPT !.next = @ + 1,
                            !.results = Append(@, Report(tx, call[Job]))]
    /\ UNCHANGED <<db, conn, pc, call, got, ans, ch, closed, shut>>

\* ... commit once, after the last ...
BatchCommit ==
    /\ At("apply") /\ loop.next > Jobs
    /\ db' = tx /\ conn' = Free
    /\ loop' = From("reply", loop.results)
    /\ UNCHANGED <<tx, pc, call, got, ans, ch, closed, shut>>

\* ... and when a statement or the commit fails, roll back and isolate the jobs.
BatchFails ==
    /\ At("apply")
    /\ conn' = Free /\ tx' = db
    /\ loop' = From("isolate", <<>>)
    /\ UNCHANGED <<db, pc, call, got, ans, ch, closed, shut>>

\* Mutant: the batch slice is not reset.
NextJobKeepingBatch(l) == loop' = IF loop.next = Jobs THEN From("wait", <<>>)
                                  ELSE [loop EXCEPT !.at = l, !.next = @ + 1]

\* The loop goes on to the next job at l or, after the last, resets the batch and
\* waits for the next.
NextJob(l) == loop' = IF loop.next = Jobs
                      THEN [From("wait", <<>>) EXCEPT !.batch = <<>>]
                      ELSE [loop EXCEPT !.at = l, !.next = @ + 1]

Reply ==
    /\ At("reply")
    /\ Return(Job, loop.results[loop.next])
    /\ NextJob("reply")
    /\ UNCHANGED <<db, conn, tx, call, got, ch, closed, shut>>

\* runIsolated: one transaction per job.
IsolatedBegin ==
    /\ At("isolate") /\ conn = Free
    /\ conn' = Loop /\ tx' = db
    /\ loop' = [loop EXCEPT !.at = "isolated"]
    /\ UNCHANGED <<db, pc, call, got, ans, ch, closed, shut>>

IsolatedCommit ==
    /\ At("isolated")
    /\ db' = Effect(tx, Job, call[Job]) /\ tx' = db' /\ conn' = Free
    /\ Return(Job, Report(tx, call[Job]))
    /\ NextJob("isolate")
    /\ UNCHANGED <<call, got, ch, closed, shut>>

\* Mutant: the retry moves on without answering the job that failed.
IsolatedFailsSilently ==
    /\ At("isolate") \/ At("isolated")
    /\ conn' = IF At("isolated") THEN Free ELSE conn
    /\ tx'   = IF At("isolated") THEN db ELSE tx
    /\ NextJob("isolate")
    /\ UNCHANGED <<db, pc, call, got, ans, ch, closed, shut>>

\* A begin, a statement or a commit fails: that job alone gets the error.
IsolatedFails ==
    /\ At("isolate") \/ At("isolated")
    /\ conn' = IF At("isolated") THEN Free ELSE conn
    /\ tx'   = IF At("isolated") THEN db ELSE tx
    /\ Return(Job, Failed)
    /\ NextJob("isolate")
    /\ UNCHANGED <<db, call, got, ch, closed, shut>>

-----------------------------------------------------------------------------
(* Server.Stop closes the store, after its deadline even with requests in   *)
(* flight: Close closes the channel, waits for the coalescer to exit, and   *)
(* closes the pools.                                                        *)

Close ==
    /\ ~closed
    /\ closed' = TRUE
    /\ UNCHANGED <<db, conn, tx, pc, call, got, ans, ch, loop, shut>>

ClosePools ==
    /\ closed /\ At("exited") /\ ~shut
    /\ shut' = TRUE
    /\ UNCHANGED <<db, conn, tx, pc, call, got, ans, ch, loop, closed>>

Caller(w) ==
    \/ Submit(w) \/ SubmitClosed(w)
    \/ Exec(w) \/ Get(w) \/ ExecDelete(w) \/ ExecDeleteOrg(w)
    \/ TxBegin(w) \/ TxFn(w) \/ TxCommit(w) \/ CallFails(w)

Coalescer ==
    \/ Receive \/ Exit \/ Drain \/ DrainNil \/ Drained
    \/ BatchBegin \/ BatchBeginFails \/ Apply \/ BatchCommit \/ BatchFails \/ Reply
    \/ IsolatedBegin \/ IsolatedCommit \/ IsolatedFails

\* The server has stopped.
Stopped ==
    /\ shut /\ \A w \in Writers : pc[w] = "done"
    /\ UNCHANGED vars

Next ==
    \/ /\ \/ \E w \in Writers : Start(w) \/ Caller(w)
          \/ Coalescer
          \/ Close \/ ClosePools
       /\ History
    \/ Stopped

\* A goroutine that can run does; nobody has to call, or to stop the server.
Fairness ==
    /\ WF_vars(Coalescer /\ History)
    /\ WF_vars(ClosePools /\ History)
    /\ \A w \in Writers : WF_vars(Caller(w) /\ History)

Spec == Init /\ [][Next]_vars /\ Fairness

-----------------------------------------------------------------------------

TypeOK ==
    /\ db \in Databases /\ tx \in Databases
    /\ conn \in Writers \cup {Free, Loop}
    /\ pc \in [Writers -> {"idle", "submit", "queued", "exec", "delete", "objects",
                           "blobs", "begin", "fn", "commit", "done"}]
    /\ call \in [Writers -> Calls \cup {NoCall}]
    /\ got \in [Writers -> Values \cup {None}]
    /\ ans \in [Writers -> Answers \cup {NoAnswer}]
    /\ ch \in Seq(Writers) /\ Len(ch) <= Cap
    /\ loop \in [at : {"wait", "drain", "begin", "apply", "reply", "isolate", "isolated",
                       "exited"},
                 batch : Seq(Writers), next : Nat, results : Seq(Answers), nils : 0 .. MaxNils]
    /\ loop.next \in 1 .. Jobs + 1
    /\ closed \in BOOLEAN /\ shut \in BOOLEAN
    /\ seen \in [Writers -> SUBSET (Values \cup {None})]

\* The batch's results are decided by its commit, before they are delivered.
Decided == [w \in Writers |->
    IF At("reply") /\ \E i \in loop.next .. Jobs : loop.batch[i] = w
    THEN loop.results[CHOOSE i \in loop.next .. Jobs : loop.batch[i] = w]
    ELSE ans[w]]

Abstract == INSTANCE AtomicStore WITH ans <- Decided

\* With group commit the backend keeps its promise: every write takes effect at
\* one instant during its call, reports what it found then, and has had no effect
\* if it fails.  The commit contract of WithGroupCommit, with runBatch's and
\* runIsolated's retries.
Atomic == Abstract!Spec

\* What a call reports was so at some moment while it ran: a write that succeeds
\* was stored (or its row absent, after a delete), a create that conflicts met a
\* row, and a delete returns a value its row held.  What the direct path still promises.
ReportsWereTrue ==
    \A w \in Writers : pc[w] = "done" /\ ans[w].err \in {"nil", "conflict"} =>
        LET op == call[w].op IN
        IF ans[w].err = "conflict" THEN seen[w] # {None}
        ELSE /\ op \in {"put", "create", "tx"} => w \in seen[w]
             /\ op \in {"create", "tx", "delete", "drop", "deleteOrg"} => None \in seen[w]
             /\ op \in {"delete", "deleteOrg"} => ans[w].old \in seen[w]

\* A stored value is reported deleted by one Delete at most.  watch.go promises
\* its observers every change exactly once, and Org.Delete reports what the
\* backend says existed.
DeletesReportOnce ==
    \A v, w \in Writers :
        /\ call[v].op = "delete" /\ call[w].op = "delete"
        /\ call[v].row = call[w].row
        /\ ans[v].old = ans[w].old /\ ans[v].old # None
        => v = w

\* While the store is open every write is answered: a job is never forgotten by
\* the batch it rode, by a failed batch or by its retry.
Answered ==
    \A w \in Writers : InFlight(w) ~> (pc[w] = "done" \/ closed)

\* A close that finds nothing queued ends the coalescer: a batch it finds running
\* is finished and answered first.
QuietClose == (closed /\ ch = <<>> /\ ~At("drain")) ~> At("exited")

\* close "stops the writer goroutine and waits for it to drain": it returns.
CloseReturns == closed ~> At("exited")

=============================================================================
