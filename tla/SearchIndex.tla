---------------------------- MODULE SearchIndex -----------------------------
(***************************************************************************)
(* Search over one collection of one organization (its nodes), through an   *)
(* inverted index that is built on first use and maintained from the        *)
(* store's write stream.                                                    *)
(*                                                                          *)
(* A write is two or more steps: it lands in the store, and the goroutine   *)
(* that made it then reports it, looking up the index and applying the      *)
(* event under the index's lock.  A transaction reports its writes, in      *)
(* order, once it has committed.  Deleting the organization drops the       *)
(* index.  A search gets or builds the index, resolves the query on it,     *)
(* reads the documents it names, drops the ones the actor may not read and  *)
(* answers with a window of the rest.                                       *)
(*                                                                          *)
(* docs maps ids to documents, sets of leaves; Garbled is a document that   *)
(* does not decode.  Index objects are Indexes; registry is the one         *)
(* searches and reports find.                                               *)
(***************************************************************************)
EXTENDS SearchQuery

CONSTANTS
    Procs,          \* goroutines
    NumIds,         \* ids of documents are 1..NumIds: the order rows are sorted in
    Documents,      \* what may be stored under an id
    Requests,       \* the requests clients may send
    Populations,    \* what may be stored at the start
    Indexes,        \* bound: index objects made in a behaviour
    Bulk,           \* rows from which ACLs are read in bulk (bulkThreshold)
    MaxCache,       \* entries the flatten cache holds (maxSearchCacheEntries)
    MaxInt,         \* the largest int; sums wrap past it
    MaxRequests,    \* bound: requests served in a behaviour
    MaxErrors,      \* bound: store calls that fail
    Garbled, NoDoc, NoIndex, Nobody

ASSUME NaturalBounds ==
    {NumIds, MaxRequests, MaxErrors, Bulk, MaxCache, MaxInt} \subseteq Nat

ASSUME Distinct ==
    NoIndex \notin Indexes /\ Nobody \notin Procs /\ NoDoc \notin Documents

Ids == 1 .. NumIds
Ops == {"put", "delete", "tx", "deleteOrg", "setACL", "search"}

\* A transaction reports at least one write.
ASSUME WellFormed ==
    /\ Requests # {}
    /\ \A r \in Requests :
        /\ r.op \in Ops /\ r.id \in Ids
        /\ r.op = "put" => r.doc \in Documents
        /\ r.op = "tx" => r.writes \in Seq([id : Ids, doc : Documents]) \ {<<>>}
    /\ \A ds \in Populations : \E S \in SUBSET Ids : ds \in [S -> Documents]

VARIABLES
    docs,           \* the collection
    hidden,         \* ids whose ACL does not let the searching actor read
    registry, idx,  \* searchIndexes.m and the index objects
    cache,          \* searchCache: id -> the document it was made from, its merged view
    pc, req, loc, out,
    served, errors,
    crossed,        \* history: ids written while another write of them was unreported
    touched,        \* history: ids in flux at some moment of p's request
    snap            \* history: documents and hidden ids when p's request began

stored  == <<docs, hidden>>
indexes == <<registry, idx>>
vars    == <<docs, hidden, registry, idx, cache, pc, req, loc, out, served, errors,
             crossed, touched, snap>>

Busy == {p \in Procs : pc[p] # "idle"}
Live == DOMAIN docs

NoLocals == [ev |-> <<>>, ix |-> NoIndex, code |-> <<>>, ids |-> {}, todo |-> {}, rows |-> {},
             whole |-> TRUE]
NoAnswer == [st |-> 0, total |-> 0, rows |-> {}, page |-> <<>>, data |-> <<>>]
Answer(c) == [NoAnswer EXCEPT !.st = c]

Reply(p, a) == out' = [out EXCEPT ![p] = a] /\ pc' = [pc EXCEPT ![p] = "idle"]
Goto(p, l)  == pc' = [pc EXCEPT ![p] = l] /\ UNCHANGED out
Local(p, l) == loc' = [loc EXCEPT ![p] = l]
Fixed       == UNCHANGED <<req, served, errors, snap>>
Flux        == UNCHANGED <<crossed, touched>>

-----------------------------------------------------------------------------
(* collIndex: which documents it holds, their terms, and the two inverted   *)
(* maps kept in step with those terms.                                      *)

newCollIndex == [all |-> {}, docTerms |-> [i \in Ids |-> {}], postings |-> {}, fieldDocs |-> {}]

\* retract removes exactly what the document contributed before.
retract(x, id) ==
    [all       |-> x.all,
     docTerms  |-> [x.docTerms EXCEPT ![id] = {}],
     postings  |-> x.postings \ {<<t[1], t[2], id>> : t \in x.docTerms[id]},
     fieldDocs |-> x.fieldDocs \ {<<t[1], id>> : t \in x.docTerms[id]}]

remove(x, id) == [retract(x, id) EXCEPT !.all = @ \ {id}]

\* The terms of a document whose old ones are out of the index x.
addTerms(x, id, fields) ==
    [all       |-> x.all \cup {id},
     docTerms  |-> [x.docTerms EXCEPT ![id] = fields],
     postings  |-> x.postings \cup {<<t[1], t[2], id>> : t \in fields},
     fieldDocs |-> x.fieldDocs \cup {<<t[1], id>> : t \in fields}]

\* Mutant: a rewrite adds the new terms and leaves the old ones where they are.
putNoRetract(x, id, fields) == addTerms(x, id, fields)

put(x, id, fields) == addTerms(retract(x, id), id, fields)

putRaw(x, id, doc) ==
    IF doc = Garbled THEN remove(x, id) ELSE put(x, id, Flatten(nodeSearchDoc(doc)))

\* The documents ds put into x in the order of their ids, as Range yields them.
PutAll(x, ds) ==
    LET upTo[id \in 0 .. NumIds] ==
            IF id = 0 THEN x
            ELSE IF id \in DOMAIN ds THEN putRaw(upTo[id - 1], id, ds[id]) ELSE upTo[id - 1]
    IN  upTo[NumIds]

-----------------------------------------------------------------------------

Init ==
    /\ docs \in Populations
    /\ hidden = {}
    /\ registry = NoIndex
    /\ idx = [x \in Indexes |-> [lock |-> Nobody, used |-> FALSE, whole |-> FALSE, c |-> newCollIndex]]
    /\ cache = [i \in {} |-> NoDoc]
    /\ pc = [p \in Procs |-> "idle"]
    /\ req \in [Procs -> {CHOOSE r \in Requests : TRUE}]
    /\ loc = [p \in Procs |-> NoLocals]
    /\ out = [p \in Procs |-> NoAnswer]
    /\ served = 0 /\ errors = 0 /\ crossed = {}
    /\ touched = [p \in Procs |-> {}]
    /\ snap = [p \in Procs |-> [docs |-> cache, hidden |-> {}]]

Pending(p) == {loc[p].ev[i].id : i \in DOMAIN loc[p].ev}
InFlux     == UNION {Pending(p) : p \in Busy}

Begin(p) ==
    /\ pc[p] = "idle" /\ served < MaxRequests
    /\ \E r \in Requests : /\ req' = [req EXCEPT ![p] = r]
                           /\ pc' = [pc EXCEPT ![p] = r.op]
    /\ Local(p, NoLocals)
    /\ out' = [out EXCEPT ![p] = NoAnswer]
    /\ touched' = [touched EXCEPT ![p] = InFlux]
    /\ snap' = [snap EXCEPT ![p] = [docs |-> docs, hidden |-> hidden]]
    /\ served' = served + 1
    /\ UNCHANGED <<stored, indexes, cache, errors, crossed>>

\* The write of ds (over the ids S) by p, which owes the reports evs.
Land(p, S, ds, evs) ==
    /\ docs' = ds
    /\ Local(p, [loc[p] EXCEPT !.ev = evs])
    /\ Goto(p, "report")
    /\ crossed' = crossed \cup (S \cap UNION {Pending(q) : q \in Busy \ {p}})
    /\ touched' = [q \in Procs |-> IF q \in Busy THEN touched[q] \cup S ELSE touched[q]]
    /\ UNCHANGED <<hidden, indexes, cache>>

Event(id, doc) == [id |-> id, doc |-> doc]
With(ds, id, doc) == [x \in DOMAIN ds \cup {id} |-> IF x = id THEN doc ELSE ds[x]]

\* Org.Put (and Create of an absent id): store, then note.
Put(p) ==
    /\ pc[p] = "put" /\ Fixed
    /\ Land(p, {req[p].id}, With(docs, req[p].id, req[p].doc), <<Event(req[p].id, req[p].doc)>>)

\* Org.Delete: nothing is noted when there was nothing to remove.
Delete(p) ==
    /\ pc[p] = "delete" /\ Fixed
    /\ \/ /\ req[p].id \notin Live
          /\ Reply(p, Answer(404)) /\ Flux /\ UNCHANGED <<stored, indexes, cache, loc>>
       \/ /\ req[p].id \in Live
          /\ Land(p, {req[p].id}, [x \in Live \ {req[p].id} |-> docs[x]],
                  <<Event(req[p].id, NoDoc)>>)

\* Store.Tx: its writes land together; txBuffer flushes their events in order.
Commit(p) ==
    /\ pc[p] = "tx" /\ Fixed
    /\ LET last(i) == CHOOSE k \in DOMAIN req[p].writes :
                        /\ req[p].writes[k].id = i
                        /\ \A m \in DOMAIN req[p].writes : req[p].writes[m].id = i => m <= k
           S == {req[p].writes[k].id : k \in DOMAIN req[p].writes}
       IN Land(p, S, [x \in Live \cup S |-> IF x \in S THEN req[p].writes[last(x)].doc ELSE docs[x]],
               req[p].writes)

\* Store.DeleteOrg: everything goes, and one event says so.
DeleteOrg(p) ==
    /\ pc[p] = "deleteOrg" /\ Fixed
    /\ docs' = [x \in {} |-> NoDoc] /\ hidden' = {}
    /\ Local(p, [loc[p] EXCEPT !.ev = <<Event(0, NoDoc)>>])
    /\ Goto(p, "report")
    /\ crossed' = crossed \cup UNION {Pending(q) : q \in Busy \ {p}}
    /\ touched' = [q \in Procs |-> IF q \in Busy THEN touched[q] \cup Ids ELSE touched[q]]
    /\ UNCHANGED <<indexes, cache>>

\* The read right of one document is taken from, or given back to, the actor.
SetACL(p) ==
    /\ pc[p] = "setACL" /\ Fixed
    /\ hidden' = SymDiff(hidden, {req[p].id})
    /\ touched' = [q \in Procs |-> IF q \in Busy THEN touched[q] \cup {req[p].id} ELSE touched[q]]
    /\ Reply(p, Answer(200))
    /\ UNCHANGED <<docs, indexes, cache, loc, crossed>>

\* The first event is done with; the handler answers after the last.
Reported(p) ==
    /\ Local(p, [loc[p] EXCEPT !.ev = Tail(@), !.ix = NoIndex])
    /\ IF Len(loc[p].ev) = 1 THEN Reply(p, Answer(200)) ELSE Goto(p, "report")

\* searchIndexes.observe, up to the index's lock; dropOrg for a deleted
\* organization.  A collection without an index is ignored.
Observe(p) ==
    /\ pc[p] = "report" /\ Fixed /\ Flux /\ UNCHANGED <<stored, idx, cache>>
    /\ \/ /\ Head(loc[p].ev).id = 0
          /\ registry' = NoIndex /\ Reported(p)
       \/ /\ Head(loc[p].ev).id # 0 /\ registry = NoIndex
          /\ Reported(p) /\ UNCHANGED registry
       \/ /\ Head(loc[p].ev).id # 0 /\ registry # NoIndex
          /\ Local(p, [loc[p] EXCEPT !.ix = registry]) /\ Goto(p, "apply")
          /\ UNCHANGED registry

Unlocked(p) == idx[loc[p].ix].lock = Nobody

ObserveApply(p) ==
    /\ pc[p] = "apply" /\ Unlocked(p) /\ Fixed /\ Flux /\ UNCHANGED <<stored, registry, cache>>
    /\ LET e == Head(loc[p].ev)
       IN idx' = [idx EXCEPT ![loc[p].ix].c = IF e.doc = NoDoc THEN remove(@, e.id)
                                              ELSE putRaw(@, e.id, e.doc)]
    /\ Reported(p)

-----------------------------------------------------------------------------
(* runSearch.                                                               *)

SearchStep(p) == Fixed /\ Flux /\ UNCHANGED <<stored, indexes, cache>>

\* The query is parsed; match-all needs no index; get looks for one.
StartSearch(p) ==
    /\ pc[p] = "search" /\ SearchStep(p)
    /\ LET q == Parse(req[p].query)
       IN IF ~q.ok THEN Reply(p, Answer(400)) /\ UNCHANGED loc
          ELSE /\ Local(p, [loc[p] EXCEPT !.code = q.code, !.ix = registry])
               /\ Goto(p, IF IsMatchAll(q.code) THEN "collectAll"
                          ELSE IF registry # NoIndex THEN "plan" ELSE "insert")

\* searchIndexes.get without an index: look again under the registry's lock,
\* and register a new one, locked, before reading the collection.
Insert(p) ==
    /\ pc[p] = "insert" /\ Fixed /\ Flux /\ UNCHANGED <<stored, cache>>
    /\ \/ /\ registry # NoIndex
          /\ Local(p, [loc[p] EXCEPT !.ix = registry]) /\ Goto(p, "plan")
          /\ UNCHANGED indexes
       \/ /\ registry = NoIndex
          /\ \E x \in Indexes :
                /\ ~idx[x].used /\ \A y \in Indexes : y < x => idx[y].used
                /\ registry' = x
                /\ idx' = [idx EXCEPT ![x] = [lock |-> p, used |-> TRUE, whole |-> FALSE, c |-> @.c]]
                /\ Local(p, [loc[p] EXCEPT !.ix = x])
          /\ Goto(p, "build")

\* Mutant: the lock taken before the index was registered is not released.
BuildLocked(p) ==
    /\ pc[p] = "build" /\ Fixed /\ Flux /\ UNCHANGED <<stored, registry, cache, loc>>
    /\ idx' = [idx EXCEPT ![loc[p].ix] =
                [lock |-> @.lock, used |-> TRUE, whole |-> TRUE, c |-> PutAll(@.c, docs)]]
    /\ Goto(p, "plan")

\* The collection is read into the locked index.
Build(p) ==
    /\ pc[p] = "build" /\ Fixed /\ Flux /\ UNCHANGED <<stored, registry, cache, loc>>
    /\ idx' = [idx EXCEPT ![loc[p].ix] =
                [lock |-> Nobody, used |-> TRUE, whole |-> TRUE, c |-> PutAll(@.c, docs)]]
    /\ Goto(p, "plan")

\* Mutant: the failed index stays registered.
BuildFailsRegistered(p) ==
    /\ pc[p] = "build" /\ errors < MaxErrors
    /\ \E n \in Ids :
        idx' = [idx EXCEPT ![loc[p].ix] =
                  [lock |-> Nobody, used |-> TRUE, whole |-> FALSE,
                   c |-> PutAll(@.c, [x \in {i \in Live : i < n} |-> docs[x]])]]
    /\ errors' = errors + 1
    /\ Reply(p, Answer(500))
    /\ UNCHANGED <<stored, registry, cache, req, loc, served, crossed, touched, snap>>

\* The Range behind a build, which goes by key, fails on the way: nothing
\* half-built is left for the next caller to find.
BuildFails(p) ==
    /\ pc[p] = "build" /\ errors < MaxErrors
    /\ \E n \in Ids :
        idx' = [idx EXCEPT ![loc[p].ix] =
                  [lock |-> Nobody, used |-> TRUE, whole |-> FALSE,
                   c |-> PutAll(@.c, [x \in {i \in Live : i < n} |-> docs[x]])]]
    /\ registry' = NoIndex
    /\ errors' = errors + 1
    /\ Reply(p, Answer(500))
    /\ UNCHANGED <<stored, cache, req, loc, served, crossed, touched, snap>>

\* findMatches: resolve the query under the index's read lock.  fetchMatches
\* scans when the ids are a quarter of the collection or more.
ResolvePlan(p) ==
    /\ pc[p] = "plan" /\ Unlocked(p) /\ SearchStep(p)
    /\ LET x == idx[loc[p].ix].c
           ids == Plan(loc[p].code, x)
       IN /\ Local(p, [loc[p] EXCEPT !.ids = ids, !.todo = ids, !.whole = idx[loc[p].ix].whole])
          /\ Goto(p, IF x.all # {} /\ Cardinality(ids) * 4 >= Cardinality(x.all) THEN "fetchScan"
                     ELSE IF ids # {} THEN "fetchEach" ELSE "page")

Row(id) == [id |-> id, doc |-> docs[id]]

\* filterReadable: one row at a time, or from one read of all ACLs.
Fetched(p, rows) ==
    /\ Local(p, [loc[p] EXCEPT !.rows = rows, !.todo = {r.id : r \in rows}])
    /\ Goto(p, IF rows = {} \/ req[p].admin THEN "page"
               ELSE IF Cardinality(rows) <= Bulk THEN "filterEach" ELSE "filterBulk")

CollectAll(p) ==
    /\ pc[p] = "collectAll" /\ SearchStep(p)
    /\ Fetched(p, {Row(id) : id \in Live})

\* Mutant: the scan returns every document it meets.
FetchScanAll(p) ==
    /\ pc[p] = "fetchScan" /\ SearchStep(p)
    /\ Fetched(p, {Row(id) : id \in Live})

FetchScan(p) ==
    /\ pc[p] = "fetchScan" /\ SearchStep(p)
    /\ Fetched(p, {Row(id) : id \in loc[p].ids \cap Live})

FetchEach(p) ==
    /\ pc[p] = "fetchEach" /\ SearchStep(p)
    /\ \E id \in loc[p].todo :
        LET rows == loc[p].rows \cup (IF id \in Live THEN {Row(id)} ELSE {})
        IN IF loc[p].todo = {id} THEN Fetched(p, rows)
           ELSE /\ Local(p, [loc[p] EXCEPT !.rows = rows, !.todo = @ \ {id}])
                /\ UNCHANGED <<pc, out>>

FilterEach(p) ==
    /\ pc[p] = "filterEach" /\ SearchStep(p)
    /\ \E id \in loc[p].todo :
        /\ Local(p, [loc[p] EXCEPT !.todo = @ \ {id},
                       !.rows = IF id \in hidden THEN {r \in @ : r.id # id} ELSE @])
        /\ IF loc[p].todo = {id} THEN Goto(p, "page") ELSE UNCHANGED <<pc, out>>

FilterBulk(p) ==
    /\ pc[p] = "filterBulk" /\ SearchStep(p)
    /\ Local(p, [loc[p] EXCEPT !.rows = {r \in @ : r.id \notin hidden}])
    /\ Goto(p, "page")

\* Mutant: the window [start, start + rows) of total rows, computed with an int sum.
WindowBySum(start, rows, total) ==
    LET sum == (start + rows) % (MaxInt + 1)
        lo  == Min({start, total})
    IN [lo |-> lo, hi |-> Max({lo, Min({sum, total})})]

\* The window as runSearch clamps it, never adding start and rows.
Window(start, rows, total) ==
    LET lo == Min({start, total})
    IN [lo |-> lo, hi |-> IF rows <= total - lo THEN lo + rows ELSE total]

\* searchDoc: a cached view is used if it was made from the same bytes; a new
\* one is stored, into an empty cache when the old one is full.
Lookup(c, r) == IF r.id \in DOMAIN c /\ c[r.id].raw = r.doc THEN c[r.id].view
                ELSE nodeSearchDoc(r.doc)
Remember(c, r) ==
    IF r.doc = Garbled \/ (r.id \in DOMAIN c /\ c[r.id].raw = r.doc) THEN c
    ELSE LET base == IF Cardinality(DOMAIN c) >= MaxCache THEN [x \in {} |-> NoDoc] ELSE c
         IN With(base, r.id, [raw |-> r.doc, view |-> nodeSearchDoc(r.doc)])

\* traversePath over the merged view: the value or the map found at a path.
traversePath(view, path) ==
    {[l EXCEPT !.path = SubSeq(@, Len(path) + 1, Len(@))] : l \in {l \in view : IsPrefix(path, l.path)}}

\* Rows by id, windowed; with a projection, each row's value at the path.  The
\* cache operations of a request are one step: in the code requests that store
\* views at the same moment may pass the bound on the cache, never the answers.
Page(p) ==
    /\ pc[p] = "page" /\ Fixed /\ Flux /\ UNCHANGED <<stored, indexes, loc>>
    /\ LET sorted == SetToSortSeq(loc[p].rows, LAMBDA a, b : a.id < b.id)
           w == Window(req[p].start, req[p].rows, Len(sorted))
           page == SubSeq(sorted, w.lo + 1, w.hi)
           data == IF req[p].path = <<>> THEN <<>>
                   ELSE [i \in DOMAIN page |->
                           IF page[i].doc = Garbled THEN {}
                           ELSE traversePath(Lookup(cache, page[i]), req[p].path)]
       IN /\ cache' = IF req[p].path = <<>> THEN cache ELSE FoldLeft(Remember, cache, page)
          /\ Reply(p, [st |-> 200, total |-> Len(sorted), rows |-> loc[p].rows,
                       page |-> page, data |-> data])

\* Any other call to the store may fail; nothing is written, nothing reported.
StoreError(p) ==
    /\ pc[p] \in {"put", "delete", "tx", "deleteOrg", "setACL", "collectAll",
                  "fetchScan", "fetchEach", "filterEach", "filterBulk"}
    /\ errors < MaxErrors
    /\ errors' = errors + 1
    /\ Reply(p, Answer(500))
    /\ UNCHANGED <<stored, indexes, cache, req, loc, served, crossed, touched, snap>>

Step(p) ==
    \/ Put(p) \/ Delete(p) \/ Commit(p) \/ DeleteOrg(p) \/ SetACL(p)
    \/ Observe(p) \/ ObserveApply(p)
    \/ StartSearch(p) \/ Insert(p) \/ Build(p) \/ ResolvePlan(p)
    \/ CollectAll(p) \/ FetchScan(p) \/ FetchEach(p)
    \/ FilterEach(p) \/ FilterBulk(p) \/ Page(p)

\* The bound on requests is used up; nothing is left in flight.
Done == served = MaxRequests /\ Busy = {} /\ UNCHANGED vars

Next == (\E p \in Procs : Begin(p) \/ Step(p) \/ BuildFails(p) \/ StoreError(p)) \/ Done

Spec == Init /\ [][Next]_vars

-----------------------------------------------------------------------------
(* Properties.                                                              *)

\* Every variable has its type, and only a goroutine that builds an index
\* holds its lock.
TypeOK ==
    /\ Live \subseteq Ids /\ hidden \subseteq Ids
    /\ registry \in Indexes \cup {NoIndex}
    /\ \A x \in Indexes :
        /\ idx[x].c.all \subseteq Ids
        /\ idx[x].lock \in Procs \cup {Nobody}
        /\ \A p \in Procs : idx[x].lock = p <=> pc[p] = "build" /\ loc[p].ix = x
    /\ DOMAIN cache \subseteq Ids /\ Cardinality(DOMAIN cache) <= MaxCache
    /\ req \in [Procs -> Requests]
    /\ \A p \in Procs : /\ out[p].st \in {0, 200, 400, 404, 500}
                        /\ {r.id : r \in loc[p].rows} \subseteq Ids
    /\ served \in 0..MaxRequests /\ errors \in 0..MaxErrors
    /\ crossed \subseteq Ids \cup {0}

Decodable(ds) == {i \in DOMAIN ds : ds[i] # Garbled}
FieldsOf(doc) == Flatten(nodeSearchDoc(doc))

\* The registered index holds exactly what the collection holds of document i.
IndexHolds(i) ==
    LET x == idx[registry].c
        terms == IF i \in Decodable(docs) THEN FieldsOf(docs[i]) ELSE {}
    IN /\ i \in x.all <=> i \in Decodable(docs)
       /\ {<<e[1], e[2]>> : e \in {e \in x.postings : e[3] = i}} = terms
       /\ {e[1] : e \in {e \in x.fieldDocs : e[2] = i}} = {t[1] : t \in terms}

AllReported == registry # NoIndex /\ idx[registry].lock = Nobody /\ InFlux = {}

\* Once every write is reported, the registered index holds exactly what the
\* collection holds of each document, unless two writes of that document
\* landed before either was reported (or its organization was deleted then):
\* observe applies events in the order they are reported, not landed.
IndexCurrent == AllReported => \A i \in Ids \ crossed : IndexHolds(i)

\* What searchindex.go says of the index without that exception: it is "kept
\* current from the store's write stream".
IndexKeptCurrent == AllReported => \A i \in Ids : IndexHolds(i)

\* "Leave nothing half-built behind for the next caller to trust" (get): an
\* index that can be found in the registry and is not being built was built
\* from a complete read.
RegisteredIsWhole ==
    (registry # NoIndex /\ idx[registry].lock = Nobody) => idx[registry].whole

\* p's search found exactly the documents its query's tokens mean, among those
\* the actor may read, as far as nothing about a document changed or was
\* unreported during the search.
FoundExactly(p) ==
    LET was == snap[p]
        found == {r.id : r \in out[p].rows}
    IN \A i \in Ids \ (touched[p] \cup crossed) :
        i \in found <=>
            /\ i \in DOMAIN was.docs
            /\ i \notin was.hidden \/ req[p].admin
            /\ IsMatchAll(loc[p].code)
               \/ (was.docs[i] # Garbled /\ Means(req[p].query, FieldsOf(was.docs[i])))

Searched == {p \in Procs \ Busy : req[p].op = "search" /\ out[p].st = 200}

\* A search finds exactly what it should (runSearch), unless it got hold of an
\* index before the build of it failed.
ExactResults == \A p \in Searched : loc[p].whole => FoundExactly(p)

\* Without that exception, as get says: nothing half-built is left "for the next
\* caller to trust", one that was waiting for the build included.
NothingHalfBuiltTrusted == \A p \in Searched : FoundExactly(p)

\* "The two must agree exactly" (plan.go): on the index of the collection,
\* every query's plan is the set of documents that match it.
PlanAgrees ==
    Busy = {} =>
        \A r \in Requests :
            (r.op = "search" /\ Parse(r.query).ok) =>
                Plan(Parse(r.query).code, PutAll(newCollIndex, docs))
                    = {i \in Decodable(docs) : Matches(Parse(r.query).code, FieldsOf(docs[i]))}

\* A page holds the rows from start on, in the order of their ids, and no more
\* than asked for, start and rows being any ints; a projected value comes from
\* the row's own document, from the highest precedence level that has any.
PageExact ==
    \A p \in Searched :
        LET page == out[p].page
            before(r) == Cardinality({s \in out[p].rows : s.id < r.id})
            attrs(doc) == UNION {Level(doc, Levels[k]) : k \in DOMAIN Levels}
            winning(doc) == UNION {{l \in Level(doc, Levels[k]) :
                                     \A m \in DOMAIN Levels, h \in attrs(doc) :
                                        (m > k /\ h \in Level(doc, Levels[m])) => ~Related(l.path, h.path)}
                                   : k \in DOMAIN Levels}
        IN /\ ToSet(page) = {r \in out[p].rows : before(r) >= req[p].start
                                                 /\ before(r) < req[p].start + req[p].rows}
           /\ \A i, j \in DOMAIN page : i < j => page[i].id < page[j].id
           /\ req[p].path # <<>> =>
                \A i \in DOMAIN page :
                    (page[i].doc # Garbled
                     /\ req[p].path[1] \in {l.path[1] : l \in attrs(page[i].doc)}) =>
                        out[p].data[i] = traversePath(winning(page[i].doc), req[p].path)

=============================================================================
