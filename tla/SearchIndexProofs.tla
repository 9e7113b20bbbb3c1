------------------------- MODULE SearchIndexProofs --------------------------
(***************************************************************************)
(* Proofs about SearchIndex: no half-built index is ever found, and the     *)
(* registered index follows the collection, for any number of goroutines,   *)
(* documents, requests and indexes.                                         *)
(*                                                                          *)
(* Most steps of a search touch neither the collection nor an index and are *)
(* treated alike (Quiet).  The others are a write that lands, the three     *)
(* outcomes of looking up the index for an event, applying it, and an       *)
(* index's registration, build and failed build.                            *)
(***************************************************************************)
EXTENDS SearchIndex, InductionLemmas

-----------------------------------------------------------------------------
(* The inductive invariant.                                                 *)

Labels == Ops \cup {"idle", "report", "apply", "insert", "build", "plan", "collectAll",
                    "fetchScan", "fetchEach", "filterEach", "filterBulk", "page"}
Events == [id : Ids \cup {0}, doc : Documents \cup {NoDoc}]

\* What the document d contributes to an index, and what ds, or the collection, holds
\* under an id.
TermsOf(d) == IF d \in {Garbled, NoDoc} THEN {} ELSE FieldsOf(d)
Terms      == UNION {TermsOf(d) : d \in Documents}
In(ds, i)  == IF i \in DOMAIN ds THEN ds[i] ELSE NoDoc
Now(i)     == In(docs, i)

\* A collection index whose inverted maps are the inverses of its documents' terms.
PostingsOf(T)  == UNION {{<<t[1], t[2], i>> : t \in T[i]} : i \in Ids}
FieldDocsOf(T) == UNION {{<<t[1], i>> : t \in T[i]} : i \in Ids}
Collection(A, T) ==
    [all |-> A, docTerms |-> T, postings |-> PostingsOf(T), fieldDocs |-> FieldDocsOf(T)]
Collections == {Collection(A, T) : A \in SUBSET Ids, T \in [Ids -> SUBSET Terms]}

\* The index c holds document i as d, and nothing else of it.
Holds(c, i, d) == (i \in c.all <=> d \notin {Garbled, NoDoc}) /\ c.docTerms[i] = TermsOf(d)

IndexObjects ==
    [lock : Procs \cup {Nobody}, used : BOOLEAN, whole : BOOLEAN, c : Collections]

Typed ==
    /\ \E S \in SUBSET Ids : docs \in [S -> Documents]
    /\ registry \in Indexes \cup {NoIndex}
    /\ idx \in [Indexes -> IndexObjects]
    /\ pc \in [Procs -> Labels]
    /\ req \in [Procs -> Requests]
    /\ DOMAIN loc = Procs
    /\ \A p \in Procs : {"ev", "ix"} \subseteq DOMAIN loc[p] /\ loc[p].ev \in Seq(Events)

\* A goroutine owes reports exactly while it reports, applies to an index that was
\* registered, and holds the lock of an index exactly while it builds it.
Reporter(p) ==
    /\ loc[p].ev # <<>> <=> pc[p] \in {"report", "apply"}
    /\ pc[p] \in Ops => pc[p] = req[p].op
    /\ pc[p] = "apply" => /\ loc[p].ix \in Indexes /\ idx[loc[p].ix].used
                          /\ Head(loc[p].ev).id # 0
    /\ pc[p] = "build" => loc[p].ix \in Indexes
    /\ \A x \in Indexes : idx[x].lock = p <=> pc[p] = "build" /\ loc[p].ix = x

\* An index that was never registered or is being built is empty.
Stages ==
    /\ registry # NoIndex => idx[registry].used
    /\ \A x \in Indexes : idx[x].lock # Nobody => idx[x].used
    /\ \A x \in Indexes : (~idx[x].used \/ idx[x].lock # Nobody) => idx[x].c = newCollIndex

Control == Typed /\ (\A p \in Procs : Reporter(p)) /\ Stages /\ RegisteredIsWhole

\* The ids that the reports s are about, and: the last report of i among them says d.
IdsOf(s) == {s[k].id : k \in DOMAIN s}
LastSays(s, i, d) ==
    \E k \in DOMAIN s : s[k].id = i /\ s[k].doc = d /\ \A m \in DOMAIN s : m > k => s[m].id # i

\* Who owes a report of an uncrossed document is alone in that, and his last report of
\* it is what is stored.
Owed ==
    \A i \in Ids \ crossed : \A p \in Procs : i \in IdsOf(loc[p].ev) =>
        /\ \A q \in Procs : i \in IdsOf(loc[q].ev) => q = p
        /\ LastSays(loc[p].ev, i, Now(i))

\* Nobody will yet apply a report of i to the registered index: a report on its way to
\* another index was looked up before the registered one was built.
Settled(i) ==
    \A p \in Procs : i \in IdsOf(loc[p].ev) => pc[p] = "apply" /\ loc[p].ix # registry

\* The registered index holds every uncrossed, settled document as it is stored, unless
\* the organization was deleted and the index is still to be dropped.
Follows ==
    (registry # NoIndex /\ idx[registry].lock = Nobody /\ \A p \in Procs : 0 \notin IdsOf(loc[p].ev)) =>
        \A i \in Ids \ crossed : Settled(i) => Holds(idx[registry].c, i, Now(i))

IInv == Control /\ Owed /\ Follows

-----------------------------------------------------------------------------
(* What put, remove and PutAll do to an index.                              *)

LEMMA CollectionFacts ==
    ASSUME NEW c \in Collections
    PROVE  /\ c.all \in SUBSET Ids /\ c.docTerms \in [Ids -> SUBSET Terms]
           /\ c = [all |-> c.all, docTerms |-> c.docTerms,
                   postings |-> PostingsOf(c.docTerms), fieldDocs |-> FieldDocsOf(c.docTerms)]
<1> PICK A \in SUBSET Ids, T \in [Ids -> SUBSET Terms] :
        c = Collection(A, T)
  BY DEF Collections
<1> QED
  BY DEF Collection

\* The inverted maps after the terms of one document are taken out, or put in.
LEMMA InvertedWithout ==
    ASSUME NEW T \in [Ids -> SUBSET Terms], NEW i \in Ids
    PROVE  /\ PostingsOf([T EXCEPT ![i] = {}]) = PostingsOf(T) \ {<<t[1], t[2], i>> : t \in T[i]}
           /\ FieldDocsOf([T EXCEPT ![i] = {}]) = FieldDocsOf(T) \ {<<t[1], i>> : t \in T[i]}
<1> DEFINE U == [T EXCEPT ![i] = {}]
<1>1. U[i] = {} /\ \A j \in Ids \ {i} : U[j] = T[j]
  OBVIOUS
<1> HIDE DEF U
<1>2. ASSUME NEW e, e \in PostingsOf(U)
      PROVE  e \in PostingsOf(T) /\ e \notin {<<t[1], t[2], i>> : t \in T[i]}
  <2> PICK j \in Ids : \E t \in U[j] : e = <<t[1], t[2], j>>
    BY <1>2 DEF PostingsOf
  <2> PICK t \in U[j] : e = <<t[1], t[2], j>>
    OBVIOUS
  <2>1. j # i
    BY <1>1
  <2> QED
    BY <1>1, <2>1 DEF PostingsOf
<1>3. ASSUME NEW e, e \in PostingsOf(T), e \notin {<<t[1], t[2], i>> : t \in T[i]}
      PROVE  e \in PostingsOf(U)
  <2> PICK j \in Ids : \E t \in T[j] : e = <<t[1], t[2], j>>
    BY <1>3 DEF PostingsOf
  <2> PICK t \in T[j] : e = <<t[1], t[2], j>>
    OBVIOUS
  <2>1. j # i
    BY <1>3
  <2> QED
    BY <1>1, <2>1 DEF PostingsOf
<1>4. ASSUME NEW e, e \in FieldDocsOf(U)
      PROVE  e \in FieldDocsOf(T) /\ e \notin {<<t[1], i>> : t \in T[i]}
  <2> PICK j \in Ids : \E t \in U[j] : e = <<t[1], j>>
    BY <1>4 DEF FieldDocsOf
  <2> PICK t \in U[j] : e = <<t[1], j>>
    OBVIOUS
  <2>1. j # i
    BY <1>1
  <2> QED
    BY <1>1, <2>1 DEF FieldDocsOf
<1>5. ASSUME NEW e, e \in FieldDocsOf(T), e \notin {<<t[1], i>> : t \in T[i]}
      PROVE  e \in FieldDocsOf(U)
  <2> PICK j \in Ids : \E t \in T[j] : e = <<t[1], j>>
    BY <1>5 DEF FieldDocsOf
  <2> PICK t \in T[j] : e = <<t[1], j>>
    OBVIOUS
  <2>1. j # i
    BY <1>5
  <2> QED
    BY <1>1, <2>1 DEF FieldDocsOf
<1> QED
  BY <1>2, <1>3, <1>4, <1>5, Zenon DEF U

LEMMA InvertedWith ==
    ASSUME NEW T \in [Ids -> SUBSET Terms], NEW i \in Ids, T[i] = {}, NEW F \in SUBSET Terms
    PROVE  /\ PostingsOf([T EXCEPT ![i] = F]) = PostingsOf(T) \cup {<<t[1], t[2], i>> : t \in F}
           /\ FieldDocsOf([T EXCEPT ![i] = F]) = FieldDocsOf(T) \cup {<<t[1], i>> : t \in F}
<1> DEFINE U == [T EXCEPT ![i] = F]
<1>1. U[i] = F /\ \A j \in Ids \ {i} : U[j] = T[j]
  OBVIOUS
<1> HIDE DEF U
<1>2. ASSUME NEW e, e \in PostingsOf(U), e \notin {<<t[1], t[2], i>> : t \in F}
      PROVE  e \in PostingsOf(T)
  <2> PICK j \in Ids : \E t \in U[j] : e = <<t[1], t[2], j>>
    BY <1>2 DEF PostingsOf
  <2> PICK t \in U[j] : e = <<t[1], t[2], j>>
    OBVIOUS
  <2>1. j # i
    BY <1>1, <1>2
  <2> QED
    BY <1>1, <2>1 DEF PostingsOf
<1>3. ASSUME NEW e, e \in PostingsOf(T)
      PROVE  e \in PostingsOf(U)
  <2> PICK j \in Ids : \E t \in T[j] : e = <<t[1], t[2], j>>
    BY <1>3 DEF PostingsOf
  <2> PICK t \in T[j] : e = <<t[1], t[2], j>>
    OBVIOUS
  <2>1. j # i
    OBVIOUS
  <2> QED
    BY <1>1, <2>1 DEF PostingsOf
<1>4. ASSUME NEW t \in F
      PROVE  <<t[1], t[2], i>> \in PostingsOf(U)
  BY <1>1 DEF PostingsOf
<1>5. ASSUME NEW e, e \in FieldDocsOf(U), e \notin {<<t[1], i>> : t \in F}
      PROVE  e \in FieldDocsOf(T)
  <2> PICK j \in Ids : \E t \in U[j] : e = <<t[1], j>>
    BY <1>5 DEF FieldDocsOf
  <2> PICK t \in U[j] : e = <<t[1], j>>
    OBVIOUS
  <2>1. j # i
    BY <1>1, <1>5
  <2> QED
    BY <1>1, <2>1 DEF FieldDocsOf
<1>6. ASSUME NEW e, e \in FieldDocsOf(T)
      PROVE  e \in FieldDocsOf(U)
  <2> PICK j \in Ids : \E t \in T[j] : e = <<t[1], j>>
    BY <1>6 DEF FieldDocsOf
  <2> PICK t \in T[j] : e = <<t[1], j>>
    OBVIOUS
  <2>1. j # i
    OBVIOUS
  <2> QED
    BY <1>1, <2>1 DEF FieldDocsOf
<1>7. ASSUME NEW t \in F
      PROVE  <<t[1], i>> \in FieldDocsOf(U)
  BY <1>1 DEF FieldDocsOf
<1> QED
  BY <1>2, <1>3, <1>4, <1>5, <1>6, <1>7, Zenon DEF U

LEMMA Retracted ==
    ASSUME NEW c \in Collections, NEW i \in Ids
    PROVE  retract(c, i) = Collection(c.all, [c.docTerms EXCEPT ![i] = {}])
<1> DEFINE T == c.docTerms
           A == c.all
<1>1. c = [all |-> A, docTerms |-> T, postings |-> PostingsOf(T), fieldDocs |-> FieldDocsOf(T)]
  BY CollectionFacts
<1>2. T \in [Ids -> SUBSET Terms]
  BY CollectionFacts
<1> HIDE DEF T, A
<1>3. retract(c, i) = [all |-> A, docTerms |-> [T EXCEPT ![i] = {}],
                       postings |-> PostingsOf(T) \ {<<t[1], t[2], i>> : t \in T[i]},
                       fieldDocs |-> FieldDocsOf(T) \ {<<t[1], i>> : t \in T[i]}]
  BY <1>1 DEF retract
<1> QED
  BY <1>2, <1>3, InvertedWithout DEF Collection, T, A

LEMMA Removed ==
    ASSUME NEW c \in Collections, NEW i \in Ids
    PROVE  remove(c, i) = Collection(c.all \ {i}, [c.docTerms EXCEPT ![i] = {}])
<1> DEFINE T == [c.docTerms EXCEPT ![i] = {}]
           A == c.all
<1>1. retract(c, i) = [all |-> A, docTerms |-> T, postings |-> PostingsOf(T),
                       fieldDocs |-> FieldDocsOf(T)]
  BY Retracted DEF Collection
<1> HIDE DEF T, A
<1> QED
  BY <1>1 DEF remove, Collection, T, A

LEMMA Stored ==
    ASSUME NEW c \in Collections, NEW i \in Ids, NEW F \in SUBSET Terms
    PROVE  put(c, i, F) = Collection(c.all \cup {i}, [c.docTerms EXCEPT ![i] = F])
<1> DEFINE T == [c.docTerms EXCEPT ![i] = {}]
<1>1. T \in [Ids -> SUBSET Terms] /\ T[i] = {} /\ [T EXCEPT ![i] = F] = [c.docTerms EXCEPT ![i] = F]
  BY CollectionFacts
<1>2. retract(c, i) = [all |-> c.all, docTerms |-> T, postings |-> PostingsOf(T),
                       fieldDocs |-> FieldDocsOf(T)]
  BY Retracted DEF Collection
<1> HIDE DEF T
<1>3. put(c, i, F) = [all |-> c.all \cup {i}, docTerms |-> [T EXCEPT ![i] = F],
                      postings |-> PostingsOf(T) \cup {<<t[1], t[2], i>> : t \in F},
                      fieldDocs |-> FieldDocsOf(T) \cup {<<t[1], i>> : t \in F}]
  BY <1>2 DEF put, addTerms
<1>4. /\ PostingsOf([T EXCEPT ![i] = F]) = PostingsOf(T) \cup {<<t[1], t[2], i>> : t \in F}
      /\ FieldDocsOf([T EXCEPT ![i] = F]) = FieldDocsOf(T) \cup {<<t[1], i>> : t \in F}
  BY <1>1, InvertedWith
<1> QED
  BY <1>1, <1>3, <1>4, Zenon DEF Collection

\* Applying one event to an index: it holds the event's document, and every other
\* document as before.
Applied(c, i, d) == IF d = NoDoc THEN remove(c, i) ELSE putRaw(c, i, d)

LEMMA AppliedFacts ==
    ASSUME NEW c \in Collections, NEW i \in Ids, NEW d \in Documents \cup {NoDoc}
    PROVE  /\ Applied(c, i, d) \in Collections
           /\ Holds(Applied(c, i, d), i, d)
           /\ \A j \in Ids \ {i} : \A e : Holds(c, j, e) => Holds(Applied(c, i, d), j, e)
<1> DEFINE F == TermsOf(d)
           A == IF d \in {Garbled, NoDoc} THEN c.all \ {i} ELSE c.all \cup {i}
           T == [c.docTerms EXCEPT ![i] = F]
<1>1. F \in SUBSET Terms
  BY DEF TermsOf, Terms
<1>2. Applied(c, i, d) = Collection(A, T)
  <2>1. CASE d \in {Garbled, NoDoc}
    BY <2>1, Removed DEF Applied, putRaw, TermsOf
  <2>2. CASE d \notin {Garbled, NoDoc}
    <3>1. F = Flatten(nodeSearchDoc(d)) /\ Applied(c, i, d) = put(c, i, F)
      BY <2>2 DEF Applied, putRaw, TermsOf, FieldsOf
    <3> HIDE DEF F
    <3> QED
      BY <2>2, <3>1, <1>1, Stored
  <2> QED
    BY <2>1, <2>2
<1>3. A \in SUBSET Ids /\ T \in [Ids -> SUBSET Terms]
  BY <1>1, CollectionFacts
<1>4. T[i] = F /\ \A j \in Ids \ {i} : T[j] = c.docTerms[j] /\ (j \in A <=> j \in c.all)
  BY CollectionFacts
<1>5. i \in A <=> d \notin {Garbled, NoDoc}
  OBVIOUS
<1>6. Collection(A, T) \in Collections
  <2> HIDE DEF A, T, F
  <2> QED
    BY <1>3 DEF Collections
<1>7. Collection(A, T).all = A /\ Collection(A, T).docTerms = T
  BY DEF Collection
<1> HIDE DEF A, T
<1> QED
  BY <1>2, <1>4, <1>5, <1>6, <1>7 DEF Holds

LEMMA NewIndex ==
    newCollIndex \in Collections /\ \A i \in Ids : Holds(newCollIndex, i, NoDoc)
<1> DEFINE T == [i \in Ids |-> {}]
<1>1. T \in [Ids -> SUBSET Terms] /\ \A i \in Ids : T[i] = {}
  OBVIOUS
<1>2. newCollIndex = [all |-> {}, docTerms |-> T, postings |-> {}, fieldDocs |-> {}]
  BY DEF newCollIndex
<1> HIDE DEF T
<1>3. PostingsOf(T) = {} /\ FieldDocsOf(T) = {}
  BY <1>1 DEF PostingsOf, FieldDocsOf
<1>4. newCollIndex = Collection({}, T)
  BY <1>2, <1>3 DEF Collection
<1>5. newCollIndex \in Collections
  BY <1>1, <1>4 DEF Collections
<1> QED
  BY <1>1, <1>2, <1>5 DEF Holds, TermsOf

\* One more id of the documents ds is read into the index x.
Next1(x, ds, i) == IF i \in DOMAIN ds THEN putRaw(x, i, ds[i]) ELSE x

LEMMA Next1Facts ==
    ASSUME NEW x \in Collections, NEW S \in SUBSET Ids, NEW ds \in [S -> Documents], NEW i \in Ids
    PROVE  /\ Next1(x, ds, i) \in Collections
           /\ Holds(x, i, NoDoc) => Holds(Next1(x, ds, i), i, In(ds, i))
           /\ \A j \in Ids \ {i} : \A e : Holds(x, j, e) => Holds(Next1(x, ds, i), j, e)
<1>1. CASE i \in S
  <2>1. Next1(x, ds, i) = Applied(x, i, ds[i]) /\ In(ds, i) = ds[i] /\ ds[i] \in Documents
    BY <1>1, Distinct DEF Next1, In, Applied
  <2> QED
    BY <2>1, AppliedFacts
<1>2. CASE i \notin S
  BY <1>2 DEF Next1, In
<1> QED
  BY <1>1, <1>2

\* Reading a collection into an empty index leaves exactly the collection in it.
LEMMA PutAllFacts ==
    ASSUME NEW S \in SUBSET Ids, NEW ds \in [S -> Documents]
    PROVE  /\ PutAll(newCollIndex, ds) \in Collections
           /\ \A i \in Ids : Holds(PutAll(newCollIndex, ds), i, In(ds, i))
<1> DEFINE step(f) == [i \in 0 .. NumIds |-> IF i = 0 THEN newCollIndex ELSE Next1(f[i - 1], ds, i)]
           g == CHOOSE f : f = step(f)
           Ok(n, f) == /\ f \in [0 .. n -> Collections] /\ f[0] = newCollIndex
                       /\ \A i \in 1 .. n : f[i] = Next1(f[i - 1], ds, i)
           E == {n \in 0 .. NumIds : \E f : Ok(n, f)}
<1>0. NumIds \in Nat /\ Ids = 1 .. NumIds
  BY NaturalBounds DEF Ids
<1>1. PutAll(newCollIndex, ds) = g[NumIds]
  BY Zenon DEF PutAll, Next1
<1>2. 0 \in E
  <2>1. Ok(0, [i \in 0 .. 0 |-> newCollIndex])
    BY NewIndex
  <2> HIDE DEF Ok
  <2>2. \E f : Ok(0, f)
    BY <2>1, Zenon
  <2> QED
    BY <2>2, <1>0
<1>3. \A n \in 0 .. NumIds : n \in E /\ n < NumIds => n + 1 \in E
  <2> SUFFICES ASSUME NEW n \in 0 .. NumIds, n < NumIds, NEW f, Ok(n, f)
               PROVE  \E h : Ok(n + 1, h)
    BY <1>0
  <2> DEFINE h == [i \in 0 .. (n + 1) |-> IF i = n + 1 THEN Next1(f[n], ds, n + 1) ELSE f[i]]
  <2>1. n + 1 \in Ids /\ n \in 0 .. n /\ f[n] \in Collections
    BY <1>0
  <2>2. Next1(f[n], ds, n + 1) \in Collections
    BY <2>1, Next1Facts
  <2>3. h \in [0 .. (n + 1) -> Collections]
    BY <2>2, <1>0
  <2>4. h[n + 1] = Next1(f[n], ds, n + 1) /\ \A i \in 0 .. n : h[i] = f[i]
    BY <1>0
  <2> HIDE DEF h
  <2>5. h[0] = newCollIndex
    BY <2>4, <1>0
  <2>6. ASSUME NEW i \in 1 .. (n + 1)
        PROVE  h[i] = Next1(h[i - 1], ds, i)
    <3>1. CASE i = n + 1
      <4>1. i - 1 = n /\ n \in 0 .. n
        BY <3>1, <1>0
      <4> QED
        BY <3>1, <4>1, <2>4
    <3>2. CASE i # n + 1
      <4>1. i \in 1 .. n /\ i \in 0 .. n /\ i - 1 \in 0 .. n
        BY <3>2, <1>0
      <4> QED
        BY <4>1, <2>4
    <3> QED
      BY <3>1, <3>2
  <2> QED
    BY <2>3, <2>5, <2>6
<1>4. NumIds \in E
  <2> HIDE DEF E
  <2>1. 0 .. NumIds \subseteq E
    BY <1>0, <1>2, <1>3, IntervalInduction
  <2> QED
    BY <1>0, <2>1
<1>5. PICK f : Ok(NumIds, f)
  BY <1>4
<1>6. f = step(f)
  <2>1. \A i \in 0 .. NumIds : f[i] = step(f)[i]
    <3> TAKE i \in 0 .. NumIds
    <3>1. CASE i = 0
      BY <3>1, <1>5
    <3>2. CASE i # 0
      <4>1. i \in 1 .. NumIds
        BY <3>2, <1>0
      <4> QED
        BY <3>2, <4>1, <1>5
    <3> QED
      BY <3>1, <3>2
  <2>2. f = [i \in 0 .. NumIds |-> f[i]] /\ step(f) = [i \in 0 .. NumIds |-> step(f)[i]]
    BY <1>5
  <2> HIDE DEF step
  <2> QED
    BY <2>1, <2>2
<1>7. g = step(g)
  <2> HIDE DEF step
  <2> QED
    BY <1>6
<1>8. g[0] = newCollIndex /\ \A i \in 1 .. NumIds : g[i] = Next1(g[i - 1], ds, i)
  <2>1. \A i \in 0 .. NumIds : g[i] = step(g)[i]
    BY <1>7, Zenon
  <2> HIDE DEF g
  <2>2. step(g)[0] = newCollIndex /\ \A i \in 1 .. NumIds : step(g)[i] = Next1(g[i - 1], ds, i)
    BY <1>0
  <2> HIDE DEF step
  <2>3. 0 \in 0 .. NumIds /\ \A i \in 1 .. NumIds : i \in 0 .. NumIds
    BY <1>0
  <2> QED
    BY <2>1, <2>2, <2>3
<1> HIDE DEF g
<1> DEFINE T == {n \in 0 .. NumIds : /\ g[n] \in Collections
                                     /\ \A i \in Ids : Holds(g[n], i, IF i <= n THEN In(ds, i) ELSE NoDoc)}
<1>9. 0 \in T
  BY <1>0, <1>8, NewIndex
<1>10. \A n \in 0 .. NumIds : n \in T /\ n < NumIds => n + 1 \in T
  <2> SUFFICES ASSUME NEW n \in 0 .. NumIds, n < NumIds, g[n] \in Collections,
                      \A i \in Ids : Holds(g[n], i, IF i <= n THEN In(ds, i) ELSE NoDoc)
               PROVE  /\ g[n + 1] \in Collections
                      /\ \A i \in Ids : Holds(g[n + 1], i, IF i <= n + 1 THEN In(ds, i) ELSE NoDoc)
    BY <1>0
  <2>1. n + 1 \in Ids /\ (n + 1) - 1 = n /\ n + 1 \in 1 .. NumIds
    BY <1>0
  <2>2. g[n + 1] = Next1(g[n], ds, n + 1)
    BY <2>1, <1>8
  <2>3. /\ g[n + 1] \in Collections
        /\ Holds(g[n], n + 1, NoDoc) => Holds(g[n + 1], n + 1, In(ds, n + 1))
        /\ \A j \in Ids \ {n + 1} : \A e : Holds(g[n], j, e) => Holds(g[n + 1], j, e)
    BY <2>1, <2>2, Next1Facts
  <2>4. ASSUME NEW i \in Ids
        PROVE  Holds(g[n + 1], i, IF i <= n + 1 THEN In(ds, i) ELSE NoDoc)
    <3>1. CASE i = n + 1
      <4>1. ~(i <= n) /\ i <= n + 1
        BY <3>1, <1>0
      <4> QED
        BY <3>1, <4>1, <2>3
    <3>2. CASE i # n + 1
      <4>1. i <= n <=> i <= n + 1
        BY <3>2, <1>0
      <4> QED
        BY <3>2, <4>1, <2>3
    <3> QED
      BY <3>1, <3>2
  <2> QED
    BY <2>3, <2>4
<1>11. NumIds \in T
  <2> HIDE DEF T
  <2>1. 0 .. NumIds \subseteq T
    BY <1>0, <1>9, <1>10, IntervalInduction
  <2> QED
    BY <1>0, <2>1
<1> QED
  BY <1>0, <1>1, <1>11

-----------------------------------------------------------------------------
(* What the steps of a goroutine do to the collection, to the indexes and   *)
(* to the reports it owes.                                                  *)

Calm == Labels \ {"report", "apply", "build"}

\* Only p moves.
Moves(p) ==
    /\ pc' \in [Procs -> Labels] /\ req' \in [Procs -> Requests]
    /\ DOMAIN loc' = Procs /\ {"ev", "ix"} \subseteq DOMAIN loc'[p]
    /\ \A q \in Procs \ {p} : pc'[q] = pc[q] /\ loc'[q] = loc[q] /\ req'[q] = req[q]

\* p neither reports nor builds.
Quiet(p) ==
    /\ Moves(p) /\ UNCHANGED <<docs, registry, idx, crossed>>
    /\ pc[p] \in Calm /\ pc'[p] \in Calm /\ loc'[p].ev = <<>>
    /\ pc'[p] \in Ops => pc'[p] = req'[p].op

\* A write of the ids S lands, and p owes the reports evs of it.
Lands(p, S, evs) ==
    /\ Moves(p) /\ UNCHANGED <<registry, idx>>
    /\ pc[p] \in Calm /\ pc'[p] = "report" /\ loc'[p].ev = evs
    /\ evs \in Seq(Events) \ {<<>>} /\ S = IdsOf(evs) /\ S \subseteq Ids
    /\ \E D \in SUBSET Ids : docs' \in [D -> Documents]
    /\ \A i \in Ids \ S : In(docs', i) = In(docs, i)
    /\ \A i \in S : LastSays(evs, i, In(docs', i))
    /\ crossed' = crossed \cup (S \cap UNION {Pending(q) : q \in Busy \ {p}})

Empties(p) ==
    /\ Moves(p) /\ UNCHANGED <<registry, idx>>
    /\ pc[p] \in Calm /\ pc'[p] = "report"
    /\ loc'[p].ev = <<[id |-> 0, doc |-> NoDoc]>>
    /\ docs' \in [{} -> Documents]
    /\ crossed' = crossed \cup UNION {Pending(q) : q \in Busy \ {p}}

\* The first report of p is done with.
FirstDone(p) ==
    /\ loc'[p].ev = Tail(loc[p].ev)
    /\ pc'[p] \in {"report", "idle"} /\ (pc'[p] = "report" <=> Tail(loc[p].ev) # <<>>)

Passes(p) ==
    /\ Moves(p) /\ UNCHANGED <<docs, idx, crossed>>
    /\ pc[p] = "report" /\ FirstDone(p) /\ registry' = NoIndex

Finds(p) ==
    /\ Moves(p) /\ UNCHANGED <<docs, registry, idx, crossed>>
    /\ pc[p] = "report" /\ pc'[p] = "apply" /\ loc'[p].ev = loc[p].ev
    /\ Head(loc[p].ev).id # 0 /\ registry # NoIndex /\ loc'[p].ix = registry

\* The index x becomes e.
Becomes(x, e) == idx' = [idx EXCEPT ![x] = e]

Applies(p) ==
    /\ Moves(p) /\ UNCHANGED <<docs, registry, crossed>>
    /\ pc[p] = "apply" /\ FirstDone(p) /\ idx[loc[p].ix].lock = Nobody
    /\ Becomes(loc[p].ix, [idx[loc[p].ix] EXCEPT !.c =
                              Applied(@, Head(loc[p].ev).id, Head(loc[p].ev).doc)])

Registers(p, x) ==
    /\ Moves(p) /\ UNCHANGED <<docs, crossed>>
    /\ pc[p] \in Calm /\ pc'[p] = "build" /\ loc'[p].ev = <<>> /\ loc'[p].ix = x
    /\ registry = NoIndex /\ registry' = x /\ ~idx[x].used
    /\ Becomes(x, [lock |-> p, used |-> TRUE, whole |-> FALSE, c |-> idx[x].c])

Builds(p) ==
    /\ Moves(p) /\ UNCHANGED <<docs, registry, crossed>>
    /\ pc[p] = "build" /\ pc'[p] \in Calm \ Ops /\ loc'[p].ev = loc[p].ev
    /\ Becomes(loc[p].ix, [lock |-> Nobody, used |-> TRUE, whole |-> TRUE,
                           c |-> PutAll(idx[loc[p].ix].c, docs)])

Fails(p, S) ==
    /\ Moves(p) /\ UNCHANGED <<docs, crossed>>
    /\ pc[p] = "build" /\ pc'[p] \in Calm \ Ops /\ loc'[p].ev = loc[p].ev
    /\ registry' = NoIndex /\ S \in SUBSET Live
    /\ Becomes(loc[p].ix, [lock |-> Nobody, used |-> TRUE, whole |-> FALSE,
                           c |-> PutAll(idx[loc[p].ix].c, [i \in S |-> docs[i]])])

Effect(p) ==
    \/ Quiet(p) \/ Empties(p) \/ Passes(p) \/ Finds(p) \/ Applies(p) \/ Builds(p)
    \/ \E S, evs : Lands(p, S, evs)
    \/ \E x \in Indexes : Registers(p, x)
    \/ \E S : Fails(p, S)

Kept(r, l) == {"ev", "ix"} \subseteq DOMAIN r /\ r.ev = l.ev

LEMMA LocalFields ==
    ASSUME NEW l, {"ev", "ix"} \subseteq DOMAIN l, NEW a, NEW b, NEW c
    PROVE  /\ {"ev", "ix"} \subseteq DOMAIN [l EXCEPT !.ev = a] /\ [l EXCEPT !.ev = a].ev = a
           /\ {"ev", "ix"} \subseteq DOMAIN [l EXCEPT !.ev = Tail(@), !.ix = a]
           /\ [l EXCEPT !.ev = Tail(@), !.ix = a].ev = Tail(l.ev)
           /\ [l EXCEPT !.ix = a].ix = a /\ Kept([l EXCEPT !.ix = a], l)
           /\ Kept([l EXCEPT !.code = a, !.ix = b], l)
           /\ Kept([l EXCEPT !.ids = a, !.todo = b, !.whole = c], l)
           /\ Kept([l EXCEPT !.rows = a, !.todo = b], l)
           /\ Kept([l EXCEPT !.todo = a, !.rows = b], l)
           /\ Kept([l EXCEPT !.rows = a], l)
<1>1. Kept([l EXCEPT !.rows = a], l)
  BY DEF Kept
<1>2. Kept([l EXCEPT !.rows = a, !.todo = b], l) /\ Kept([l EXCEPT !.todo = a, !.rows = b], l)
  BY DEF Kept
<1>3. Kept([l EXCEPT !.ids = a, !.todo = b, !.whole = c], l)
  BY DEF Kept
<1>4. Kept([l EXCEPT !.code = a, !.ix = b], l)
  BY DEF Kept
<1>5. [l EXCEPT !.ix = a].ix = a /\ Kept([l EXCEPT !.ix = a], l)
  BY DEF Kept
<1>6. {"ev", "ix"} \subseteq DOMAIN [l EXCEPT !.ev = a] /\ [l EXCEPT !.ev = a].ev = a
  OBVIOUS
<1>7. /\ {"ev", "ix"} \subseteq DOMAIN [l EXCEPT !.ev = Tail(@), !.ix = a]
      /\ [l EXCEPT !.ev = Tail(@), !.ix = a].ev = Tail(l.ev)
  OBVIOUS
<1> QED
  BY <1>1, <1>2, <1>3, <1>4, <1>5, <1>6, <1>7

\* p moves to the label l with the locals r.
LEMMA Moved ==
    ASSUME Typed, NEW p \in Procs, NEW l \in Labels, NEW r, {"ev", "ix"} \subseteq DOMAIN r,
           pc' = [pc EXCEPT ![p] = l], loc' = [loc EXCEPT ![p] = r], req' = req
    PROVE  Moves(p) /\ pc'[p] = l /\ loc'[p] = r /\ req'[p] = req[p]
  BY DEF Typed, Moves

LEMMA MovedOnly ==
    ASSUME Typed, NEW p \in Procs, NEW l \in Labels,
           pc' = [pc EXCEPT ![p] = l], loc' = loc, req' = req
    PROVE  Moves(p) /\ pc'[p] = l /\ loc'[p] = loc[p] /\ req'[p] = req[p]
  BY DEF Typed, Moves

LEMMA QuietMove ==
    ASSUME Typed, NEW p \in Procs, Reporter(p), pc[p] \in Calm, NEW l \in Calm \ Ops, NEW r,
           Kept(r, loc[p]), UNCHANGED <<docs, registry, idx, crossed, req>>,
           pc' = [pc EXCEPT ![p] = l], loc' = [loc EXCEPT ![p] = r]
    PROVE  Quiet(p)
<1>1. l \in Labels /\ {"ev", "ix"} \subseteq DOMAIN r
  BY DEF Calm, Kept
<1>2. Moves(p) /\ pc'[p] = l /\ loc'[p] = r
  BY <1>1, Moved
<1>3. loc[p].ev = <<>>
  BY DEF Reporter, Calm
<1> QED
  BY <1>2, <1>3 DEF Quiet, Kept

LEMMA QuietReply ==
    ASSUME Typed, NEW p \in Procs, Reporter(p), pc[p] \in Calm, NEW l \in Calm \ Ops,
           UNCHANGED <<docs, registry, idx, crossed, req, loc>>, pc' = [pc EXCEPT ![p] = l]
    PROVE  Quiet(p)
<1>1. l \in Labels
  BY DEF Calm
<1>2. Moves(p) /\ pc'[p] = l /\ loc'[p] = loc[p]
  BY <1>1, MovedOnly
<1>3. loc[p].ev = <<>>
  BY DEF Reporter, Calm
<1> QED
  BY <1>2, <1>3 DEF Quiet

LEMMA QuietStay ==
    ASSUME Typed, NEW p \in Procs, Reporter(p), pc[p] \in Calm \ Ops, NEW r,
           Kept(r, loc[p]), UNCHANGED <<docs, registry, idx, crossed, req, pc>>,
           loc' = [loc EXCEPT ![p] = r]
    PROVE  Quiet(p)
<1>1. pc' = [pc EXCEPT ![p] = pc[p]]
  BY DEF Typed
<1> QED
  BY <1>1, QuietMove

LEMMA BeginQuiet ==
    ASSUME Control, NEW p \in Procs, Begin(p)
    PROVE  Quiet(p)
<1> PICK r \in Requests : req' = [req EXCEPT ![p] = r] /\ pc' = [pc EXCEPT ![p] = r.op]
  BY DEF Begin
<1>1. r.op \in Ops
  BY WellFormed
<1>2. loc' = [loc EXCEPT ![p] = NoLocals] /\ pc[p] = "idle"
      /\ UNCHANGED <<docs, registry, idx, crossed>>
  BY DEF Begin, Local, stored, indexes
<1>3. {"ev", "ix"} \subseteq DOMAIN NoLocals /\ NoLocals.ev = <<>>
  BY DEF NoLocals
<1>4. r.op \in Labels /\ r.op \in Calm
  BY <1>1 DEF Calm, Labels, Ops
<1>5. /\ pc' \in [Procs -> Labels] /\ req' \in [Procs -> Requests]
      /\ pc'[p] = r.op /\ req'[p] = r
      /\ \A q \in Procs \ {p} : pc'[q] = pc[q] /\ req'[q] = req[q]
  BY <1>4 DEF Control, Typed
<1>6. /\ DOMAIN loc' = Procs /\ loc'[p] = NoLocals
      /\ \A q \in Procs \ {p} : loc'[q] = loc[q]
  BY <1>2 DEF Control, Typed
<1>7. Moves(p)
  BY <1>3, <1>5, <1>6 DEF Moves
<1>8. "idle" \in Calm
  BY DEF Calm, Labels
<1> QED
  BY <1>2, <1>3, <1>4, <1>5, <1>6, <1>7, <1>8 DEF Quiet

LEMMA StoreErrorQuiet ==
    ASSUME Control, NEW p \in Procs, StoreError(p)
    PROVE  Quiet(p)
<1>1. pc[p] \in Calm /\ "idle" \in Calm \ Ops
  BY DEF StoreError, Calm, Labels, Ops
<1>2. UNCHANGED <<docs, registry, idx, crossed, req, loc>> /\ pc' = [pc EXCEPT ![p] = "idle"]
  BY DEF StoreError, stored, indexes, Reply
<1> QED
  BY <1>1, <1>2, QuietReply DEF Control

LEMMA SetACLQuiet ==
    ASSUME Control, NEW p \in Procs, SetACL(p)
    PROVE  Quiet(p)
<1>1. pc[p] \in Calm /\ "idle" \in Calm \ Ops
  BY DEF SetACL, Calm, Labels, Ops
<1>2. UNCHANGED <<docs, registry, idx, crossed, req, loc>> /\ pc' = [pc EXCEPT ![p] = "idle"]
  BY DEF SetACL, Fixed, indexes, Reply
<1> QED
  BY <1>1, <1>2, QuietReply DEF Control

LEMMA PageQuiet ==
    ASSUME Control, NEW p \in Procs, Page(p)
    PROVE  Quiet(p)
<1>1. pc[p] \in Calm /\ "idle" \in Calm \ Ops
  BY DEF Page, Calm, Labels, Ops
<1>2. UNCHANGED <<docs, registry, idx, crossed, req, loc>> /\ pc' = [pc EXCEPT ![p] = "idle"]
  BY DEF Page, Fixed, Flux, stored, indexes, Reply
<1> QED
  BY <1>1, <1>2, QuietReply DEF Control

LEMMA SearchFrame ==
    ASSUME NEW p \in Procs, SearchStep(p)
    PROVE  UNCHANGED <<docs, registry, idx, crossed, req>>
  BY DEF SearchStep, Fixed, Flux, stored, indexes

LEMMA StartSearchQuiet ==
    ASSUME Control, NEW p \in Procs, StartSearch(p)
    PROVE  Quiet(p)
<1>1. /\ pc[p] \in Calm
      /\ {"idle", "collectAll", "plan", "insert"} \subseteq Calm \ Ops
  BY DEF StartSearch, Calm, Labels, Ops
<1>2. UNCHANGED <<docs, registry, idx, crossed, req>>
  BY SearchFrame DEF StartSearch
<1> DEFINE q == Parse(req[p].query)
<1>3. CASE ~q.ok
  <2>1. UNCHANGED loc /\ pc' = [pc EXCEPT ![p] = "idle"]
    BY <1>3 DEF StartSearch, Reply
  <2> QED
    BY <1>1, <1>2, <2>1, QuietReply DEF Control
<1>4. CASE q.ok
  <2> DEFINE l == IF IsMatchAll(q.code) THEN "collectAll"
                  ELSE IF registry # NoIndex THEN "plan" ELSE "insert"
  <2>1. /\ loc' = [loc EXCEPT ![p] = [loc[p] EXCEPT !.code = q.code, !.ix = registry]]
        /\ pc' = [pc EXCEPT ![p] = l]
    BY <1>4, Zenon DEF StartSearch, Goto, Local
  <2>2. Kept([loc[p] EXCEPT !.code = q.code, !.ix = registry], loc[p])
    BY LocalFields DEF Control, Typed
  <2>3. l \in Calm \ Ops
    BY <1>1
  <2> HIDE DEF q, l
  <2> QED
    BY <1>1, <1>2, <2>1, <2>2, <2>3, QuietMove DEF Control
<1> QED
  BY <1>3, <1>4

LEMMA ResolvePlanQuiet ==
    ASSUME Control, NEW p \in Procs, ResolvePlan(p)
    PROVE  Quiet(p)
<1>1. pc[p] \in Calm /\ {"fetchScan", "fetchEach", "page"} \subseteq Calm \ Ops
  BY DEF ResolvePlan, Calm, Labels, Ops
<1>2. UNCHANGED <<docs, registry, idx, crossed, req>>
  BY SearchFrame DEF ResolvePlan
<1> DEFINE x == idx[loc[p].ix].c
           ids == Plan(loc[p].code, x)
           l == IF x.all # {} /\ Cardinality(ids) * 4 >= Cardinality(x.all) THEN "fetchScan"
                ELSE IF ids # {} THEN "fetchEach" ELSE "page"
           r == [loc[p] EXCEPT !.ids = ids, !.todo = ids, !.whole = idx[loc[p].ix].whole]
<1>3. loc' = [loc EXCEPT ![p] = r] /\ pc' = [pc EXCEPT ![p] = l]
  BY Zenon DEF ResolvePlan, Local, Goto
<1> HIDE DEF ids
<1>4. Kept(r, loc[p])
  BY LocalFields DEF Control, Typed
<1>5. l \in Calm \ Ops
  BY <1>1
<1> HIDE DEF l, r
<1> QED
  BY <1>1, <1>2, <1>3, <1>4, <1>5, QuietMove DEF Control

LEMMA FetchedQuiet ==
    ASSUME Control, NEW p \in Procs, pc[p] \in Calm, SearchStep(p), NEW rows, Fetched(p, rows)
    PROVE  Quiet(p)
<1>1. {"page", "filterEach", "filterBulk"} \subseteq Calm \ Ops
  BY DEF Calm, Labels, Ops
<1>2. UNCHANGED <<docs, registry, idx, crossed, req>>
  BY SearchFrame
<1> DEFINE l == IF rows = {} \/ req[p].admin THEN "page"
                ELSE IF Cardinality(rows) <= Bulk THEN "filterEach" ELSE "filterBulk"
           r == [loc[p] EXCEPT !.rows = rows, !.todo = {m.id : m \in rows}]
<1>3. loc' = [loc EXCEPT ![p] = r] /\ pc' = [pc EXCEPT ![p] = l]
  BY Zenon DEF Fetched, Local, Goto
<1>4. Kept(r, loc[p])
  BY LocalFields DEF Control, Typed
<1>5. l \in Calm \ Ops
  BY <1>1
<1> HIDE DEF l, r
<1> QED
  BY <1>2, <1>3, <1>4, <1>5, QuietMove DEF Control

LEMMA FetchQuiet ==
    ASSUME Control, NEW p \in Procs, CollectAll(p) \/ FetchScan(p) \/ FetchEach(p)
    PROVE  Quiet(p)
<1>1. pc[p] \in Calm \ Ops /\ SearchStep(p)
  BY DEF CollectAll, FetchScan, FetchEach, Calm, Labels, Ops
<1>2. CASE CollectAll(p)
  BY <1>1, <1>2, FetchedQuiet DEF CollectAll
<1>3. CASE FetchScan(p)
  BY <1>1, <1>3, FetchedQuiet DEF FetchScan
<1>4. CASE FetchEach(p)
  <2> PICK id \in loc[p].todo :
          LET rows == loc[p].rows \cup (IF id \in Live THEN {Row(id)} ELSE {})
          IN IF loc[p].todo = {id} THEN Fetched(p, rows)
             ELSE /\ Local(p, [loc[p] EXCEPT !.rows = rows, !.todo = @ \ {id}])
                  /\ UNCHANGED <<pc, out>>
    BY <1>4, Zenon DEF FetchEach
  <2> DEFINE rows == loc[p].rows \cup (IF id \in Live THEN {Row(id)} ELSE {})
             r == [loc[p] EXCEPT !.rows = rows, !.todo = @ \ {id}]
  <2>1. CASE loc[p].todo = {id}
    <3>1. Fetched(p, rows)
      BY <2>1, Zenon
    <3> HIDE DEF rows
    <3> QED
      BY <1>1, <3>1, FetchedQuiet
  <2>2. CASE loc[p].todo # {id}
    <3>1. loc' = [loc EXCEPT ![p] = r] /\ pc' = pc
      BY <2>2, Zenon DEF Local
    <3> HIDE DEF rows
    <3>2. Kept(r, loc[p])
      BY LocalFields DEF Control, Typed
    <3>3. UNCHANGED <<docs, registry, idx, crossed, req>>
      BY <1>1, SearchFrame
    <3> HIDE DEF r
    <3> QED
      BY <1>1, <3>1, <3>2, <3>3, QuietStay DEF Control
  <2> QED
    BY <2>1, <2>2
<1> QED
  BY <1>2, <1>3, <1>4

LEMMA FilterQuiet ==
    ASSUME Control, NEW p \in Procs, FilterEach(p) \/ FilterBulk(p)
    PROVE  Quiet(p)
<1>1. pc[p] \in Calm \ Ops /\ SearchStep(p) /\ "page" \in Calm \ Ops
  BY DEF FilterEach, FilterBulk, Calm, Labels, Ops
<1>2. UNCHANGED <<docs, registry, idx, crossed, req>>
  BY <1>1, SearchFrame
<1>3. CASE FilterEach(p)
  <2> PICK id \in loc[p].todo :
        /\ Local(p, [loc[p] EXCEPT !.todo = @ \ {id},
                       !.rows = IF id \in hidden THEN {r \in @ : r.id # id} ELSE @])
        /\ IF loc[p].todo = {id} THEN Goto(p, "page") ELSE UNCHANGED <<pc, out>>
    BY <1>3, Zenon DEF FilterEach
  <2> DEFINE r == [loc[p] EXCEPT !.todo = @ \ {id},
                     !.rows = IF id \in hidden THEN {s \in @ : s.id # id} ELSE @]
  <2>1. loc' = [loc EXCEPT ![p] = r]
    BY Zenon DEF Local
  <2>2. Kept(r, loc[p])
    BY LocalFields DEF Control, Typed
  <2>3. pc' = pc \/ pc' = [pc EXCEPT ![p] = "page"]
    BY DEF Goto
  <2> HIDE DEF r
  <2> QED
    BY <1>1, <1>2, <2>1, <2>2, <2>3, QuietStay, QuietMove DEF Control
<1>4. CASE FilterBulk(p)
  <2> DEFINE r == [loc[p] EXCEPT !.rows = {s \in @ : s.id \notin hidden}]
  <2>1. loc' = [loc EXCEPT ![p] = r] /\ pc' = [pc EXCEPT ![p] = "page"]
    BY <1>4, Zenon DEF FilterBulk, Local, Goto
  <2>2. Kept(r, loc[p])
    BY LocalFields DEF Control, Typed
  <2> HIDE DEF r
  <2> QED
    BY <1>1, <1>2, <2>1, <2>2, QuietMove DEF Control
<1> QED
  BY <1>3, <1>4

LEMMA LandMoves ==
    ASSUME Control, NEW p \in Procs, NEW S, NEW ds, NEW evs, Land(p, S, ds, evs), Fixed
    PROVE  /\ Moves(p) /\ UNCHANGED <<registry, idx>> /\ docs' = ds
           /\ pc'[p] = "report" /\ loc'[p].ev = evs
           /\ crossed' = crossed \cup (S \cap UNION {Pending(q) : q \in Busy \ {p}})
<1> DEFINE r == [loc[p] EXCEPT !.ev = evs]
<1>1. loc' = [loc EXCEPT ![p] = r] /\ pc' = [pc EXCEPT ![p] = "report"] /\ req' = req
  BY DEF Land, Local, Goto, Fixed
<1>2. {"ev", "ix"} \subseteq DOMAIN r /\ r.ev = evs
  BY LocalFields DEF Control, Typed
<1>3. "report" \in Labels
  BY DEF Labels
<1> HIDE DEF r
<1>4. Moves(p) /\ pc'[p] = "report" /\ loc'[p] = r
  BY <1>1, <1>2, <1>3, Moved DEF Control
<1> QED
  BY <1>2, <1>4 DEF Land, indexes

LEMMA OneEvent ==
    ASSUME NEW i \in Ids, NEW d \in Documents \cup {NoDoc}
    PROVE  /\ <<Event(i, d)>> \in Seq(Events) \ {<<>>}
           /\ {i} = {<<Event(i, d)>>[k].id : k \in DOMAIN <<Event(i, d)>>}
           /\ LastSays(<<Event(i, d)>>, i, d)
<1>1. Event(i, d) \in Events /\ Event(i, d).id = i /\ Event(i, d).doc = d
  BY DEF Event, Events
<1> DEFINE e == Event(i, d)
           s == <<e>>
<1> HIDE DEF e
<1>2. s \in Seq(Events) /\ s # <<>> /\ DOMAIN s = {1} /\ s[1] = e
  BY <1>1 DEF e
<1> HIDE DEF s
<1>3. {i} = {s[k].id : k \in DOMAIN s}
  BY <1>1, <1>2 DEF e
<1>4. LastSays(s, i, d)
  BY <1>1, <1>2 DEF e, LastSays
<1> QED
  BY <1>2, <1>3, <1>4 DEF e, s

LEMMA PutLands ==
    ASSUME Control, NEW p \in Procs, Put(p)
    PROVE  \E S, evs : Lands(p, S, evs)
<1> DEFINE i == req[p].id
           d == req[p].doc
           ds == With(docs, i, d)
           evs == <<Event(i, d)>>
<1>1. pc[p] = "put" /\ Fixed /\ Land(p, {i}, ds, evs)
  BY DEF Put
<1>2. i \in Ids /\ d \in Documents
  <2>1. Typed /\ Reporter(p)
    BY DEF Control
  <2>2. req[p] \in Requests /\ req[p].op = "put"
    BY <1>1, <2>1 DEF Typed, Reporter, Ops
  <2> QED
    BY <2>2, WellFormed
<1>3. /\ Moves(p) /\ UNCHANGED <<registry, idx>> /\ docs' = ds
      /\ pc'[p] = "report" /\ loc'[p].ev = evs
      /\ crossed' = crossed \cup ({i} \cap UNION {Pending(q) : q \in Busy \ {p}})
  BY <1>1, LandMoves
<1>4. PICK S \in SUBSET Ids : docs \in [S -> Documents]
  BY DEF Control, Typed
<1>5. ds \in [S \cup {i} -> Documents] /\ ds[i] = d /\ \A j \in S \ {i} : ds[j] = docs[j]
  BY <1>2, <1>4 DEF With
<1> HIDE DEF ds
<1>6. In(ds, i) = d /\ \A j \in Ids \ {i} : In(ds, j) = In(docs, j)
  BY <1>4, <1>5 DEF In
<1>7. \E D \in SUBSET Ids : ds \in [D -> Documents]
  BY <1>2, <1>5
<1>8. pc[p] \in Calm
  BY <1>1 DEF Calm, Labels, Ops
<1>9. /\ evs \in Seq(Events) \ {<<>>} /\ {i} = {evs[k].id : k \in DOMAIN evs}
      /\ LastSays(evs, i, d)
  BY <1>2, OneEvent
<1> HIDE DEF i, d, evs
<1>10. Lands(p, {i}, evs)
  BY <1>2, <1>3, <1>6, <1>7, <1>8, <1>9 DEF Lands, IdsOf
<1> QED
  BY <1>10

LEMMA DeleteEffect ==
    ASSUME Control, NEW p \in Procs, Delete(p)
    PROVE  Quiet(p) \/ \E S, evs : Lands(p, S, evs)
<1> DEFINE i == req[p].id
           evs == <<Event(i, NoDoc)>>
<1>1. pc[p] = "delete" /\ Fixed /\ pc[p] \in Calm
  BY DEF Delete, Calm, Labels, Ops
<1>2. i \in Ids
  BY WellFormed DEF Control, Typed
<1>3. CASE i \notin Live
  <2>1. "idle" \in Calm \ Ops
    BY DEF Calm, Labels, Ops
  <2>2. UNCHANGED <<docs, registry, idx, crossed, req, loc>> /\ pc' = [pc EXCEPT ![p] = "idle"]
    BY <1>1, <1>3 DEF Delete, Fixed, Flux, stored, indexes, Reply
  <2> QED
    BY <1>1, <2>1, <2>2, QuietReply DEF Control
<1>4. CASE i \in Live
  <2> DEFINE ds == [x \in Live \ {i} |-> docs[x]]
  <2>1. Land(p, {i}, ds, evs)
    BY <1>4, Zenon DEF Delete
  <2>2. /\ Moves(p) /\ UNCHANGED <<registry, idx>> /\ docs' = ds
        /\ pc'[p] = "report" /\ loc'[p].ev = evs
        /\ crossed' = crossed \cup ({i} \cap UNION {Pending(q) : q \in Busy \ {p}})
    BY <1>1, <2>1, LandMoves
  <2>3. PICK S \in SUBSET Ids : docs \in [S -> Documents]
    BY DEF Control, Typed
  <2>4. ds \in [S \ {i} -> Documents] /\ \A j \in S \ {i} : ds[j] = docs[j]
    BY <2>3 DEF Live
  <2> HIDE DEF ds
  <2>5. In(ds, i) = NoDoc /\ \A j \in Ids \ {i} : In(ds, j) = In(docs, j)
    BY <2>3, <2>4 DEF In
  <2>6. \E D \in SUBSET Ids : ds \in [D -> Documents]
    BY <2>4
  <2>7. /\ evs \in Seq(Events) \ {<<>>} /\ {i} = {evs[k].id : k \in DOMAIN evs}
        /\ LastSays(evs, i, NoDoc)
    BY <1>2, OneEvent
  <2> HIDE DEF i, evs
  <2>8. Lands(p, {i}, evs)
    BY <1>1, <1>2, <2>2, <2>5, <2>6, <2>7 DEF Lands, IdsOf
  <2> QED
    BY <2>8
<1> QED
  BY <1>3, <1>4

LEMMA CommitLands ==
    ASSUME Control, NEW p \in Procs, Commit(p)
    PROVE  \E S, evs : Lands(p, S, evs)
<1> DEFINE ws == req[p].writes
           last(i) == CHOOSE k \in DOMAIN ws :
                        ws[k].id = i /\ \A m \in DOMAIN ws : ws[m].id = i => m <= k
           S == {ws[k].id : k \in DOMAIN ws}
           ds == [x \in Live \cup S |-> IF x \in S THEN ws[last(x)].doc ELSE docs[x]]
<1>1. pc[p] = "tx" /\ Fixed /\ Land(p, S, ds, ws)
  BY Zenon DEF Commit
<1>2. ws \in Seq([id : Ids, doc : Documents]) \ {<<>>}
  <2>1. Typed /\ Reporter(p)
    BY DEF Control
  <2>2. req[p] \in Requests /\ req[p].op = "tx"
    BY <1>1, <2>1 DEF Typed, Reporter, Ops
  <2> QED
    BY <2>2, WellFormed
<1> HIDE DEF ws
<1>3. /\ Moves(p) /\ UNCHANGED <<registry, idx>> /\ docs' = ds
      /\ pc'[p] = "report" /\ loc'[p].ev = ws
      /\ crossed' = crossed \cup (S \cap UNION {Pending(q) : q \in Busy \ {p}})
  <2> HIDE DEF S, ds
  <2> QED
    BY <1>1, LandMoves
<1>4. PICK L \in SUBSET Ids : docs \in [L -> Documents]
  BY DEF Control, Typed
<1>5. DOMAIN ws = 1 .. Len(ws) /\ Len(ws) \in Nat
      /\ \A k \in DOMAIN ws : ws[k] \in [id : Ids, doc : Documents]
  <2> DEFINE W == [id : Ids, doc : Documents]
  <2> HIDE DEF W
  <2>1. ws \in Seq(W)
    BY <1>2 DEF W
  <2>2. DOMAIN ws = 1 .. Len(ws) /\ Len(ws) \in Nat /\ \A k \in DOMAIN ws : ws[k] \in W
    BY <2>1
  <2> QED
    BY <2>2 DEF W
<1>6. ASSUME NEW i \in S
      PROVE  /\ last(i) \in DOMAIN ws /\ ws[last(i)].id = i
             /\ \A m \in DOMAIN ws : ws[m].id = i => m <= last(i)
  <2> DEFINE K == {k \in DOMAIN ws : ws[k].id = i}
  <2>1. K \subseteq 0 .. Len(ws) /\ K # {}
    BY <1>5
  <2>2. \E k \in K : \A m \in K : m <= k
    <3> HIDE DEF K
    <3> QED
      BY <1>5, <2>1, GreatestNatural
  <2>3. \E k \in DOMAIN ws : ws[k].id = i /\ \A m \in DOMAIN ws : ws[m].id = i => m <= k
    BY <2>2
  <2> QED
    BY <2>3, Zenon
<1> HIDE DEF last
<1>7. S \subseteq Ids
  BY <1>5
<1>8. /\ ds \in [L \cup S -> Documents]
      /\ \A i \in S : ds[i] = ws[last(i)].doc
      /\ \A i \in L \ S : ds[i] = docs[i]
  <2> HIDE DEF S
  <2>1. \A i \in S : ws[last(i)].doc \in Documents
    BY <1>5, <1>6
  <2> QED
    BY <1>4, <2>1 DEF Live
<1> HIDE DEF ds
<1>9. \A i \in Ids \ S : In(ds, i) = In(docs, i)
  BY <1>4, <1>8 DEF In
<1>10. ASSUME NEW i \in S
       PROVE  LastSays(ws, i, In(ds, i))
  <2>1. In(ds, i) = ws[last(i)].doc
    BY <1>8 DEF In
  <2>2. \A m \in DOMAIN ws : m > last(i) => ws[m].id # i
    BY <1>5, <1>6
  <2> QED
    BY <1>6, <2>1, <2>2 DEF LastSays
<1>11. \E D \in SUBSET Ids : ds \in [D -> Documents]
  BY <1>7, <1>8
<1>12. pc[p] \in Calm
  BY <1>1 DEF Calm, Labels, Ops
<1>13. ws \in Seq(Events) \ {<<>>}
  <2> DEFINE W == [id : Ids, doc : Documents]
  <2>1. W \subseteq Events
    BY DEF Events
  <2> HIDE DEF W
  <2>2. ws \in Seq(W) /\ ws # <<>>
    BY <1>2 DEF W
  <2> QED
    BY <2>1, <2>2
<1>14. Lands(p, S, ws)
  <2>1. S = {ws[k].id : k \in DOMAIN ws}
    OBVIOUS
  <2> HIDE DEF S
  <2> QED
    BY <1>3, <1>7, <1>9, <1>10, <1>11, <1>12, <1>13, <2>1 DEF Lands, IdsOf
<1> QED
  BY <1>14

LEMMA DeleteOrgEmpties ==
    ASSUME Control, NEW p \in Procs, DeleteOrg(p)
    PROVE  Empties(p)
<1> DEFINE r == [loc[p] EXCEPT !.ev = <<Event(0, NoDoc)>>]
<1>1. loc' = [loc EXCEPT ![p] = r] /\ pc' = [pc EXCEPT ![p] = "report"] /\ req' = req
  BY DEF DeleteOrg, Local, Goto, Fixed
<1>2. {"ev", "ix"} \subseteq DOMAIN r /\ r.ev = <<Event(0, NoDoc)>>
  BY LocalFields DEF Control, Typed
<1>3. "report" \in Labels
  BY DEF Labels
<1> HIDE DEF r
<1>4. Moves(p) /\ pc'[p] = "report" /\ loc'[p] = r
  BY <1>1, <1>2, <1>3, Moved DEF Control
<1>5. pc[p] \in Calm
  BY DEF DeleteOrg, Calm, Labels, Ops
<1>6. docs' \in [{} -> Documents]
  BY DEF DeleteOrg
<1> QED
  BY <1>2, <1>4, <1>5, <1>6 DEF Empties, DeleteOrg, indexes, Event

LEMMA TailFacts ==
    ASSUME NEW s \in Seq(Events), s # <<>>
    PROVE  /\ Head(s) \in Events /\ Tail(s) \in Seq(Events)
           /\ Len(s) = 1 <=> Tail(s) = <<>>
           /\ IdsOf(s) = {Head(s).id} \cup IdsOf(Tail(s))
           /\ \A i, d : LastSays(s, i, d) =>
                IF i \in IdsOf(Tail(s)) THEN LastSays(Tail(s), i, d) ELSE Head(s).doc = d
<1> DEFINE E == Events
<1> HIDE DEF E
<1>0. s \in Seq(E) /\ s # <<>>
  BY DEF E
<1> DEFINE t == Tail(s)
<1>1. /\ Len(s) \in Nat \ {0} /\ DOMAIN s = 1 .. Len(s) /\ s[1] = Head(s) /\ s[1] \in E
      /\ t \in Seq(E) /\ DOMAIN t = 1 .. (Len(s) - 1) /\ Len(t) = Len(s) - 1
      /\ \A k \in 1 .. (Len(s) - 1) : t[k] = s[k + 1]
  <2>1. Len(s) \in Nat \ {0} /\ DOMAIN s = 1 .. Len(s) /\ s[1] = Head(s) /\ s[1] \in E
    BY <1>0
  <2>2. t \in Seq(E) /\ Len(t) = Len(s) - 1
    BY <1>0
  <2>3. DOMAIN t = 1 .. (Len(s) - 1)
    BY <2>2
  <2>4. \A k \in 1 .. (Len(s) - 1) : t[k] = s[k + 1]
    BY <1>0
  <2> QED
    BY <2>1, <2>2, <2>3, <2>4
<1> HIDE DEF t
<1>2. Len(s) = 1 <=> t = <<>>
  <2>1. t = <<>> <=> Len(t) = 0
    BY <1>1
  <2> QED
    BY <1>1, <2>1
<1>3. IdsOf(s) = {s[1].id} \cup IdsOf(t)
  <2>1. ASSUME NEW k \in DOMAIN s
        PROVE  s[k].id \in {s[1].id} \cup IdsOf(t)
    <3>1. CASE k = 1
      BY <3>1
    <3>2. CASE k # 1
      <4>1. k - 1 \in DOMAIN t /\ t[k - 1] = s[k]
        BY <3>2, <1>1
      <4> QED
        BY <4>1 DEF IdsOf
    <3> QED
      BY <3>1, <3>2
  <2>2. ASSUME NEW k \in DOMAIN t
        PROVE  t[k].id \in IdsOf(s)
    <3>1. k + 1 \in DOMAIN s /\ t[k] = s[k + 1]
      BY <1>1
    <3> QED
      BY <3>1 DEF IdsOf
  <2>3. 1 \in DOMAIN s
    BY <1>1
  <2> QED
    BY <2>1, <2>2, <2>3 DEF IdsOf
<1>4. ASSUME NEW i, NEW d, LastSays(s, i, d)
      PROVE  IF i \in IdsOf(t) THEN LastSays(t, i, d) ELSE s[1].doc = d
  <2>1. PICK k \in DOMAIN s : /\ s[k].id = i /\ s[k].doc = d
                              /\ \A m \in DOMAIN s : m > k => s[m].id # i
    BY <1>4 DEF LastSays
  <2>2. CASE k = 1
    <3>1. ASSUME NEW m \in DOMAIN t
          PROVE  t[m].id # i
      <4>1. m + 1 \in DOMAIN s /\ t[m] = s[m + 1] /\ m + 1 > k
        BY <2>2, <1>1
      <4> QED
        BY <2>1, <4>1
    <3> QED
      BY <2>1, <2>2, <3>1 DEF IdsOf
  <2>3. CASE k # 1
    <3>1. k - 1 \in DOMAIN t /\ t[k - 1] = s[k]
      BY <2>3, <1>1
    <3>2. ASSUME NEW m \in DOMAIN t, m > k - 1
          PROVE  t[m].id # i
      <4>1. m + 1 \in DOMAIN s /\ t[m] = s[m + 1] /\ m + 1 > k
        BY <3>2, <1>1
      <4> QED
        BY <2>1, <4>1
    <3>3. LastSays(t, i, d) /\ i \in IdsOf(t)
      BY <2>1, <3>1, <3>2 DEF LastSays, IdsOf
    <3> QED
      BY <3>3
  <2> QED
    BY <2>2, <2>3
<1> QED
  BY <1>1, <1>2, <1>3, <1>4 DEF E, t

LEMMA ReportedFirst ==
    ASSUME Control, NEW p \in Procs, Reported(p), req' = req, loc[p].ev # <<>>
    PROVE  Moves(p) /\ FirstDone(p)
<1> DEFINE r == [loc[p] EXCEPT !.ev = Tail(@), !.ix = NoIndex]
<1>1. loc' = [loc EXCEPT ![p] = r] /\ req' = req
  BY DEF Reported, Local
<1>2. {"ev", "ix"} \subseteq DOMAIN r /\ r.ev = Tail(loc[p].ev)
  BY LocalFields DEF Control, Typed
<1>3. {"report", "idle"} \subseteq Labels
  BY DEF Labels
<1> HIDE DEF r
<1>4. loc[p].ev \in Seq(Events)
  BY DEF Control, Typed
<1>5. Len(loc[p].ev) = 1 <=> Tail(loc[p].ev) = <<>>
  BY <1>4, TailFacts
<1>6. CASE Len(loc[p].ev) = 1
  <2>1. pc' = [pc EXCEPT ![p] = "idle"]
    BY <1>6 DEF Reported, Reply
  <2>2. Moves(p) /\ pc'[p] = "idle" /\ loc'[p] = r
    BY <1>1, <1>2, <1>3, <2>1, Moved DEF Control
  <2> QED
    BY <1>2, <1>5, <1>6, <2>2 DEF FirstDone
<1>7. CASE Len(loc[p].ev) # 1
  <2>1. pc' = [pc EXCEPT ![p] = "report"]
    BY <1>7 DEF Reported, Goto
  <2>2. Moves(p) /\ pc'[p] = "report" /\ loc'[p] = r
    BY <1>1, <1>2, <1>3, <2>1, Moved DEF Control
  <2> QED
    BY <1>2, <1>5, <1>7, <2>2 DEF FirstDone
<1> QED
  BY <1>6, <1>7

LEMMA ObserveEffect ==
    ASSUME Control, NEW p \in Procs, Observe(p)
    PROVE  Passes(p) \/ Finds(p)
<1>1. /\ pc[p] = "report" /\ UNCHANGED <<docs, idx, crossed, req>> /\ loc[p].ev # <<>>
  BY DEF Observe, Fixed, Flux, stored, Control, Reporter
<1>2. CASE registry' = NoIndex /\ Reported(p)
  BY <1>1, <1>2, ReportedFirst DEF Passes
<1>3. CASE /\ Head(loc[p].ev).id # 0 /\ registry # NoIndex
           /\ Local(p, [loc[p] EXCEPT !.ix = registry]) /\ Goto(p, "apply")
           /\ UNCHANGED registry
  <2> DEFINE r == [loc[p] EXCEPT !.ix = registry]
  <2>1. loc' = [loc EXCEPT ![p] = r] /\ pc' = [pc EXCEPT ![p] = "apply"]
    BY <1>3 DEF Local, Goto
  <2>2. Kept(r, loc[p]) /\ r.ix = registry
    BY LocalFields DEF Control, Typed
  <2>3. "apply" \in Labels
    BY DEF Labels
  <2> HIDE DEF r
  <2>4. Moves(p) /\ pc'[p] = "apply" /\ loc'[p] = r
    BY <1>1, <2>1, <2>2, <2>3, Moved DEF Control, Kept
  <2> QED
    BY <1>1, <1>3, <2>2, <2>4 DEF Finds, Kept
<1> QED
  BY <1>2, <1>3 DEF Observe

LEMMA ObserveApplyEffect ==
    ASSUME Control, NEW p \in Procs, ObserveApply(p)
    PROVE  Applies(p)
<1>1. /\ pc[p] = "apply" /\ UNCHANGED <<docs, registry, crossed, req>> /\ loc[p].ev # <<>>
      /\ idx[loc[p].ix].lock = Nobody /\ Reported(p) /\ loc[p].ix \in Indexes
  BY DEF ObserveApply, Fixed, Flux, stored, Control, Reporter, Unlocked
<1>2. Moves(p) /\ FirstDone(p)
  BY <1>1, ReportedFirst
<1> DEFINE e == Head(loc[p].ev)
           x == loc[p].ix
<1>3. idx' = [idx EXCEPT ![x].c = Applied(@, e.id, e.doc)]
  BY Zenon DEF ObserveApply, Applied
<1>4. Becomes(x, [idx[x] EXCEPT !.c = Applied(@, e.id, e.doc)])
  <2> HIDE DEF e, x
  <2>1. x \in Indexes
    BY <1>1 DEF x
  <2> QED
    BY <1>3, <2>1 DEF Becomes, Control, Typed
<1> QED
  BY <1>1, <1>2, <1>4 DEF Applies

LEMMA InsertEffect ==
    ASSUME Control, NEW p \in Procs, Insert(p)
    PROVE  Quiet(p) \/ \E x \in Indexes : Registers(p, x)
<1>1. /\ pc[p] \in Calm /\ UNCHANGED <<docs, crossed, req>> /\ loc[p].ev = <<>>
      /\ "plan" \in Calm \ Ops
  BY DEF Insert, Fixed, Flux, stored, Control, Reporter, Calm, Labels, Ops
<1>2. CASE /\ registry # NoIndex
           /\ Local(p, [loc[p] EXCEPT !.ix = registry]) /\ Goto(p, "plan")
           /\ UNCHANGED indexes
  <2> DEFINE r == [loc[p] EXCEPT !.ix = registry]
  <2>1. /\ loc' = [loc EXCEPT ![p] = r] /\ pc' = [pc EXCEPT ![p] = "plan"]
        /\ UNCHANGED <<registry, idx>>
    BY <1>2 DEF Local, Goto, indexes
  <2>2. Kept(r, loc[p])
    BY LocalFields DEF Control, Typed
  <2> HIDE DEF r
  <2> QED
    BY <1>1, <2>1, <2>2, QuietMove DEF Control
<1>3. CASE /\ registry = NoIndex
           /\ \E x \in Indexes :
                /\ ~idx[x].used /\ \A y \in Indexes : y < x => idx[y].used
                /\ registry' = x
                /\ idx' = [idx EXCEPT ![x] = [lock |-> p, used |-> TRUE, whole |-> FALSE, c |-> @.c]]
                /\ Local(p, [loc[p] EXCEPT !.ix = x])
           /\ Goto(p, "build")
  <2> PICK x \in Indexes :
        /\ ~idx[x].used /\ registry' = x
        /\ idx' = [idx EXCEPT ![x] = [lock |-> p, used |-> TRUE, whole |-> FALSE, c |-> @.c]]
        /\ Local(p, [loc[p] EXCEPT !.ix = x])
    BY <1>3
  <2> DEFINE r == [loc[p] EXCEPT !.ix = x]
  <2>1. loc' = [loc EXCEPT ![p] = r] /\ pc' = [pc EXCEPT ![p] = "build"]
    BY <1>3 DEF Local, Goto
  <2>2. Kept(r, loc[p]) /\ r.ix = x
    BY LocalFields DEF Control, Typed
  <2>3. "build" \in Labels
    BY DEF Labels
  <2> HIDE DEF r
  <2>4. Moves(p) /\ pc'[p] = "build" /\ loc'[p] = r
    BY <1>1, <2>1, <2>2, <2>3, Moved DEF Control, Kept
  <2>5. Becomes(x, [lock |-> p, used |-> TRUE, whole |-> FALSE, c |-> idx[x].c])
    BY DEF Becomes, Control, Typed
  <2>6. loc'[p].ev = <<>> /\ loc'[p].ix = x
    BY <1>1, <2>2, <2>4 DEF Kept
  <2>7. Registers(p, x)
    BY <1>1, <1>3, <2>4, <2>5, <2>6 DEF Registers
  <2> QED
    BY <2>7
<1> QED
  BY <1>2, <1>3 DEF Insert

LEMMA BuildEffect ==
    ASSUME Control, NEW p \in Procs, Build(p)
    PROVE  Builds(p)
<1>1. /\ pc[p] = "build" /\ UNCHANGED <<docs, registry, crossed, req, loc>>
      /\ pc' = [pc EXCEPT ![p] = "plan"] /\ loc[p].ix \in Indexes
  BY DEF Build, Fixed, Flux, stored, Goto, Control, Reporter
<1>2. "plan" \in Labels /\ "plan" \in Calm \ Ops
  BY DEF Calm, Labels, Ops
<1>3. Moves(p) /\ pc'[p] = "plan" /\ loc'[p] = loc[p]
  BY <1>1, <1>2, MovedOnly DEF Control
<1> DEFINE x == loc[p].ix
           e == [lock |-> Nobody, used |-> TRUE, whole |-> TRUE, c |-> PutAll(idx[x].c, docs)]
<1>4. idx' = [idx EXCEPT ![x] = e]
  BY Zenon DEF Build
<1>5. Becomes(x, e)
  <2> HIDE DEF e
  <2> QED
    BY <1>1, <1>4 DEF Becomes, Control, Typed
<1> QED
  BY <1>1, <1>2, <1>3, <1>5 DEF Builds

LEMMA BuildFailsEffect ==
    ASSUME Control, NEW p \in Procs, BuildFails(p)
    PROVE  \E S : Fails(p, S)
<1>1. /\ pc[p] = "build" /\ UNCHANGED <<docs, crossed, req, loc>> /\ registry' = NoIndex
      /\ pc' = [pc EXCEPT ![p] = "idle"] /\ loc[p].ix \in Indexes
  BY DEF BuildFails, stored, Reply, Control, Reporter
<1>2. "idle" \in Labels /\ "idle" \in Calm \ Ops
  BY DEF Calm, Labels, Ops
<1>3. Moves(p) /\ pc'[p] = "idle" /\ loc'[p] = loc[p]
  BY <1>1, <1>2, MovedOnly DEF Control
<1> PICK n \in Ids :
        idx' = [idx EXCEPT ![loc[p].ix] =
                  [lock |-> Nobody, used |-> TRUE, whole |-> FALSE,
                   c |-> PutAll(@.c, [i \in {i \in Live : i < n} |-> docs[i]])]]
  BY Zenon DEF BuildFails
<1> DEFINE x == loc[p].ix
           S == {i \in Live : i < n}
           e == [lock |-> Nobody, used |-> TRUE, whole |-> FALSE,
                 c |-> PutAll(idx[x].c, [i \in S |-> docs[i]])]
<1>4. idx' = [idx EXCEPT ![x] = e]
  BY Zenon
<1>5. Becomes(x, e)
  <2> HIDE DEF e
  <2> QED
    BY <1>1, <1>4 DEF Becomes, Control, Typed
<1>6. S \in SUBSET Live
  OBVIOUS
<1> HIDE DEF S
<1> QED
  BY <1>1, <1>2, <1>3, <1>5, <1>6 DEF Fails

\* Every step of the system is one of these, or changes nothing of this.
LEMMA StepEffect ==
    ASSUME Control, [Next]_vars
    PROVE  \/ \E p \in Procs : Effect(p)
           \/ UNCHANGED <<docs, registry, idx, pc, req, loc, crossed>>
<1>1. CASE UNCHANGED vars \/ Done
  BY <1>1 DEF vars, Done
<1>2. ASSUME NEW p \in Procs, Begin(p) \/ Step(p) \/ BuildFails(p) \/ StoreError(p)
      PROVE  Effect(p)
  <2>1. CASE Begin(p) \/ StoreError(p) \/ SetACL(p) \/ StartSearch(p) \/ Page(p)
    BY <2>1, BeginQuiet, StoreErrorQuiet, SetACLQuiet, StartSearchQuiet, PageQuiet DEF Effect
  <2>2. CASE \/ ResolvePlan(p) \/ CollectAll(p) \/ FetchScan(p) \/ FetchEach(p)
             \/ FilterEach(p) \/ FilterBulk(p)
    BY <2>2, ResolvePlanQuiet, FetchQuiet, FilterQuiet DEF Effect
  <2>3. CASE Put(p) \/ Delete(p) \/ Commit(p) \/ DeleteOrg(p)
    BY <2>3, PutLands, DeleteEffect, CommitLands, DeleteOrgEmpties DEF Effect
  <2>4. CASE Observe(p) \/ ObserveApply(p)
    BY <2>4, ObserveEffect, ObserveApplyEffect DEF Effect
  <2>5. CASE Insert(p) \/ Build(p) \/ BuildFails(p)
    BY <2>5, InsertEffect, BuildEffect, BuildFailsEffect DEF Effect
  <2> QED
    BY <1>2, <2>1, <2>2, <2>3, <2>4, <2>5 DEF Step
<1> QED
  BY <1>1, <1>2 DEF Next

-----------------------------------------------------------------------------
(* The control invariant.                                                   *)

LEMMA BecomesFacts ==
    ASSUME Typed, NEW x \in Indexes, NEW e \in IndexObjects, Becomes(x, e)
    PROVE  /\ idx' \in [Indexes -> IndexObjects] /\ idx'[x] = e
           /\ \A y \in Indexes \ {x} : idx'[y] = idx[y]
  BY DEF Typed, Becomes

\* The index that p builds is empty and locked by p.
LEMMA Building ==
    ASSUME Control, NEW p \in Procs, pc[p] = "build"
    PROVE  /\ loc[p].ix \in Indexes /\ idx[loc[p].ix].lock = p /\ idx[loc[p].ix].used
           /\ idx[loc[p].ix].c = newCollIndex
<1>1. loc[p].ix \in Indexes /\ idx[loc[p].ix].lock = p
  BY DEF Control, Reporter
<1>2. p # Nobody
  BY Distinct
<1> QED
  BY <1>1, <1>2 DEF Control, Stages

\* What becomes of the index that a step changes.
LEMMA BuildsTo ==
    ASSUME Control, NEW p \in Procs, Builds(p)
    PROVE  \E e \in IndexObjects :
              /\ Becomes(loc[p].ix, e) /\ e.lock = Nobody /\ e.used /\ e.whole
              /\ \A i \in Ids : Holds(e.c, i, Now(i))
<1>1. /\ loc[p].ix \in Indexes /\ idx[loc[p].ix].c = newCollIndex
  BY Building DEF Builds
<1>2. PICK S \in SUBSET Ids : docs \in [S -> Documents]
  BY DEF Control, Typed
<1>3. PutAll(newCollIndex, docs) \in Collections
      /\ \A i \in Ids : Holds(PutAll(newCollIndex, docs), i, Now(i))
  BY <1>2, PutAllFacts DEF Now
<1> DEFINE c == PutAll(newCollIndex, docs)
           e == [lock |-> Nobody, used |-> TRUE, whole |-> TRUE, c |-> c]
<1>4. Becomes(loc[p].ix, e)
  BY <1>1 DEF Builds
<1> HIDE DEF c
<1>5. e \in IndexObjects /\ e.lock = Nobody /\ e.used /\ e.whole /\ e.c = c
  BY <1>3 DEF IndexObjects, c
<1> HIDE DEF e
<1> QED
  BY <1>3, <1>4, <1>5 DEF c

LEMMA FailsTo ==
    ASSUME Control, NEW p \in Procs, NEW S, Fails(p, S)
    PROVE  \E e \in IndexObjects : Becomes(loc[p].ix, e) /\ e.lock = Nobody /\ e.used
<1>1. /\ loc[p].ix \in Indexes /\ idx[loc[p].ix].c = newCollIndex
  BY Building DEF Fails
<1>2. PICK L \in SUBSET Ids : docs \in [L -> Documents]
  BY DEF Control, Typed
<1> DEFINE ds == [i \in S |-> docs[i]]
<1>3. S \in SUBSET Ids /\ ds \in [S -> Documents]
  BY <1>2 DEF Fails, Live
<1> HIDE DEF ds
<1>4. PutAll(newCollIndex, ds) \in Collections
  BY <1>3, PutAllFacts
<1> DEFINE c == PutAll(newCollIndex, ds)
           e == [lock |-> Nobody, used |-> TRUE, whole |-> FALSE, c |-> c]
<1>5. Becomes(loc[p].ix, e)
  BY <1>1 DEF Fails, ds
<1> HIDE DEF c
<1>6. e \in IndexObjects /\ e.lock = Nobody /\ e.used
  BY <1>4 DEF IndexObjects, c
<1> HIDE DEF e
<1> QED
  BY <1>5, <1>6

LEMMA AppliesTo ==
    ASSUME Control, NEW p \in Procs, Applies(p)
    PROVE  \E e \in IndexObjects :
              /\ Becomes(loc[p].ix, e) /\ e.lock = Nobody /\ e.used
              /\ e.whole = idx[loc[p].ix].whole
              /\ e.c = Applied(idx[loc[p].ix].c, Head(loc[p].ev).id, Head(loc[p].ev).doc)
              /\ Head(loc[p].ev).id \in Ids /\ Head(loc[p].ev).doc \in Documents \cup {NoDoc}
<1> DEFINE h == Head(loc[p].ev)
           x == loc[p].ix
           d == idx[x]
           c == Applied(d.c, h.id, h.doc)
           e == [d EXCEPT !.c = c]
<1>1. x \in Indexes /\ d.used /\ d.lock = Nobody /\ d \in IndexObjects
  BY DEF Applies, Control, Reporter, Typed
<1>2. h \in Events /\ h.id # 0
  <2>1. loc[p].ev \in Seq(Events) /\ loc[p].ev # <<>> /\ h.id # 0
    BY DEF Applies, Control, Reporter, Typed
  <2> QED
    BY <2>1, TailFacts
<1>3. h.id \in Ids /\ h.doc \in Documents \cup {NoDoc}
  BY <1>2 DEF Events
<1>4. Becomes(x, e)
  BY DEF Applies
<1> HIDE DEF h, x, d
<1>5. c \in Collections
  BY <1>1, <1>3, AppliedFacts DEF IndexObjects
<1> HIDE DEF c
<1>6. e \in IndexObjects /\ e.lock = Nobody /\ e.used /\ e.whole = d.whole /\ e.c = c
  BY <1>1, <1>5 DEF IndexObjects
<1> HIDE DEF e
<1> QED
  BY <1>3, <1>4, <1>6 DEF h, x, d, c

LEMMA RegistersTo ==
    ASSUME Control, NEW p \in Procs, NEW x \in Indexes, Registers(p, x)
    PROVE  \E e \in IndexObjects :
              Becomes(x, e) /\ e.lock = p /\ e.used /\ e.c = newCollIndex
<1> DEFINE e == [lock |-> p, used |-> TRUE, whole |-> FALSE, c |-> idx[x].c]
<1>1. idx[x].c = newCollIndex
  BY DEF Registers, Control, Stages
<1>2. e \in IndexObjects /\ e.lock = p /\ e.used /\ e.c = newCollIndex
  BY <1>1, NewIndex DEF IndexObjects
<1>3. Becomes(x, e)
  BY DEF Registers
<1> HIDE DEF e
<1> QED
  BY <1>2, <1>3

\* The locks after a step of p, and no index forgets that it was registered.
Locks(p) ==
    /\ idx' \in [Indexes -> IndexObjects]
    /\ \A x \in Indexes :
        /\ idx[x].used => idx'[x].used
        /\ \A q \in Procs \ {p} : idx'[x].lock = q <=> idx[x].lock = q
        /\ idx'[x].lock = p <=> pc'[p] = "build" /\ loc'[p].ix = x

LEMMA LocksStep ==
    ASSUME Control, NEW p \in Procs, Effect(p)
    PROVE  Locks(p)
<1>1. /\ idx \in [Indexes -> IndexObjects] /\ p # Nobody
      /\ \A x \in Indexes : idx[x].lock = p <=> pc[p] = "build" /\ loc[p].ix = x
  BY Distinct DEF Control, Typed, Reporter
<1>2. CASE Quiet(p) \/ Empties(p) \/ Passes(p) \/ Finds(p) \/ \E S, evs : Lands(p, S, evs)
  <2>1. idx' = idx /\ pc[p] # "build" /\ pc'[p] # "build"
    BY <1>2 DEF Quiet, Empties, Passes, Finds, Lands, Calm, FirstDone
  <2> QED
    BY <1>1, <2>1 DEF Locks
<1>3. CASE Applies(p)
  <2> DEFINE x == loc[p].ix
  <2>1. PICK e \in IndexObjects : Becomes(x, e) /\ e.lock = Nobody /\ e.used
    BY <1>3, AppliesTo
  <2>2. x \in Indexes /\ idx[x].lock = Nobody /\ pc[p] # "build" /\ pc'[p] # "build"
    BY <1>3 DEF Applies, FirstDone, Control, Reporter
  <2> HIDE DEF x
  <2>3. /\ idx' \in [Indexes -> IndexObjects] /\ idx'[x] = e
        /\ \A y \in Indexes \ {x} : idx'[y] = idx[y]
    BY <2>1, <2>2, BecomesFacts DEF Control
  <2> QED
    BY <1>1, <2>1, <2>2, <2>3, Distinct DEF Locks
<1>4. CASE Builds(p) \/ \E S : Fails(p, S)
  <2> DEFINE x == loc[p].ix
  <2>1. PICK e \in IndexObjects : Becomes(x, e) /\ e.lock = Nobody /\ e.used
    BY <1>4, BuildsTo, FailsTo
  <2>2. pc[p] = "build" /\ pc'[p] # "build"
    BY <1>4 DEF Builds, Fails, Calm
  <2>3. x \in Indexes /\ idx[x].lock = p
    BY <2>2, Building
  <2>4. \A y \in Indexes \ {x} : idx[y].lock # p
    BY <1>1
  <2> HIDE DEF x
  <2>5. /\ idx' \in [Indexes -> IndexObjects] /\ idx'[x] = e
        /\ \A y \in Indexes \ {x} : idx'[y] = idx[y]
    BY <2>1, <2>3, BecomesFacts DEF Control
  <2> QED
    BY <1>1, <2>1, <2>2, <2>3, <2>4, <2>5, Distinct DEF Locks
<1>5. CASE \E x \in Indexes : Registers(p, x)
  <2>1. PICK x \in Indexes : Registers(p, x)
    BY <1>5
  <2>2. PICK e \in IndexObjects : Becomes(x, e) /\ e.lock = p /\ e.used
    BY <2>1, RegistersTo
  <2>3. /\ pc[p] # "build" /\ pc'[p] = "build" /\ loc'[p].ix = x
        /\ idx[x].lock = Nobody
    BY <2>1 DEF Registers, Calm, Control, Stages
  <2>4. /\ idx' \in [Indexes -> IndexObjects] /\ idx'[x] = e
        /\ \A y \in Indexes \ {x} : idx'[y] = idx[y]
    BY <2>2, BecomesFacts DEF Control
  <2> QED
    BY <1>1, <2>2, <2>3, <2>4, Distinct DEF Locks
<1> QED
  BY <1>2, <1>3, <1>4, <1>5 DEF Effect

\* p's reports after its step.
Reports(p) ==
    /\ Moves(p) /\ loc'[p].ev \in Seq(Events)
    /\ loc'[p].ev # <<>> <=> pc'[p] \in {"report", "apply"}
    /\ pc'[p] \in Ops => pc'[p] = req'[p].op
    /\ pc'[p] = "apply" => /\ loc'[p].ix \in Indexes /\ idx[loc'[p].ix].used
                           /\ Head(loc'[p].ev).id # 0
    /\ pc'[p] = "build" => loc'[p].ix \in Indexes

LEMMA ReportsStep ==
    ASSUME Control, NEW p \in Procs, Effect(p)
    PROVE  Reports(p)
<1>1. /\ loc[p].ev \in Seq(Events)
      /\ loc[p].ev # <<>> <=> pc[p] \in {"report", "apply"}
  BY DEF Control, Typed, Reporter
<1>2. CASE Quiet(p)
  BY <1>2 DEF Quiet, Reports, Calm
<1>3. CASE \E S, evs : Lands(p, S, evs)
  <2> PICK S, evs : Lands(p, S, evs)
    BY <1>3
  <2> QED
    BY DEF Lands, Reports, Ops
<1>4. CASE Empties(p)
  <2> DEFINE s == <<[id |-> 0, doc |-> NoDoc]>>
  <2>1. s \in Seq(Events) /\ s # <<>>
    BY DEF Events
  <2> HIDE DEF s
  <2>2. Moves(p) /\ loc'[p].ev = s /\ pc'[p] = "report"
    BY <1>4 DEF Empties, s
  <2> QED
    BY <2>1, <2>2 DEF Reports, Ops
<1>5. CASE Passes(p) \/ Applies(p)
  <2>1. Moves(p) /\ FirstDone(p) /\ loc[p].ev # <<>>
    BY <1>1, <1>5 DEF Passes, Applies
  <2>2. Tail(loc[p].ev) \in Seq(Events)
    BY <1>1, <2>1, TailFacts
  <2> QED
    BY <2>1, <2>2 DEF FirstDone, Reports, Ops
<1>6. CASE Finds(p)
  <2>1. registry \in Indexes /\ idx[registry].used
    BY <1>6 DEF Finds, Control, Typed, Stages
  <2> QED
    BY <1>1, <1>6, <2>1 DEF Finds, Reports, Ops
<1>7. CASE Builds(p) \/ \E S : Fails(p, S)
  BY <1>1, <1>7 DEF Builds, Fails, Reports, Calm
<1>8. CASE \E x \in Indexes : Registers(p, x)
  BY <1>8 DEF Registers, Reports, Ops
<1> QED
  BY <1>2, <1>3, <1>4, <1>5, <1>6, <1>7, <1>8 DEF Effect

LEMMA ReporterStep ==
    ASSUME Control, NEW p \in Procs, Effect(p), NEW q \in Procs
    PROVE  Reporter(q)'
<1>1. Locks(p) /\ Reports(p)
  BY LocksStep, ReportsStep
<1>2. CASE q = p
  BY <1>1, <1>2 DEF Locks, Reports, Reporter
<1>3. CASE q # p
  <2>1. pc'[q] = pc[q] /\ loc'[q] = loc[q] /\ req'[q] = req[q]
    BY <1>1, <1>3 DEF Reports, Moves
  <2>2. Reporter(q)
    BY DEF Control
  <2> QED
    BY <1>1, <1>3, <2>1, <2>2 DEF Locks, Reporter
<1> QED
  BY <1>2, <1>3

LEMMA TypedStep ==
    ASSUME Control, NEW p \in Procs, Effect(p)
    PROVE  Typed'
<1>1. Locks(p) /\ Reports(p) /\ Typed
  BY LocksStep, ReportsStep DEF Control
<1>2. \E S \in SUBSET Ids : docs' \in [S -> Documents]
  <2>1. docs' = docs \/ docs' \in [{} -> Documents] \/ \E S, evs : Lands(p, S, evs)
    BY DEF Effect, Quiet, Empties, Passes, Finds, Applies, Builds, Fails, Registers
  <2> QED
    BY <1>1, <2>1 DEF Typed, Lands
<1>3. registry' \in Indexes \cup {NoIndex}
  <2>1. registry' = registry \/ registry' = NoIndex \/ registry' \in Indexes
    BY DEF Effect, Quiet, Empties, Passes, Finds, Applies, Builds, Fails, Registers, Lands
  <2> QED
    BY <1>1, <2>1 DEF Typed
<1>4. \A q \in Procs : {"ev", "ix"} \subseteq DOMAIN loc'[q] /\ loc'[q].ev \in Seq(Events)
  <2> TAKE q \in Procs
  <2>1. CASE q = p
    BY <1>1, <2>1 DEF Reports, Moves
  <2>2. CASE q # p
    BY <1>1, <2>2 DEF Reports, Moves, Typed
  <2> QED
    BY <2>1, <2>2
<1> QED
  BY <1>1, <1>2, <1>3, <1>4 DEF Typed, Locks, Reports, Moves

LEMMA StagesStep ==
    ASSUME Control, NEW p \in Procs, Effect(p)
    PROVE  Stages' /\ RegisteredIsWhole'
<1>1. Typed /\ Stages /\ RegisteredIsWhole
  BY DEF Control
<1>2. CASE Quiet(p) \/ Empties(p) \/ Finds(p) \/ \E S, evs : Lands(p, S, evs)
  <2>1. idx' = idx /\ registry' = registry
    BY <1>2 DEF Quiet, Empties, Finds, Lands
  <2> QED
    BY <1>1, <2>1 DEF Stages, RegisteredIsWhole
<1>3. CASE Passes(p)
  <2>1. idx' = idx /\ registry' = NoIndex
    BY <1>3 DEF Passes
  <2> QED
    BY <1>1, <2>1 DEF Stages, RegisteredIsWhole
<1>4. CASE Applies(p)
  <2> DEFINE x == loc[p].ix
  <2>1. PICK e \in IndexObjects :
            Becomes(x, e) /\ e.lock = Nobody /\ e.used /\ e.whole = idx[x].whole
    BY <1>4, AppliesTo
  <2>2. x \in Indexes /\ idx[x].lock = Nobody /\ registry' = registry
    BY <1>4 DEF Applies, Control, Reporter
  <2> HIDE DEF x
  <2>3. idx'[x] = e /\ \A y \in Indexes \ {x} : idx'[y] = idx[y]
    BY <1>1, <2>1, <2>2, BecomesFacts
  <2>4. registry # NoIndex => registry \in Indexes
    BY <1>1 DEF Typed
  <2> QED
    BY <1>1, <2>1, <2>2, <2>3, <2>4 DEF Stages, RegisteredIsWhole
<1>5. CASE Builds(p)
  <2> DEFINE x == loc[p].ix
  <2>1. PICK e \in IndexObjects : Becomes(x, e) /\ e.lock = Nobody /\ e.used /\ e.whole
    BY <1>5, BuildsTo
  <2>2. x \in Indexes /\ registry' = registry
    BY <1>5, Building DEF Builds
  <2> HIDE DEF x
  <2>3. idx'[x] = e /\ \A y \in Indexes \ {x} : idx'[y] = idx[y]
    BY <1>1, <2>1, <2>2, BecomesFacts
  <2>4. registry # NoIndex => registry \in Indexes
    BY <1>1 DEF Typed
  <2> QED
    BY <1>1, <2>1, <2>2, <2>3, <2>4 DEF Stages, RegisteredIsWhole
<1>6. CASE \E S : Fails(p, S)
  <2> DEFINE x == loc[p].ix
  <2>1. PICK e \in IndexObjects : Becomes(x, e) /\ e.lock = Nobody /\ e.used
    BY <1>6, FailsTo
  <2>2. x \in Indexes /\ registry' = NoIndex
    BY <1>6, Building DEF Fails
  <2> HIDE DEF x
  <2>3. idx'[x] = e /\ \A y \in Indexes \ {x} : idx'[y] = idx[y]
    BY <1>1, <2>1, <2>2, BecomesFacts
  <2> QED
    BY <1>1, <2>1, <2>2, <2>3 DEF Stages, RegisteredIsWhole
<1>7. CASE \E x \in Indexes : Registers(p, x)
  <2>1. PICK x \in Indexes : Registers(p, x)
    BY <1>7
  <2>2. PICK e \in IndexObjects : Becomes(x, e) /\ e.lock = p /\ e.used /\ e.c = newCollIndex
    BY <2>1, RegistersTo
  <2>3. registry' = x /\ p # Nobody
    BY <2>1, Distinct DEF Registers
  <2>4. idx'[x] = e /\ \A y \in Indexes \ {x} : idx'[y] = idx[y]
    BY <1>1, <2>2, BecomesFacts
  <2> QED
    BY <1>1, <2>2, <2>3, <2>4 DEF Stages, RegisteredIsWhole
<1> QED
  BY <1>2, <1>3, <1>4, <1>5, <1>6, <1>7 DEF Effect

LEMMA ControlKept ==
    ASSUME Control, NEW p \in Procs, Effect(p)
    PROVE  Control'
  BY TypedStep, ReporterStep, StagesStep DEF Control

LEMMA ControlStep == Control /\ [Next]_vars => Control'
<1> SUFFICES ASSUME Control, [Next]_vars
             PROVE  Control'
  OBVIOUS
<1>1. CASE UNCHANGED <<docs, registry, idx, pc, req, loc, crossed>>
  BY <1>1 DEF Control, Typed, Reporter, Stages, RegisteredIsWhole
<1> QED
  BY <1>1, StepEffect, ControlKept

LEMMA InitControl == Init => Control
<1> SUFFICES ASSUME Init
             PROVE  Control
  OBVIOUS
<1> DEFINE e == [lock |-> Nobody, used |-> FALSE, whole |-> FALSE, c |-> newCollIndex]
<1>1. \E S \in SUBSET Ids : docs \in [S -> Documents]
  BY WellFormed DEF Init
<1>2. e \in IndexObjects /\ e.lock = Nobody /\ ~e.used /\ e.c = newCollIndex
  BY NewIndex DEF IndexObjects
<1>3. idx = [x \in Indexes |-> e]
  BY DEF Init
<1> HIDE DEF e
<1>4. {"ev", "ix"} \subseteq DOMAIN NoLocals /\ NoLocals.ev = <<>> /\ <<>> \in Seq(Events)
  BY DEF NoLocals
<1>5. /\ loc = [p \in Procs |-> NoLocals] /\ pc = [p \in Procs |-> "idle"] /\ registry = NoIndex
  BY DEF Init
<1>6. req \in [Procs -> Requests]
  <2>1. (CHOOSE r \in Requests : TRUE) \in Requests
    BY WellFormed
  <2> QED
    BY <2>1 DEF Init
<1>7. Typed
  BY <1>1, <1>2, <1>3, <1>4, <1>5, <1>6 DEF Typed, Labels
<1>8. ASSUME NEW p \in Procs
      PROVE  Reporter(p)
  <2>1. \A x \in Indexes : idx[x].lock # p
    BY <1>2, <1>3, Distinct
  <2> QED
    BY <1>4, <1>5, <2>1 DEF Reporter, Ops
<1>9. Stages /\ RegisteredIsWhole
  BY <1>2, <1>3, <1>5 DEF Stages, RegisteredIsWhole
<1> QED
  BY <1>7, <1>8, <1>9 DEF Control

\* An index that a search or a report can find, and that nobody is building, was built
\* from a complete read: a build that fails leaves nothing behind (get), however many
\* goroutines search, write and delete the organization meanwhile.
THEOREM NothingHalfBuilt == Spec => []RegisteredIsWhole
<1>1. Spec => []Control
  BY InitControl, ControlStep, PTL DEF Spec
<1>2. Control => RegisteredIsWhole
  BY DEF Control
<1> QED
  BY <1>1, <1>2, PTL

-----------------------------------------------------------------------------
(* The registered index follows the collection.                             *)

LEMMA PendingIs ==
    ASSUME NEW q \in Procs
    PROVE  Pending(q) = IdsOf(loc[q].ev)
  BY DEF Pending, IdsOf

LEMMA NoReports == IdsOf(<<>>) = {}
  BY DEF IdsOf

\* Whoever owes a report is busy.
LEMMA OwersAreBusy ==
    ASSUME Control, NEW q \in Procs, NEW i \in IdsOf(loc[q].ev)
    PROVE  q \in Busy
<1>1. loc[q].ev # <<>>
  BY NoReports
<1>2. pc[q] \in {"report", "apply"}
  BY <1>1 DEF Control, Reporter
<1> QED
  BY <1>2 DEF Busy

\* The documents that others owe a report of are the ones that a write by p crosses.
LEMMA Crosses ==
    ASSUME Control, NEW p \in Procs, NEW q \in Procs \ {p}, NEW i \in IdsOf(loc[q].ev)
    PROVE  i \in UNION {Pending(r) : r \in Busy \ {p}}
  BY OwersAreBusy, PendingIs

\* A step after which everyone owes the same reports.
LEMMA SameReports ==
    ASSUME Control, NEW p \in Procs,
           Quiet(p) \/ Finds(p) \/ Builds(p) \/ (\E S : Fails(p, S))
           \/ \E x \in Indexes : Registers(p, x)
    PROVE  /\ \A q \in Procs : loc'[q].ev = loc[q].ev
           /\ docs' = docs /\ crossed' = crossed
<1>1. Moves(p) /\ docs' = docs /\ crossed' = crossed
  BY DEF Quiet, Finds, Builds, Fails, Registers
<1>2. loc'[p].ev = loc[p].ev
  <2>1. pc[p] \in Calm => loc[p].ev = <<>>
    BY DEF Control, Reporter, Calm
  <2> QED
    BY <2>1 DEF Quiet, Finds, Builds, Fails, Registers
<1> QED
  BY <1>1, <1>2 DEF Moves

LEMMA OwedStep ==
    ASSUME Control, Owed, NEW p \in Procs, Effect(p)
    PROVE  Owed'
<1> SUFFICES ASSUME NEW i \in Ids \ crossed', NEW q \in Procs, i \in IdsOf(loc'[q].ev)
             PROVE  /\ \A r \in Procs : i \in IdsOf(loc'[r].ev) => r = q
                    /\ LastSays(loc'[q].ev, i, In(docs', i))
  BY DEF Owed, Now
<1>0. /\ Moves(p)
      /\ \A j \in Ids \ crossed : \A r \in Procs : j \in IdsOf(loc[r].ev) =>
            /\ \A s \in Procs : j \in IdsOf(loc[s].ev) => s = r
            /\ LastSays(loc[r].ev, j, In(docs, j))
  BY ReportsStep DEF Owed, Now, Reports
<1>1. CASE \/ Quiet(p) \/ Finds(p) \/ Builds(p) \/ (\E S : Fails(p, S))
           \/ \E x \in Indexes : Registers(p, x)
  BY <1>0, <1>1, SameReports
<1>2. CASE Passes(p) \/ Applies(p)
  <2>1. /\ docs' = docs /\ crossed' = crossed /\ loc'[p].ev = Tail(loc[p].ev)
        /\ loc[p].ev \in Seq(Events) /\ loc[p].ev # <<>>
    BY <1>2 DEF Passes, Applies, FirstDone, Control, Typed, Reporter
  <2>2. \A r \in Procs : i \in IdsOf(loc'[r].ev) => i \in IdsOf(loc[r].ev)
    <3>1. IdsOf(loc'[p].ev) \subseteq IdsOf(loc[p].ev)
      BY <2>1, TailFacts
    <3>2. \A r \in Procs \ {p} : loc'[r].ev = loc[r].ev
      BY <1>0 DEF Moves
    <3> QED
      BY <3>1, <3>2
  <2>3. LastSays(loc[q].ev, i, In(docs, i)) /\ \A r \in Procs : i \in IdsOf(loc'[r].ev) => r = q
    BY <1>0, <2>1, <2>2
  <2>4. CASE q = p
    BY <2>1, <2>3, <2>4, TailFacts
  <2>5. CASE q # p
    BY <1>0, <2>1, <2>3, <2>5 DEF Moves
  <2> QED
    BY <2>3, <2>4, <2>5
<1>3. CASE \E S, evs : Lands(p, S, evs)
  <2>1. PICK S, evs : Lands(p, S, evs)
    BY <1>3
  <2>2. /\ loc'[p].ev = evs /\ S = IdsOf(evs) /\ i \notin crossed
        /\ i \in S => i \notin UNION {Pending(r) : r \in Busy \ {p}}
    BY <2>1 DEF Lands
  <2>3. \A r \in Procs \ {p} : loc'[r].ev = loc[r].ev
    BY <1>0 DEF Moves
  <2>4. CASE i \in S
    <3>1. \A r \in Procs \ {p} : i \notin IdsOf(loc[r].ev)
      BY <2>2, <2>4, Crosses
    <3>2. q = p
      BY <2>3, <3>1
    <3> QED
      BY <2>1, <2>2, <2>3, <2>4, <3>1, <3>2 DEF Lands
  <2>5. CASE i \notin S
    <3>1. q # p /\ i \in IdsOf(loc[q].ev)
      BY <2>2, <2>3, <2>5
    <3>2. In(docs', i) = In(docs, i)
      BY <2>1, <2>5 DEF Lands
    <3> QED
      BY <1>0, <2>2, <2>3, <2>5, <3>1, <3>2
  <2> QED
    BY <2>4, <2>5
<1>4. CASE Empties(p)
  <2>1. i \notin crossed /\ i \notin UNION {Pending(r) : r \in Busy \ {p}}
    BY <1>4 DEF Empties
  <2>2. \A r \in Procs \ {p} : i \notin IdsOf(loc'[r].ev)
    BY <1>0, <2>1, Crosses DEF Moves
  <2>3. IdsOf(loc'[p].ev) = {0} /\ i # 0
    BY <1>4, NaturalBounds DEF Empties, IdsOf, Ids
  <2> QED
    BY <2>2, <2>3
<1> QED
  BY <1>1, <1>2, <1>3, <1>4 DEF Effect

LEMMA FollowsStep ==
    ASSUME Control, Owed, Follows, NEW p \in Procs, Effect(p)
    PROVE  Follows'
<1> SUFFICES ASSUME registry' # NoIndex, idx'[registry'].lock = Nobody,
                    \A q \in Procs : 0 \notin IdsOf(loc'[q].ev),
                    NEW i \in Ids \ crossed',
                    \A q \in Procs : i \in IdsOf(loc'[q].ev) => pc'[q] = "apply" /\ loc'[q].ix # registry'
             PROVE  Holds(idx'[registry'].c, i, In(docs', i))
  BY DEF Follows, Settled, Now
<1>0. ASSUME registry # NoIndex, idx[registry].lock = Nobody,
             \A q \in Procs : 0 \notin IdsOf(loc[q].ev), i \notin crossed,
             \A q \in Procs : i \in IdsOf(loc[q].ev) => pc[q] = "apply" /\ loc[q].ix # registry
      PROVE  Holds(idx[registry].c, i, In(docs, i))
  BY <1>0 DEF Follows, Settled, Now
<1>1. /\ \A q \in Procs \ {p} : loc'[q] = loc[q] /\ pc'[q] = pc[q]
      /\ Typed /\ (pc[p] \notin {"report", "apply"} => IdsOf(loc[p].ev) = {})
  BY ReportsStep, NoReports DEF Reports, Moves, Control, Reporter
<1>2. CASE Quiet(p) \/ Finds(p)
  <2>1. /\ registry' = registry /\ idx' = idx /\ docs' = docs /\ crossed' = crossed
        /\ \A q \in Procs : loc'[q].ev = loc[q].ev
    BY <1>2, SameReports DEF Quiet, Finds
  <2>2. i \notin IdsOf(loc[p].ev)
    <3>1. CASE Quiet(p)
      BY <1>1, <3>1 DEF Quiet, Calm
    <3>2. CASE Finds(p)
      BY <2>1, <3>2 DEF Finds
    <3> QED
      BY <1>2, <3>1, <3>2
  <2> QED
    BY <1>0, <1>1, <2>1, <2>2
<1>3. CASE Passes(p) \/ \E S : Fails(p, S)
  BY <1>3 DEF Passes, Fails
<1>4. CASE Empties(p)
  <2>1. 0 \in IdsOf(loc'[p].ev)
    BY <1>4 DEF Empties, IdsOf
  <2> QED
    BY <2>1
<1>5. CASE \E x \in Indexes : Registers(p, x)
  <2>1. PICK x \in Indexes : Registers(p, x)
    BY <1>5
  <2>2. PICK e \in IndexObjects : Becomes(x, e) /\ e.lock = p
    BY <2>1, RegistersTo
  <2>3. idx'[x].lock = p /\ registry' = x /\ p # Nobody
    BY <1>1, <2>1, <2>2, BecomesFacts, Distinct DEF Registers
  <2> QED
    BY <2>3
<1>6. CASE \E S, evs : Lands(p, S, evs)
  <2>1. PICK S, evs : Lands(p, S, evs)
    BY <1>6
  <2>2. /\ registry' = registry /\ idx' = idx /\ i \notin crossed
        /\ IdsOf(loc'[p].ev) = S /\ pc'[p] = "report" /\ IdsOf(loc[p].ev) = {}
    BY <1>1, <2>1 DEF Lands, Calm
  <2>3. i \notin S
    BY <2>2
  <2>4. In(docs', i) = In(docs, i)
    BY <2>1, <2>3 DEF Lands
  <2> QED
    BY <1>0, <1>1, <2>2, <2>4
<1>7. CASE Builds(p)
  <2> DEFINE x == loc[p].ix
  <2>1. PICK e \in IndexObjects : Becomes(x, e) /\ \A j \in Ids : Holds(e.c, j, Now(j))
    BY <1>7, BuildsTo
  <2>2. x \in Indexes
    BY <1>7, Building DEF Builds
  <2>3. /\ registry' = registry /\ docs' = docs /\ crossed' = crossed
        /\ \A q \in Procs : loc'[q].ev = loc[q].ev
    BY <1>7, SameReports DEF Builds
  <2>4. idx'[x] = e /\ \A y \in Indexes \ {x} : idx'[y] = idx[y]
    BY <1>1, <2>1, <2>2, BecomesFacts
  <2>5. IdsOf(loc[p].ev) = {} /\ registry \in Indexes
    BY <1>1, <1>7, <2>3 DEF Builds, Typed
  <2> HIDE DEF x
  <2>6. CASE registry = x
    BY <2>1, <2>3, <2>4, <2>6 DEF Now
  <2>7. CASE registry # x
    BY <1>0, <1>1, <2>3, <2>4, <2>5, <2>7
  <2> QED
    BY <2>6, <2>7
<1>8. CASE Applies(p)
  <2> DEFINE x == loc[p].ix
             h == Head(loc[p].ev)
  <2>1. PICK e \in IndexObjects :
            /\ Becomes(x, e) /\ e.lock = Nobody /\ e.c = Applied(idx[x].c, h.id, h.doc)
            /\ h.id \in Ids /\ h.doc \in Documents \cup {NoDoc}
    BY <1>8, AppliesTo
  <2>2. /\ x \in Indexes /\ idx[x].lock = Nobody /\ pc[p] = "apply" /\ pc'[p] # "apply"
        /\ registry' = registry /\ docs' = docs /\ crossed' = crossed
    BY <1>8 DEF Applies, FirstDone, Control, Reporter
  <2>3. /\ loc'[p].ev = Tail(loc[p].ev) /\ loc[p].ev \in Seq(Events) /\ loc[p].ev # <<>>
    BY <1>8 DEF Applies, FirstDone, Control, Reporter, Typed
  <2>4. IdsOf(loc[p].ev) = {h.id} \cup IdsOf(loc'[p].ev)
    BY <2>3, TailFacts
  <2>5. idx'[x] = e /\ \A y \in Indexes \ {x} : idx'[y] = idx[y]
    BY <1>1, <2>1, <2>2, BecomesFacts
  <2>6. i \notin IdsOf(loc'[p].ev)
    BY <2>2
  <2>7. \A q \in Procs : 0 \notin IdsOf(loc[q].ev)
    <3>1. h.id # 0
      BY <2>1, NaturalBounds DEF Ids
    <3> QED
      BY <1>1, <2>4, <3>1
  <2>8. registry \in Indexes /\ idx[x] \in IndexObjects
    BY <1>1, <2>2 DEF Typed
  <2>9. idx[x].c \in Collections
    BY <2>8 DEF IndexObjects
  <2>10. LastSays(loc[p].ev, i, In(docs, i)) /\ i = h.id => h.doc = In(docs, i)
    BY <2>3, <2>6, TailFacts
  <2> HIDE DEF x, h
  <2>11. CASE registry # x
    <3>1. \A q \in Procs : i \in IdsOf(loc[q].ev) => pc[q] = "apply" /\ loc[q].ix # registry
      BY <1>1, <2>2, <2>11 DEF x
    <3> QED
      BY <1>0, <2>2, <2>5, <2>7, <2>8, <2>11, <3>1
  <2>12. CASE registry = x /\ i = h.id
    <3>1. LastSays(loc[p].ev, i, In(docs, i))
      BY <2>2, <2>4, <2>12 DEF Owed, Now
    <3>2. Holds(Applied(idx[x].c, h.id, h.doc), h.id, h.doc)
      BY <2>1, <2>9, AppliedFacts
    <3> QED
      BY <2>1, <2>2, <2>5, <2>10, <2>12, <3>1, <3>2
  <2>13. CASE registry = x /\ i # h.id
    <3>1. i \notin IdsOf(loc[p].ev)
      BY <2>4, <2>6, <2>13
    <3>2. Holds(idx[x].c, i, In(docs, i))
      BY <1>0, <1>1, <2>2, <2>7, <2>8, <2>13, <3>1, Distinct
    <3>3. Holds(Applied(idx[x].c, h.id, h.doc), i, In(docs, i))
      BY <2>1, <2>9, <2>13, <3>2, AppliedFacts
    <3> QED
      BY <2>1, <2>2, <2>5, <2>13, <3>3
  <2> QED
    BY <2>11, <2>12, <2>13
<1> QED
  BY <1>2, <1>3, <1>4, <1>5, <1>6, <1>7, <1>8 DEF Effect

LEMMA IInvStep == IInv /\ [Next]_vars => IInv'
<1> SUFFICES ASSUME IInv, [Next]_vars
             PROVE  IInv'
  OBVIOUS
<1>1. CASE UNCHANGED <<docs, registry, idx, pc, req, loc, crossed>>
  BY <1>1, ControlStep DEF IInv, Owed, Follows, Settled, Now
<1>2. CASE \E p \in Procs : Effect(p)
  BY <1>2, ControlStep, OwedStep, FollowsStep DEF IInv
<1> QED
  BY <1>1, <1>2, StepEffect DEF IInv

LEMMA InitIInv == Init => IInv
<1> SUFFICES ASSUME Init
             PROVE  IInv
  OBVIOUS
<1>1. \A p \in Procs : loc[p].ev = <<>>
  BY DEF Init, NoLocals
<1>2. Owed
  BY <1>1, NoReports DEF Owed
<1>3. Follows
  BY DEF Init, Follows
<1> QED
  BY <1>2, <1>3, InitControl DEF IInv

\* A term is a field and a value.
LEMMA TermsArePairs ==
    ASSUME NEW d, NEW t \in TermsOf(d)
    PROVE  t = <<t[1], t[2]>>
<1>1. t \in Flatten(nodeSearchDoc(d))
  BY DEF TermsOf, FieldsOf
<1> DEFINE D == nodeSearchDoc(d)
<1> HIDE DEF D
<1>2. t \in Flatten(D)
  BY <1>1 DEF D
<1>3. PICK l \in D : t \in {<<FlattenSeq(SubSeq(l.path, i, Len(l.path))), l.val>> : i \in 1..Len(l.path)}
  BY <1>2 DEF Flatten
<1>4. PICK i \in 1..Len(l.path) : t = <<FlattenSeq(SubSeq(l.path, i, Len(l.path))), l.val>>
  BY <1>3
<1> DEFINE f == FlattenSeq(SubSeq(l.path, i, Len(l.path)))
<1> HIDE DEF f
<1>5. t = <<f, l.val>>
  BY <1>4 DEF f
<1> QED
  BY <1>5

\* The inverted maps of an index say of document i what its terms say.
LEMMA ReadBack ==
    ASSUME NEW c \in Collections, NEW i \in Ids, NEW d, Holds(c, i, d)
    PROVE  /\ {<<e[1], e[2]>> : e \in {e \in c.postings : e[3] = i}} = TermsOf(d)
           /\ {e[1] : e \in {e \in c.fieldDocs : e[2] = i}} = {t[1] : t \in TermsOf(d)}
<1> DEFINE T == c.docTerms
<1>1. c.postings = PostingsOf(T) /\ c.fieldDocs = FieldDocsOf(T) /\ T[i] = TermsOf(d)
  BY CollectionFacts DEF Holds
<1> HIDE DEF T
<1>2. ASSUME NEW e \in c.postings, e[3] = i
      PROVE  <<e[1], e[2]>> \in TermsOf(d)
  <2>1. PICK j \in Ids : \E t \in T[j] : e = <<t[1], t[2], j>>
    BY <1>1 DEF PostingsOf
  <2>2. PICK t \in T[j] : e = <<t[1], t[2], j>>
    BY <2>1
  <2>3. j = i /\ t \in TermsOf(d)
    BY <1>1, <1>2, <2>2
  <2> QED
    BY <2>2, <2>3, TermsArePairs
<1>3. ASSUME NEW t \in TermsOf(d)
      PROVE  \E e \in c.postings : e[3] = i /\ t = <<e[1], e[2]>>
  <2>1. <<t[1], t[2], i>> \in c.postings
    BY <1>1 DEF PostingsOf
  <2>2. t = <<t[1], t[2]>>
    BY TermsArePairs
  <2> DEFINE e == <<t[1], t[2], i>>
  <2>3. e[1] = t[1] /\ e[2] = t[2] /\ e[3] = i
    OBVIOUS
  <2> HIDE DEF e
  <2> QED
    BY <2>1, <2>2, <2>3 DEF e
<1>4. ASSUME NEW e \in c.fieldDocs, e[2] = i
      PROVE  \E t \in TermsOf(d) : e[1] = t[1]
  <2>1. PICK j \in Ids : \E t \in T[j] : e = <<t[1], j>>
    BY <1>1 DEF FieldDocsOf
  <2>2. PICK t \in T[j] : e = <<t[1], j>>
    BY <2>1
  <2>3. j = i /\ t \in TermsOf(d)
    BY <1>1, <1>4, <2>2
  <2> QED
    BY <2>2, <2>3
<1>5. ASSUME NEW t \in TermsOf(d)
      PROVE  \E e \in c.fieldDocs : e[2] = i /\ t[1] = e[1]
  <2> DEFINE e == <<t[1], i>>
  <2>1. e \in c.fieldDocs
    BY <1>1 DEF FieldDocsOf
  <2>2. e[1] = t[1] /\ e[2] = i
    OBVIOUS
  <2> HIDE DEF e
  <2> QED
    BY <2>1, <2>2
<1>6. {<<e[1], e[2]>> : e \in {e \in c.postings : e[3] = i}} = TermsOf(d)
  <2>1. ASSUME NEW u, u \in {<<e[1], e[2]>> : e \in {e \in c.postings : e[3] = i}}
        PROVE  u \in TermsOf(d)
    BY <1>2, <2>1, Zenon
  <2>2. ASSUME NEW u \in TermsOf(d)
        PROVE  u \in {<<e[1], e[2]>> : e \in {e \in c.postings : e[3] = i}}
    BY <1>3, Zenon
  <2> QED
    BY <2>1, <2>2, Zenon
<1>7. {e[1] : e \in {e \in c.fieldDocs : e[2] = i}} = {t[1] : t \in TermsOf(d)}
  <2>1. ASSUME NEW u, u \in {e[1] : e \in {e \in c.fieldDocs : e[2] = i}}
        PROVE  u \in {t[1] : t \in TermsOf(d)}
    BY <1>4, <2>1
  <2>2. ASSUME NEW u, u \in {t[1] : t \in TermsOf(d)}
        PROVE  u \in {e[1] : e \in {e \in c.fieldDocs : e[2] = i}}
    BY <1>5, <2>2
  <2> QED
    BY <2>1, <2>2, Zenon
<1> QED
  BY <1>6, <1>7

LEMMA IndexIsCurrent == IInv => IndexCurrent
<1> SUFFICES ASSUME IInv, registry # NoIndex, idx[registry].lock = Nobody, InFlux = {},
                    NEW i \in Ids \ crossed
             PROVE  IndexHolds(i)
  BY DEF IndexCurrent, AllReported
<1>1. \A p \in Procs : IdsOf(loc[p].ev) = {}
  <2> SUFFICES ASSUME NEW p \in Procs, NEW j \in IdsOf(loc[p].ev)
               PROVE  FALSE
    OBVIOUS
  <2>1. p \in Busy /\ j \in Pending(p)
    BY OwersAreBusy, PendingIs DEF IInv
  <2> QED
    BY <2>1 DEF InFlux
<1>2. Holds(idx[registry].c, i, Now(i))
  BY <1>1 DEF IInv, Follows, Settled
<1>3. registry \in Indexes /\ idx[registry].c \in Collections
  BY DEF IInv, Control, Typed, IndexObjects
<1>4. /\ Now(i) \notin {Garbled, NoDoc} <=> i \in Decodable(docs)
      /\ TermsOf(Now(i)) = IF i \in Decodable(docs) THEN FieldsOf(docs[i]) ELSE {}
  <2>1. PICK S \in SUBSET Ids : docs \in [S -> Documents]
    BY DEF IInv, Control, Typed
  <2>2. Now(i) \notin {Garbled, NoDoc} <=> i \in Decodable(docs)
    BY <2>1, Distinct DEF Now, In, Decodable
  <2> QED
    BY <2>1, <2>2 DEF TermsOf, Now, In, Decodable
<1> DEFINE x == idx[registry].c
           d == Now(i)
<1>5. i \in x.all <=> i \in Decodable(docs)
  BY <1>2, <1>4 DEF Holds
<1>6. /\ {<<e[1], e[2]>> : e \in {e \in x.postings : e[3] = i}} = TermsOf(d)
      /\ {e[1] : e \in {e \in x.fieldDocs : e[2] = i}} = {t[1] : t \in TermsOf(d)}
  <2> HIDE DEF x, d
  <2>1. x \in Collections /\ Holds(x, i, d)
    BY <1>2, <1>3 DEF x, d
  <2> QED
    BY <2>1, ReadBack, Zenon
<1> QED
  BY <1>4, <1>5, <1>6, Zenon DEF IndexHolds

\* Once every write is reported, the registered index holds of each document exactly
\* what the collection holds, unless two writes of that document landed before either
\* was reported (observe applies events in the order they are reported): for any number
\* of goroutines that write, search, build, fail to build and delete the organization.
THEOREM IndexFollowsStore == Spec => []IndexCurrent
<1>1. Spec => []IInv
  BY InitIInv, IInvStep, PTL DEF Spec
<1> QED
  BY <1>1, IndexIsCurrent, PTL

=============================================================================
