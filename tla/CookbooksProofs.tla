--------------------------- MODULE CookbooksProofs --------------------------
(***************************************************************************)
(* Proofs about Cookbooks, for any number of goroutines and requests, any   *)
(* checksums, manifests and seed populations, and any number of failures.   *)
(*                                                                          *)
(* Every step is classified once by what it does (the effects below); each  *)
(* part of the invariant is then proved from the effects alone.             *)
(***************************************************************************)
EXTENDS Cookbooks, TLAPS

\* Between a dropped manifest and the end of the collection.
CollectSteps == {"deleteVersionedACL", "deleteACL", "gc", "cookbooks", "cookbook_artifacts"}
Steps == Ops \cup CollectSteps \cup
         {"idle", "hasBlob", "put", "storeACL", "commitHas", "envKeys", "solve", "readEach"}
LocFields == {"ver", "todo", "prev", "refs", "cand", "avail", "queue", "got"}
Codes == {0, 200, 201, 400, 404, 409, 412, 500}

-----------------------------------------------------------------------------
(* The inductive invariant.                                                 *)

Typed ==
    /\ pc \in [Procs -> Steps]
    /\ req \in [Procs -> Requests]
    /\ DOMAIN loc = Procs /\ \A p \in Procs : LocFields \subseteq DOMAIN loc[p]
    /\ DOMAIN out = Procs /\ \A p \in Procs : out[p].st \in Codes
    /\ DOMAIN near = Procs /\ DOMAIN kept = Procs /\ DOMAIN ever = Procs
    /\ sandboxes \in [DOMAIN sandboxes -> {"open", "completed"}]
    /\ DOMAIN sandboxes \subseteq SUBSET Sums
    /\ served \in 0..MaxRequests /\ errors \in 0..MaxErrors

\* Where a goroutine is tells what it serves and what its locals hold.
Stage(p) ==
    /\ pc[p] \in Ops => pc[p] = req[p].op
    /\ pc[p] \in Ops \cup {"hasBlob"} => loc[p].cand = {} /\ loc[p].prev = NoDoc
    /\ pc[p] \in Ops \cup {"hasBlob", "put", "deleteVersionedACL", "deleteACL", "gc"} =>
          loc[p].refs = {}
    /\ pc[p] = "hasBlob" => req[p].op \in PutOps
    /\ pc[p] = "put" => req[p].op = "putCookbookVersion" /\ loc[p].todo = {} /\ loc[p].cand = {}
    /\ pc[p] \in {"deleteVersionedACL", "deleteACL"} => req[p].op \in DeleteOps
    /\ pc[p] = "storeACL" => req[p].op = "putACL"
    /\ pc[p] \in {"commitHas", "envKeys", "solve", "readEach"} => req[p].op \notin PutOps
    /\ pc[p] # "idle" /\ req[p].op \in PutOps => loc[p].ver = req[p].ver
    /\ loc[p].cand \subseteq Sums /\ loc[p].refs \subseteq Sums
    /\ loc[p].prev # NoDoc => manifestChecksums(loc[p].prev) \subseteq Sums

Sound ==
    /\ blobs \subseteq Sums
    /\ \A k \in Stored : /\ k[1] \in Colls
                         /\ manifests[k] # NoDoc
                         /\ manifestChecksums(manifests[k]) \subseteq Sums

\* Requests in flight together know of each other.
Aware == \A p, q \in Busy : p # q => req[p] \in near[q]

Control == Typed /\ (\A p \in Procs : Stage(p)) /\ Sound /\ Aware

\* A put has found the files that it no longer has to check.
Checked(p) ==
    pc[p] \in {"hasBlob", "put"} =>
        manifestChecksums(req[p].body) \ loc[p].todo \subseteq blobs \cup raced

\* The manifests a collection has been past.
Past(p, k) ==
    \/ pc[p] = "cookbooks" /\ k[1] = "cookbooks" /\ k \notin loc[p].todo
    \/ pc[p] = "cookbook_artifacts" /\ (k[1] = "cookbooks" \/ k \notin loc[p].todo)

\* What puts in flight during p's request name.
PutNearby(p) == UNION {manifestChecksums(r.body) : r \in {r \in near[p] : r.op \in PutOps}}

\* A collection knows what the manifests it has been past name, apart from
\* manifests that were put meanwhile.
Scanned(p) ==
    \A k \in Stored : Past(p, k) =>
        manifestChecksums(manifests[k]) \subseteq loc[p].refs \cup PutNearby(p)

FilesInv == FilesPresent /\ \A p \in Procs : Checked(p) /\ Scanned(p)

\* A file that is due has a collection in progress that has not seen it used.
LeakInv ==
    \A s \in (owed \cap blobs) \ (Referenced(manifests) \cup spared) :
        \E p \in Procs : pc[p] \in CollectSteps /\ s \in loc[p].cand /\ s \notin loc[p].refs

\* An ACL without an object is about to be looked at by a delete.
ACLInv ==
    /\ \A a \in acls :
          /\ a = <<a[1], a[2]>>
          /\ \/ hasVersion(a[1], a[2])
             \/ a \in aclRaced
             \/ \E p \in Procs : /\ pc[p] \in {"deleteVersionedACL", "deleteACL"}
                                 /\ <<req[p].coll, req[p].name>> = a
    /\ \A p \in Procs : pc[p] = "storeACL" =>
          \/ hasVersion(req[p].coll, req[p].name)
          \/ \E r \in near[p] : /\ r.op \in DeleteOps
                                /\ <<r.coll, r.name>> = <<req[p].coll, req[p].name>>

Shown(got) == {g[1] : g \in got}

\* A universe request: what was stored throughout is read or still to be read.
UniverseAt(p) ==
    LET throughout == {k \in kept[p] : k[1] = "cookbooks"}
    IN req[p].op = "universe" =>
       /\ pc[p] \in {"idle", "universe", "readEach"}
       /\ pc[p] = "universe" => loc[p].got = {}
       /\ pc[p] = "readEach" => /\ throughout \subseteq loc[p].todo \cup Shown(loc[p].got)
                                /\ Shown(loc[p].got) \subseteq ever[p]
       /\ pc[p] = "idle" /\ out[p].st = 200 => /\ throughout \subseteq Shown(out[p].got)
                                               /\ Shown(out[p].got) \subseteq ever[p]

UniverseInv ==
    /\ \A p \in Busy : kept[p] \subseteq Stored /\ Stored \subseteq ever[p]
    /\ \A p \in Procs : UniverseAt(p)

IInv == Control /\ FilesInv /\ LeakInv /\ ACLInv /\ UniverseInv

-----------------------------------------------------------------------------
(* What a step does.                                                        *)

Stores == <<manifests, blobs, acls, owed, raced, spared, aclRaced, kept, ever>>
SameData == UNCHANGED Stores

\* p goes to step l, whatever it answers.
PcTo(p, l) ==
    /\ pc' \in [Procs -> Steps] /\ pc'[p] = l
    /\ DOMAIN out' = Procs /\ \A q \in Procs : out'[q].st \in Codes
    /\ \A q \in Procs \ {p} : pc'[q] = pc[q] /\ out'[q] = out[q]

\* p's locals become r.
LocTo(p, r) ==
    /\ DOMAIN loc' = Procs /\ \A q \in Procs : LocFields \subseteq DOMAIN loc'[q]
    /\ loc'[p] = r
    /\ \A q \in Procs \ {p} : loc'[q] = loc[q]

\* A step of p on its request.
Moves(p) ==
    /\ Typed'
    /\ UNCHANGED <<req, near>>
    /\ \A q \in Procs \ {p} : pc'[q] = pc[q] /\ loc'[q] = loc[q] /\ out'[q] = out[q]

\* The locals that the invariants follow.
Same(r, l) == r.ver = l.ver /\ r.prev = l.prev /\ r.refs = l.refs /\ r.cand = l.cand

\* Reading, checking and refusing.
NotServing == CollectSteps \cup {"idle"}
Passive == {"idle", "createSandbox", "commitHas", "getCookbookVersion", "envKeys", "solve",
            "readEach"}
Looks(p) ==
    /\ SameData
    /\ pc[p] \notin NotServing /\ pc'[p] \in Passive
    /\ pc'[p] # "idle" => /\ req[p].op \notin PutOps
                          /\ pc'[p] \in Ops => pc'[p] = pc[p]
    /\ loc'[p].refs = loc[p].refs /\ loc'[p].cand = loc[p].cand /\ loc'[p].prev = loc[p].prev

Uploads(p) ==
    /\ pc[p] = "putFile" /\ pc'[p] = "idle" /\ loc'[p] = loc[p]
    /\ blobs' = blobs \cup req[p].sums
    /\ owed' = owed \ req[p].sums
    /\ raced' = raced \ req[p].sums
    /\ spared' = spared \ req[p].sums
    /\ UNCHANGED <<manifests, acls, aclRaced, kept, ever>>

Accepts(p) ==
    /\ SameData
    /\ pc[p] \in PutOps /\ pc'[p] = "hasBlob"
    /\ Same(loc'[p], loc[p]) /\ loc'[p].todo = manifestChecksums(req[p].body)

FindsFile(p) ==
    /\ SameData
    /\ pc[p] = "hasBlob" /\ pc'[p] = "hasBlob"
    /\ Same(loc'[p], loc[p])
    /\ \E s \in blobs : loc'[p].todo = loc[p].todo \ {s}

FindsPrevious(p) ==
    /\ SameData
    /\ pc[p] = "hasBlob" /\ pc'[p] = "put" /\ req[p].op = "putCookbookVersion"
    /\ loc[p].todo = {} /\ loc'[p].todo = {}
    /\ loc'[p].ver = loc[p].ver /\ loc'[p].refs = loc[p].refs /\ loc'[p].cand = loc[p].cand
    /\ loc'[p].prev # NoDoc => Key(p) \in Stored /\ loc'[p].prev = manifests[Key(p)]

PutsManifest(p) ==
    /\ pc[p] = "put" \/ (pc[p] = "hasBlob" /\ req[p].op = "putArtifactVersion")
    /\ loc[p].todo = {}
    /\ StoreManifest(p, req[p].body)
    /\ loc'[p].prev = loc[p].prev /\ loc'[p].refs = loc[p].refs /\ loc'[p].ver = loc[p].ver
    /\ loc'[p].cand = IF loc[p].prev = NoDoc THEN {} ELSE manifestChecksums(loc[p].prev)
    /\ pc'[p] = IF loc'[p].cand = {} THEN "idle" ELSE "gc"

Resolves(p) ==
    /\ SameData
    /\ pc[p] = "deleteCookbookVersion" /\ pc'[p] = pc[p]
    /\ loc'[p].refs = loc[p].refs /\ loc'[p].cand = loc[p].cand /\ loc'[p].prev = loc[p].prev

DropsManifest(p) ==
    /\ pc[p] \in DeleteOps /\ pc'[p] = "deleteVersionedACL"
    /\ Key(p) \in Stored
    /\ DropManifest(Key(p))
    /\ loc'[p].prev = manifests[Key(p)] /\ loc'[p].cand = manifestChecksums(manifests[Key(p)])
    /\ loc'[p].refs = loc[p].refs

\* On to the collection, if there is something to collect.
Collects(p) == loc'[p] = loc[p] /\ pc'[p] = IF loc[p].cand = {} THEN "idle" ELSE "gc"

KeepsACL(p) ==
    /\ SameData
    /\ pc[p] = "deleteVersionedACL" /\ hasVersion(req[p].coll, req[p].name)
    /\ Collects(p)

MissesVersion(p) ==
    /\ SameData
    /\ pc[p] = "deleteVersionedACL" /\ pc'[p] = "deleteACL" /\ loc'[p] = loc[p]

DropsACL(p) ==
    /\ pc[p] = "deleteACL"
    /\ acls' = acls \ {<<req[p].coll, req[p].name>>}
    /\ UNCHANGED <<manifests, blobs, owed, raced, spared, aclRaced, kept, ever>>
    /\ Collects(p)

\* The collection stays in coll, or is done because all is referenced.
Stays(p, coll) ==
    /\ loc'[p].ver = loc[p].ver /\ loc'[p].prev = loc[p].prev
    /\ \/ pc'[p] = coll
       \/ /\ pc'[p] = "idle" /\ coll = "cookbook_artifacts"
          /\ loc'[p].cand \subseteq loc'[p].refs

ListsKeys(p) ==
    /\ SameData
    /\ \E coll \in Colls :
        /\ \/ coll = "cookbooks" /\ pc[p] = "gc"
           \/ coll = "cookbook_artifacts" /\ pc[p] = "cookbooks" /\ loc[p].todo = {}
        /\ loc'[p].todo = {k \in Stored : k[1] = coll}
        /\ loc'[p].refs = loc[p].refs /\ loc'[p].cand = loc[p].cand
        /\ Stays(p, coll)

VisitsKey(p) ==
    /\ SameData
    /\ pc[p] \in Colls
    /\ \E k \in loc[p].todo :
        /\ loc'[p].todo = loc[p].todo \ {k}
        /\ loc'[p].refs = loc[p].refs \cup
              (IF k \in Stored THEN manifestChecksums(manifests[k]) ELSE {})
    /\ loc'[p].cand = loc[p].cand
    /\ Stays(p, pc[p])

RemovesFile(p) ==
    /\ pc[p] = "cookbook_artifacts" /\ loc[p].todo = {} /\ loc'[p].todo = {}
    /\ \E s \in loc[p].cand \ loc[p].refs :
        /\ blobs' = blobs \ {s}
        /\ raced' = IF \E r \in near[p] : r.op \in PutOps /\ s \in manifestChecksums(r.body)
                    THEN raced \cup {s} ELSE raced
        /\ loc'[p].cand = loc[p].cand \ {s}
    /\ loc'[p].refs = loc[p].refs
    /\ Stays(p, "cookbook_artifacts")
    /\ UNCHANGED <<manifests, acls, kept, ever, owed, spared, aclRaced>>

FindsObject(p) ==
    /\ SameData
    /\ pc[p] = "putACL" /\ pc'[p] = "storeACL" /\ loc'[p] = loc[p]
    /\ hasVersion(req[p].coll, req[p].name)

PutsACL(p) ==
    /\ pc[p] = "storeACL" /\ pc'[p] = "idle" /\ loc'[p] = loc[p]
    /\ acls' = acls \cup {<<req[p].coll, req[p].name>>}
    /\ aclRaced' = IF \E r \in near[p] : /\ r.op \in DeleteOps
                                         /\ <<r.coll, r.name>> = <<req[p].coll, req[p].name>>
                   THEN aclRaced \cup {<<req[p].coll, req[p].name>>} ELSE aclRaced
    /\ UNCHANGED <<manifests, blobs, kept, ever, owed, raced, spared>>

Effect(p) ==
    /\ Moves(p)
    /\ \/ Looks(p) \/ Uploads(p)
       \/ Accepts(p) \/ FindsFile(p) \/ FindsPrevious(p) \/ PutsManifest(p)
       \/ Resolves(p) \/ DropsManifest(p)
       \/ KeepsACL(p) \/ MissesVersion(p) \/ DropsACL(p)
       \/ ListsKeys(p) \/ VisitsKey(p) \/ RemovesFile(p)
       \/ FindsObject(p) \/ PutsACL(p)

Fails(p) ==
    /\ Moves(p)
    /\ pc[p] # "idle" /\ pc'[p] = "idle" /\ out'[p].st = 500 /\ loc'[p] = loc[p]
    /\ spared' = spared \cup loc[p].cand
                   \cup (IF loc[p].prev = NoDoc THEN {} ELSE manifestChecksums(loc[p].prev))
    /\ aclRaced' = IF req[p].op \in DeleteOps
                   THEN aclRaced \cup {<<req[p].coll, req[p].name>>} ELSE aclRaced
    /\ UNCHANGED <<manifests, blobs, acls, owed, raced, kept, ever>>

Begins(p) ==
    /\ Typed'
    /\ pc[p] = "idle" /\ pc'[p] = req'[p].op
    /\ \A q \in Procs \ {p} : /\ pc'[q] = pc[q] /\ req'[q] = req[q]
                              /\ loc'[q] = loc[q] /\ out'[q] = out[q]
                              /\ kept'[q] = kept[q] /\ ever'[q] = ever[q]
    /\ loc'[p].ver = req'[p].ver /\ loc'[p].prev = NoDoc
    /\ loc'[p].refs = {} /\ loc'[p].cand = {} /\ loc'[p].got = {}
    /\ near' = [q \in Procs |-> IF q = p THEN {req[b] : b \in Busy}
                                ELSE IF q \in Busy THEN near[q] \cup {req'[p]} ELSE near[q]]
    /\ kept'[p] = Stored /\ ever'[p] = Stored
    /\ UNCHANGED <<manifests, blobs, acls, owed, raced, spared, aclRaced>>

-----------------------------------------------------------------------------
(* Every step has one of the effects.                                       *)

LEMMA AnswerCodes ==
    ASSUME NEW c \in Codes, NEW x
    PROVE  /\ NoAnswer.st \in Codes /\ Answer(c).st = c
           /\ [Answer(c) EXCEPT !.doc = x].st = c
           /\ [Answer(c) EXCEPT !.got = x].st = c
           /\ [Answer(c) EXCEPT !.list = x].st = c
BY DEF Answer, NoAnswer, Codes

LEMMA BothCodes ==
    ASSUME NEW c \in Codes, NEW x, NEW y
    PROVE  [Answer(c) EXCEPT !.doc = x, !.got = y].st = c
BY DEF Answer, NoAnswer

LEMMA FinishedCode == ASSUME NEW p PROVE Finished(p).st \in Codes
<1>1. 200 \in Codes /\ 201 \in Codes
  BY DEF Codes
<1>2. (IF loc[p].prev = NoDoc THEN 201 ELSE 200) \in Codes
  BY <1>1
<1>3. CASE req[p].op \in PutOps
  <2>1. Finished(p) = [Answer(IF loc[p].prev = NoDoc THEN 201 ELSE 200)
                         EXCEPT !.doc = shapeManifest(req[p].body, req[p].api)]
    BY <1>3, Zenon DEF Finished
  <2> QED
    BY <1>2, <2>1, AnswerCodes
<1>4. CASE req[p].op \notin PutOps
  <2>1. Finished(p) = [Answer(200) EXCEPT !.doc = shapeManifest(loc[p].prev, req[p].api)]
    BY <1>4, Zenon DEF Finished
  <2> QED
    BY <1>1, <2>1, AnswerCodes
<1> QED
  BY <1>3, <1>4

LEMMA Went ==
    ASSUME Typed, NEW p \in Procs, NEW l \in Steps, Goto(p, l)
    PROVE  PcTo(p, l)
BY DEF Typed, Goto, PcTo

LEMMA Replied ==
    ASSUME Typed, NEW p \in Procs, NEW a, a.st \in Codes, Reply(p, a)
    PROVE  PcTo(p, "idle")
BY DEF Typed, Reply, PcTo, Steps

LEMMA Stayed ==
    ASSUME Typed, NEW p \in Procs, UNCHANGED <<pc, out>>
    PROVE  PcTo(p, pc[p])
BY DEF Typed, PcTo

LEMMA LocSame ==
    ASSUME Typed, NEW p \in Procs, UNCHANGED loc
    PROVE  LocTo(p, loc[p])
BY DEF Typed, LocTo

LEMMA LocWent ==
    ASSUME Typed, NEW p \in Procs, NEW r, LocFields \subseteq DOMAIN r, Local(p, r)
    PROVE  LocTo(p, r)
BY DEF Typed, Local, LocTo

LEMMA Moved ==
    ASSUME Typed, NEW p \in Procs, NEW l, NEW r, PcTo(p, l), LocTo(p, r), Fixed,
           DOMAIN kept' = Procs, DOMAIN ever' = Procs, UNCHANGED sandboxes
    PROVE  Moves(p) /\ pc'[p] = l /\ loc'[p] = r
BY DEF Typed, PcTo, LocTo, Fixed, Moves

\* A step that only reads.
LEMMA MovedReading ==
    ASSUME Typed, NEW p \in Procs, NEW l, NEW r, PcTo(p, l), LocTo(p, r), Fixed, ReadStore
    PROVE  Moves(p) /\ pc'[p] = l /\ loc'[p] = r /\ SameData
<1>1. UNCHANGED sandboxes /\ SameData
  BY DEF ReadStore, Quiet, store, SameData, Stores
<1>2. DOMAIN kept' = Procs /\ DOMAIN ever' = Procs
  BY <1>1 DEF Typed, SameData, Stores
<1> QED
  BY <1>1, <1>2, Moved

\* Steps that read and go on, or read and answer.
LEMMA LooksOn ==
    ASSUME Typed, NEW p \in Procs, NEW l, NEW r, PcTo(p, l), LocTo(p, r), Fixed, ReadStore,
           pc[p] \notin NotServing, l \in Passive,
           l # "idle" => req[p].op \notin PutOps /\ (l \in Ops => l = pc[p]),
           r.refs = loc[p].refs, r.cand = loc[p].cand, r.prev = loc[p].prev
    PROVE  Effect(p)
<1>1. Moves(p) /\ pc'[p] = l /\ loc'[p] = r /\ SameData
  BY MovedReading
<1> QED
  BY <1>1 DEF Effect, Looks

LEMMA LooksReply ==
    ASSUME Typed, NEW p \in Procs, NEW a, a.st \in Codes, Reply(p, a), NEW r, LocTo(p, r),
           Fixed, ReadStore, pc[p] \notin NotServing, Same(r, loc[p])
    PROVE  Effect(p)
<1>1. PcTo(p, "idle")
  BY Replied
<1> QED
  BY <1>1, LooksOn DEF Passive, Same

LEMMA GetFileEffect ==
    ASSUME Typed, NEW p \in Procs, GetFile(p)
    PROVE  Effect(p)
<1> DEFINE c == IF req[p].sums \subseteq blobs THEN 200 ELSE 404
<1>1. Reply(p, Answer(c)) /\ Fixed /\ ReadStore /\ LocTo(p, loc[p]) /\ pc[p] \notin NotServing
  BY LocSame DEF GetFile, CollectSteps, NotServing
<1>2. c \in Codes
  BY DEF Codes
<1> HIDE DEF c
<1> QED
  BY <1>1, <1>2, AnswerCodes, LooksReply DEF Same

LEMMA PutFileEffect ==
    ASSUME Typed, NEW p \in Procs, PutFile(p)
    PROVE  Effect(p)
<1>1. pc[p] = "putFile" /\ Fixed /\ LocTo(p, loc[p])
  BY LocSame DEF PutFile
<1>2. Answer(400).st \in Codes /\ Answer(200).st \in Codes
  BY AnswerCodes DEF Codes
<1>3. CASE req[p].content # req[p].sums
  <2>1. Reply(p, Answer(400)) /\ ReadStore
    BY <1>3 DEF PutFile
  <2> QED
    BY <1>1, <1>2, <2>1, LooksReply DEF Same, CollectSteps, NotServing
<1>4. CASE req[p].content = req[p].sums
  <2>1. /\ Reply(p, Answer(200))
        /\ blobs' = blobs \cup req[p].sums
        /\ owed' = owed \ req[p].sums
        /\ raced' = raced \ req[p].sums
        /\ spared' = spared \ req[p].sums
        /\ UNCHANGED <<manifests, sandboxes, acls, kept, ever, aclRaced>>
    BY <1>4 DEF PutFile
  <2>2. PcTo(p, "idle")
    BY <1>2, <2>1, Replied
  <2>3. DOMAIN kept' = Procs /\ DOMAIN ever' = Procs
    BY <2>1 DEF Typed
  <2>4. Moves(p) /\ pc'[p] = "idle" /\ loc'[p] = loc[p]
    BY <1>1, <2>1, <2>2, <2>3, Moved
  <2> QED
    BY <1>1, <2>1, <2>4 DEF Effect, Uploads
<1> QED
  BY <1>3, <1>4

LEMMA CreateSandboxHasEffect ==
    ASSUME Typed, NEW p \in Procs, Stage(p), CreateSandboxHas(p)
    PROVE  Effect(p)
<1> PICK s \in loc[p].todo :
        Local(p, [loc[p] EXCEPT !.todo = @ \ {s},
                                !.got = IF s \in blobs THEN @ \cup {s} ELSE @])
  BY Zenon DEF CreateSandboxHas
<1> DEFINE r == [loc[p] EXCEPT !.todo = @ \ {s},
                               !.got = IF s \in blobs THEN @ \cup {s} ELSE @]
<1>1. LocFields \subseteq DOMAIN r /\ Same(r, loc[p])
  <2>1. LocFields \subseteq DOMAIN loc[p]
    BY DEF Typed
  <2> QED
    BY <2>1 DEF LocFields, Same
<1>2. Local(p, r)
  OBVIOUS
<1> HIDE DEF r
<1>3. LocTo(p, r)
  BY <1>1, <1>2, LocWent
<1>4. PcTo(p, pc[p]) /\ Fixed /\ ReadStore /\ pc[p] = "createSandbox"
  BY Stayed DEF CreateSandboxHas
<1>5. req[p].op \notin PutOps
  BY <1>4 DEF Stage, PutOps, Ops
<1> QED
  BY <1>1, <1>3, <1>4, <1>5, LooksOn DEF Passive, Same, CollectSteps, NotServing

LEMMA PutSandboxEffect ==
    ASSUME Typed, NEW p \in Procs, NEW state \in {"open", "completed"}, PutSandbox(p, state),
           Fixed, NEW a, a.st \in Codes, Reply(p, a), pc[p] \notin NotServing
    PROVE  Effect(p)
<1>1. PcTo(p, "idle")
  BY Replied
<1>2. LocTo(p, loc[p])
  BY LocSame DEF PutSandbox
<1>3. SameData
  BY DEF PutSandbox, Quiet, SameData, Stores
<1>4. req[p].sums \in SUBSET Sums
  BY RoutedRequests DEF Typed
<1>5. /\ sandboxes' \in [DOMAIN sandboxes' -> {"open", "completed"}]
      /\ DOMAIN sandboxes' \subseteq SUBSET Sums
  BY <1>4 DEF Typed, PutSandbox
<1>6. Moves(p)
  BY <1>1, <1>2, <1>3, <1>5 DEF Typed, PcTo, LocTo, Fixed, Moves, SameData, Stores
<1> QED
  BY <1>1, <1>2, <1>3, <1>6 DEF Effect, Looks, Passive, PcTo, LocTo

LEMMA SandboxEffect ==
    ASSUME Typed, NEW p \in Procs, CreateSandboxPut(p) \/ CommitSandboxPut(p)
    PROVE  Effect(p)
<1>1. CASE CreateSandboxPut(p)
  <2>1. [Answer(201) EXCEPT !.got = loc[p].got].st \in Codes
    BY AnswerCodes DEF Codes
  <2>2. /\ Reply(p, [Answer(201) EXCEPT !.got = loc[p].got]) /\ Fixed /\ PutSandbox(p, "open")
        /\ pc[p] \notin NotServing
    BY <1>1 DEF CreateSandboxPut, CollectSteps, NotServing
  <2> QED
    BY <2>1, <2>2, PutSandboxEffect
<1>2. CASE CommitSandboxPut(p)
  <2>1. Answer(200).st \in Codes
    BY AnswerCodes DEF Codes
  <2>2. /\ Reply(p, Answer(200)) /\ Fixed /\ PutSandbox(p, "completed")
        /\ pc[p] \notin NotServing
    BY <1>2 DEF CommitSandboxPut, CollectSteps, NotServing
  <2> QED
    BY <2>1, <2>2, PutSandboxEffect
<1> QED
  BY <1>1, <1>2

LEMMA CommitSandboxGetEffect ==
    ASSUME Typed, NEW p \in Procs, Stage(p), CommitSandboxGet(p)
    PROVE  Effect(p)
<1>1. pc[p] = "commitSandbox" /\ Fixed /\ ReadStore
  BY DEF CommitSandboxGet
<1>2. CASE req[p].sums \notin DOMAIN sandboxes
  <2>1. Reply(p, Answer(404)) /\ LocTo(p, loc[p]) /\ Answer(404).st \in Codes
    BY <1>2, LocSame, AnswerCodes DEF CommitSandboxGet, Codes
  <2> QED
    BY <1>1, <2>1, LooksReply DEF Same, CollectSteps, NotServing
<1>3. CASE req[p].sums \in DOMAIN sandboxes
  <2> DEFINE r == [loc[p] EXCEPT !.todo = req[p].sums]
  <2>1. Goto(p, "commitHas") /\ Local(p, r)
    BY <1>3 DEF CommitSandboxGet
  <2>2. LocFields \subseteq DOMAIN r /\ Same(r, loc[p])
    BY DEF Typed, LocFields, Same
  <2> HIDE DEF r
  <2>3. LocTo(p, r) /\ PcTo(p, "commitHas")
    BY <2>1, <2>2, LocWent, Went DEF Steps
  <2>4. req[p].op \notin PutOps /\ "commitHas" \notin Ops
    BY <1>1 DEF Stage, PutOps, Ops, DeleteOps, EnvOps
  <2> QED
    BY <1>1, <2>2, <2>3, <2>4, LooksOn DEF Passive, Same, CollectSteps, NotServing
<1> QED
  BY <1>2, <1>3

LEMMA HasBlobEffect ==
    ASSUME Typed, NEW p \in Procs, Stage(p), HasBlob(p)
    PROVE  Effect(p)
<1>1. pc[p] \in {"hasBlob", "commitHas"} /\ Fixed /\ ReadStore
  BY DEF HasBlob
<1> PICK s \in loc[p].todo :
        \/ /\ s \in blobs
           /\ Local(p, [loc[p] EXCEPT !.todo = @ \ {s}]) /\ UNCHANGED <<pc, out>>
        \/ /\ s \notin blobs
           /\ Reply(p, Answer(400)) /\ UNCHANGED loc
  BY Zenon DEF HasBlob
<1>2. CASE s \in blobs
  <2> DEFINE r == [loc[p] EXCEPT !.todo = loc[p].todo \ {s}]
  <2>1. Local(p, r) /\ UNCHANGED <<pc, out>>
    BY <1>2
  <2>2. LocFields \subseteq DOMAIN r /\ Same(r, loc[p]) /\ r.todo = loc[p].todo \ {s}
    BY DEF Typed, LocFields, Same
  <2> HIDE DEF r
  <2>3. LocTo(p, r) /\ PcTo(p, pc[p])
    BY <2>1, <2>2, LocWent, Stayed
  <2>4. CASE pc[p] = "hasBlob"
    <3>1. Moves(p) /\ pc'[p] = pc[p] /\ loc'[p] = r /\ SameData
      BY <1>1, <2>3, MovedReading
    <3> QED
      BY <1>2, <2>2, <2>4, <3>1 DEF Effect, FindsFile
  <2>5. CASE pc[p] = "commitHas"
    <3>1. req[p].op \notin PutOps
      BY <2>5 DEF Stage
    <3> QED
      BY <1>1, <2>2, <2>3, <2>5, <3>1, LooksOn DEF Passive, Same, CollectSteps, NotServing
  <2> QED
    BY <1>1, <2>4, <2>5
<1>3. CASE s \notin blobs
  <2>1. Reply(p, Answer(400)) /\ LocTo(p, loc[p]) /\ Answer(400).st \in Codes
    BY <1>3, LocSame, AnswerCodes DEF Codes
  <2> QED
    BY <1>1, <2>1, LooksReply DEF Same, CollectSteps, NotServing
<1> QED
  BY <1>2, <1>3

\* A put that is accepted goes on to its files.
LEMMA AcceptsOn ==
    ASSUME Typed, NEW p \in Procs, pc[p] \in PutOps, Fixed, ReadStore, Goto(p, "hasBlob"),
           Local(p, [loc[p] EXCEPT !.todo = manifestChecksums(req[p].body)])
    PROVE  Effect(p)
<1> DEFINE r == [loc[p] EXCEPT !.todo = manifestChecksums(req[p].body)]
<1>1. /\ LocFields \subseteq DOMAIN r /\ Same(r, loc[p])
      /\ r.todo = manifestChecksums(req[p].body)
  BY DEF Typed, LocFields, Same
<1>2. Local(p, r)
  OBVIOUS
<1> HIDE DEF r
<1>3. LocTo(p, r) /\ PcTo(p, "hasBlob")
  BY <1>1, <1>2, LocWent, Went DEF Steps
<1>4. Moves(p) /\ pc'[p] = "hasBlob" /\ loc'[p] = r /\ SameData
  BY <1>3, MovedReading
<1> QED
  BY <1>1, <1>4 DEF Effect, Accepts

LEMMA PutCookbookVersionEffect ==
    ASSUME Typed, NEW p \in Procs, PutCookbookVersion(p)
    PROVE  Effect(p)
<1>1. pc[p] = "putCookbookVersion" /\ Fixed /\ ReadStore
  BY DEF PutCookbookVersion
<1>2. \/ /\ Goto(p, "hasBlob")
         /\ Local(p, [loc[p] EXCEPT !.todo = manifestChecksums(req[p].body)])
      \/ Reply(p, Answer(400)) /\ UNCHANGED loc
  BY Zenon DEF PutCookbookVersion
<1>3. CASE Reply(p, Answer(400)) /\ UNCHANGED loc
  <2>1. LocTo(p, loc[p]) /\ Answer(400).st \in Codes
    BY <1>3, LocSame, AnswerCodes DEF Codes
  <2> QED
    BY <1>1, <1>3, <2>1, LooksReply DEF Same, CollectSteps, NotServing
<1> QED
  BY <1>1, <1>2, <1>3, AcceptsOn DEF PutOps

LEMMA PutArtifactGetEffect ==
    ASSUME Typed, NEW p \in Procs, PutArtifactGet(p)
    PROVE  Effect(p)
<1>1. pc[p] = "putArtifactVersion" /\ Fixed /\ ReadStore
  BY DEF PutArtifactGet
<1>2. \/ /\ Goto(p, "hasBlob")
         /\ Local(p, [loc[p] EXCEPT !.todo = manifestChecksums(req[p].body)])
      \/ Reply(p, Answer(400)) /\ UNCHANGED loc
      \/ Reply(p, Answer(409)) /\ UNCHANGED loc
  BY Zenon DEF PutArtifactGet
<1>3. ASSUME NEW c \in {400, 409}, Reply(p, Answer(c)), UNCHANGED loc
      PROVE  Effect(p)
  <2>1. LocTo(p, loc[p]) /\ Answer(c).st \in Codes
    BY <1>3, LocSame, AnswerCodes DEF Codes
  <2> QED
    BY <1>1, <1>3, <2>1, LooksReply DEF Same, CollectSteps, NotServing
<1> QED
  BY <1>1, <1>2, <1>3, AcceptsOn DEF PutOps

LEMMA GetPreviousEffect ==
    ASSUME Typed, NEW p \in Procs, GetPrevious(p)
    PROVE  Effect(p)
<1> DEFINE m == IF Key(p) \in Stored THEN manifests[Key(p)] ELSE NoDoc
           r == [loc[p] EXCEPT !.prev = m]
<1>1. /\ pc[p] = "hasBlob" /\ loc[p].todo = {} /\ req[p].op = "putCookbookVersion"
      /\ Fixed /\ ReadStore /\ Goto(p, "put") /\ Local(p, r)
  BY DEF GetPrevious
<1>2. m # NoDoc => Key(p) \in Stored /\ m = manifests[Key(p)]
  OBVIOUS
<1> HIDE DEF m
<1>3. /\ LocFields \subseteq DOMAIN r /\ r.todo = loc[p].todo /\ r.ver = loc[p].ver
      /\ r.refs = loc[p].refs /\ r.cand = loc[p].cand /\ r.prev = m
  BY DEF Typed, LocFields
<1> HIDE DEF r
<1>4. LocTo(p, r) /\ PcTo(p, "put")
  BY <1>1, <1>3, LocWent, Went DEF Steps
<1>5. Moves(p) /\ pc'[p] = "put" /\ loc'[p] = r /\ SameData
  BY <1>1, <1>4, MovedReading
<1> QED
  BY <1>1, <1>2, <1>3, <1>5 DEF Effect, FindsPrevious

LEMMA ChangeFrame ==
    ASSUME NEW ms, Change(ms)
    PROVE  DOMAIN kept' = Procs /\ DOMAIN ever' = Procs /\ UNCHANGED sandboxes
BY DEF Change

LEMMA PutManifestEffect ==
    ASSUME Typed, NEW p \in Procs, Stage(p), PutManifest(p)
    PROVE  Effect(p)
<1> DEFINE old == IF loc[p].prev = NoDoc THEN {} ELSE manifestChecksums(loc[p].prev)
           r == [loc[p] EXCEPT !.cand = old]
           l == IF old = {} THEN "idle" ELSE "gc"
<1>1. /\ pc[p] = "put" \/ (pc[p] = "hasBlob" /\ req[p].op = "putArtifactVersion")
      /\ pc[p] = "hasBlob" => loc[p].todo = {}
      /\ Fixed /\ StoreManifest(p, req[p].body) /\ Local(p, r)
      /\ IF old = {} THEN Reply(p, Finished(p)) ELSE Goto(p, "gc")
  BY DEF PutManifest
<1>2. loc[p].todo = {}
  BY <1>1 DEF Stage
<1> HIDE DEF old
<1>3. /\ LocFields \subseteq DOMAIN r /\ r.ver = loc[p].ver
      /\ r.refs = loc[p].refs /\ r.cand = old /\ r.prev = loc[p].prev
  BY DEF Typed, LocFields
<1>4. PcTo(p, l)
  BY <1>1, Went, Replied, FinishedCode DEF Steps, CollectSteps, NotServing
<1> HIDE DEF r, l
<1>5. LocTo(p, r)
  BY <1>1, <1>3, LocWent
<1>6. DOMAIN kept' = Procs /\ DOMAIN ever' = Procs /\ UNCHANGED sandboxes
  BY <1>1, ChangeFrame DEF StoreManifest
<1>7. Moves(p) /\ pc'[p] = l /\ loc'[p] = r
  BY <1>1, <1>4, <1>5, <1>6, Moved
<1> QED
  BY <1>1, <1>2, <1>3, <1>7 DEF Effect, PutsManifest, old, l

LEMMA ResolveVersionEffect ==
    ASSUME Typed, NEW p \in Procs, Stage(p), ResolveVersion(p)
    PROVE  Effect(p)
<1>1. /\ pc[p] \in {"getCookbookVersion", "deleteCookbookVersion"} /\ Fixed /\ ReadStore
      /\ pc[p] \in Ops
  BY DEF ResolveVersion, Ops, DeleteOps
<1>2. \/ Reply(p, Answer(404)) /\ UNCHANGED loc
      \/ /\ \E vs \in NewestFirst(VersionsOf(Stored, req[p].name)) :
              Local(p, [loc[p] EXCEPT !.ver = vs[1], !.avail = Stored])
         /\ UNCHANGED <<pc, out>>
  BY Zenon DEF ResolveVersion
<1>3. CASE Reply(p, Answer(404)) /\ UNCHANGED loc
  <2>1. LocTo(p, loc[p]) /\ Answer(404).st \in Codes
    BY <1>3, LocSame, AnswerCodes DEF Codes
  <2> QED
    BY <1>1, <1>3, <2>1, LooksReply DEF Same, CollectSteps, NotServing
<1>4. ASSUME NEW vs, UNCHANGED <<pc, out>>,
             Local(p, [loc[p] EXCEPT !.ver = vs[1], !.avail = Stored])
      PROVE  Effect(p)
  <2> DEFINE r == [loc[p] EXCEPT !.ver = vs[1], !.avail = Stored]
  <2>1. /\ LocFields \subseteq DOMAIN r
        /\ r.refs = loc[p].refs /\ r.cand = loc[p].cand /\ r.prev = loc[p].prev
    BY DEF Typed, LocFields
  <2>2. Local(p, r)
    BY <1>4
  <2> HIDE DEF r
  <2>3. LocTo(p, r) /\ PcTo(p, pc[p])
    BY <1>4, <2>1, <2>2, LocWent, Stayed
  <2>4. CASE pc[p] = "getCookbookVersion"
    <3>1. req[p].op \notin PutOps
      BY <1>1, <2>4 DEF Stage, PutOps
    <3> QED
      BY <1>1, <2>1, <2>3, <2>4, <3>1, LooksOn DEF Passive, CollectSteps, NotServing
  <2>5. CASE pc[p] = "deleteCookbookVersion"
    <3>1. Moves(p) /\ pc'[p] = pc[p] /\ loc'[p] = r /\ SameData
      BY <1>1, <2>3, MovedReading
    <3> QED
      BY <2>1, <2>5, <3>1 DEF Effect, Resolves
  <2> QED
    BY <1>1, <2>4, <2>5
<1> QED
  BY <1>2, <1>3, <1>4

LEMMA DeleteManifestEffect ==
    ASSUME Typed, NEW p \in Procs, DeleteManifest(p)
    PROVE  Effect(p)
<1>1. pc[p] \in DeleteOps /\ Fixed
  BY DEF DeleteManifest
<1>2. CASE Key(p) \notin Stored
  <2>1. Reply(p, Answer(404)) /\ ReadStore /\ LocTo(p, loc[p]) /\ Answer(404).st \in Codes
    BY <1>2, LocSame, AnswerCodes DEF DeleteManifest, Codes
  <2> QED
    BY <1>1, <2>1, LooksReply DEF Same, CollectSteps, NotServing, DeleteOps
<1>3. CASE Key(p) \in Stored
  <2> DEFINE m == manifests[Key(p)]
             r == [loc[p] EXCEPT !.prev = m, !.cand = manifestChecksums(m)]
  <2>1. DropManifest(Key(p)) /\ Local(p, r) /\ Goto(p, "deleteVersionedACL")
    BY <1>3, Zenon DEF DeleteManifest
  <2> HIDE DEF m
  <2>2. /\ LocFields \subseteq DOMAIN r /\ r.prev = m /\ r.cand = manifestChecksums(m)
        /\ r.refs = loc[p].refs
    BY DEF Typed, LocFields
  <2> HIDE DEF r
  <2>3. LocTo(p, r) /\ PcTo(p, "deleteVersionedACL")
    BY <2>1, <2>2, LocWent, Went DEF Steps, CollectSteps, NotServing
  <2>4. DOMAIN kept' = Procs /\ DOMAIN ever' = Procs /\ UNCHANGED sandboxes
    BY <2>1, ChangeFrame DEF DropManifest
  <2>5. Moves(p) /\ pc'[p] = "deleteVersionedACL" /\ loc'[p] = r
    BY <1>1, <2>3, <2>4, Moved
  <2> QED
    BY <1>1, <1>3, <2>1, <2>2, <2>5 DEF Effect, DropsManifest, m
<1> QED
  BY <1>2, <1>3

LEMMA DeleteVersionedACLEffect ==
    ASSUME Typed, NEW p \in Procs, DeleteVersionedACL(p)
    PROVE  Effect(p)
<1>1. pc[p] = "deleteVersionedACL" /\ Fixed /\ ReadStore /\ LocTo(p, loc[p])
  BY LocSame DEF DeleteVersionedACL
<1>2. CASE ~hasVersion(req[p].coll, req[p].name)
  <2>1. PcTo(p, "deleteACL")
    BY <1>2, Went DEF DeleteVersionedACL, Steps, CollectSteps, NotServing
  <2>2. Moves(p) /\ pc'[p] = "deleteACL" /\ loc'[p] = loc[p] /\ SameData
    BY <1>1, <2>1, MovedReading
  <2> QED
    BY <1>1, <2>2 DEF Effect, MissesVersion
<1>3. CASE hasVersion(req[p].coll, req[p].name)
  <2> DEFINE l == IF loc[p].cand = {} THEN "idle" ELSE "gc"
  <2>1. PcTo(p, l)
    BY <1>3, Went, Replied, FinishedCode DEF DeleteVersionedACL, Steps, CollectSteps, NotServing
  <2>2. Moves(p) /\ pc'[p] = l /\ loc'[p] = loc[p] /\ SameData
    BY <1>1, <2>1, MovedReading
  <2> QED
    BY <1>1, <1>3, <2>2 DEF Effect, KeepsACL, Collects
<1> QED
  BY <1>2, <1>3

LEMMA DeleteACLEffect ==
    ASSUME Typed, NEW p \in Procs, DeleteACL(p)
    PROVE  Effect(p)
<1> DEFINE l == IF loc[p].cand = {} THEN "idle" ELSE "gc"
<1>1. /\ pc[p] = "deleteACL" /\ Fixed /\ LocTo(p, loc[p])
      /\ acls' = acls \ {<<req[p].coll, req[p].name>>}
      /\ UNCHANGED <<manifests, blobs, owed, raced, spared, aclRaced, kept, ever>>
      /\ UNCHANGED sandboxes
  BY LocSame DEF DeleteACL, Quiet
<1>2. PcTo(p, l)
  BY Went, Replied, FinishedCode DEF DeleteACL, Steps, CollectSteps, NotServing
<1>3. DOMAIN kept' = Procs /\ DOMAIN ever' = Procs
  BY <1>1 DEF Typed
<1>4. Moves(p) /\ pc'[p] = l /\ loc'[p] = loc[p]
  BY <1>1, <1>2, <1>3, Moved
<1> QED
  BY <1>1, <1>4 DEF Effect, DropsACL, Collects

LEMMA CollectingMoves ==
    ASSUME Typed, NEW p \in Procs, NEW coll \in Colls, NEW r, LocFields \subseteq DOMAIN r,
           r.ver = loc[p].ver, r.prev = loc[p].prev, Collecting(p, coll, r), Fixed,
           UNCHANGED sandboxes, DOMAIN kept' = Procs, DOMAIN ever' = Procs
    PROVE  Moves(p) /\ loc'[p] = r /\ Stays(p, coll)
<1>1. LocTo(p, r)
  BY LocWent DEF Collecting
<1>2. CASE coll = "cookbook_artifacts" /\ r.todo = {} /\ r.cand \subseteq r.refs
  <2>1. PcTo(p, "idle")
    BY <1>2, Replied, FinishedCode DEF Collecting
  <2>2. Moves(p) /\ pc'[p] = "idle" /\ loc'[p] = r
    BY <1>1, <2>1, Moved
  <2> QED
    BY <1>2, <2>2 DEF Stays
<1>3. CASE ~(coll = "cookbook_artifacts" /\ r.todo = {} /\ r.cand \subseteq r.refs)
  <2>1. PcTo(p, coll)
    BY <1>3, Went DEF Collecting, Steps, CollectSteps, NotServing, Colls
  <2>2. Moves(p) /\ pc'[p] = coll /\ loc'[p] = r
    BY <1>1, <2>1, Moved
  <2> QED
    BY <2>2 DEF Stays
<1> QED
  BY <1>2, <1>3

LEMMA ReadFrame ==
    ASSUME Typed, ReadStore
    PROVE  SameData /\ UNCHANGED sandboxes /\ DOMAIN kept' = Procs /\ DOMAIN ever' = Procs
BY DEF Typed, ReadStore, Quiet, store, SameData, Stores

LEMMA GCKeysEffect ==
    ASSUME Typed, NEW p \in Procs, GCKeys(p)
    PROVE  Effect(p)
<1> PICK coll \in Colls :
        /\ \/ coll = "cookbooks" /\ pc[p] = "gc"
           \/ coll = "cookbook_artifacts" /\ pc[p] = "cookbooks" /\ loc[p].todo = {}
        /\ Collecting(p, coll, [loc[p] EXCEPT !.todo = {k \in Stored : k[1] = coll}])
  BY Zenon DEF GCKeys
<1> DEFINE ks == {k \in Stored : k[1] = coll}
           r == [loc[p] EXCEPT !.todo = ks]
<1> HIDE DEF ks
<1>1. LocFields \subseteq DOMAIN r /\ Same(r, loc[p]) /\ r.todo = ks
  BY DEF Typed, LocFields, Same
<1>2. Collecting(p, coll, r)
  BY DEF ks
<1> HIDE DEF r
<1>3. Fixed /\ SameData /\ UNCHANGED sandboxes /\ DOMAIN kept' = Procs /\ DOMAIN ever' = Procs
  BY ReadFrame DEF GCKeys
<1>4. Moves(p) /\ loc'[p] = r /\ Stays(p, coll)
  BY <1>1, <1>2, <1>3, CollectingMoves DEF Same
<1>5. ListsKeys(p)
  BY <1>1, <1>3, <1>4 DEF ListsKeys, Same, ks
<1> QED
  BY <1>4, <1>5 DEF Effect

LEMMA GCGetEffect ==
    ASSUME Typed, NEW p \in Procs, GCGet(p)
    PROVE  Effect(p)
<1> PICK k \in loc[p].todo :
        Collecting(p, pc[p], [loc[p] EXCEPT !.todo = @ \ {k}, !.refs = @ \cup
            IF k \in Stored THEN manifestChecksums(manifests[k]) ELSE {}])
  BY Zenon DEF GCGet
<1> DEFINE new == IF k \in Stored THEN manifestChecksums(manifests[k]) ELSE {}
           r == [loc[p] EXCEPT !.todo = @ \ {k}, !.refs = @ \cup new]
<1>1. Collecting(p, pc[p], r)
  OBVIOUS
<1> HIDE DEF new
<1>2. /\ LocFields \subseteq DOMAIN r /\ r.ver = loc[p].ver /\ r.prev = loc[p].prev
      /\ r.cand = loc[p].cand /\ r.todo = loc[p].todo \ {k} /\ r.refs = loc[p].refs \cup new
  BY DEF Typed, LocFields
<1> HIDE DEF r
<1>3. /\ Fixed /\ SameData /\ UNCHANGED sandboxes /\ DOMAIN kept' = Procs /\ DOMAIN ever' = Procs
      /\ pc[p] \in Colls
  BY ReadFrame DEF GCGet
<1>4. Moves(p) /\ loc'[p] = r /\ Stays(p, pc[p])
  BY <1>1, <1>2, <1>3, CollectingMoves
<1>5. VisitsKey(p)
  BY <1>2, <1>3, <1>4 DEF VisitsKey, new
<1> QED
  BY <1>4, <1>5 DEF Effect

LEMMA DeleteBlobEffect ==
    ASSUME Typed, NEW p \in Procs, DeleteBlob(p)
    PROVE  Effect(p)
<1>1. /\ pc[p] = "cookbook_artifacts" /\ loc[p].todo = {} /\ Fixed
      /\ UNCHANGED <<manifests, acls, kept, ever, owed, spared, aclRaced>> /\ UNCHANGED sandboxes
  BY DEF DeleteBlob
<1> PICK s \in loc[p].cand \ loc[p].refs :
        /\ blobs' = blobs \ {s}
        /\ raced' = IF \E r \in near[p] : r.op \in PutOps /\ s \in manifestChecksums(r.body)
                    THEN raced \cup {s} ELSE raced
        /\ Collecting(p, "cookbook_artifacts", [loc[p] EXCEPT !.cand = @ \ {s}])
  BY Zenon DEF DeleteBlob
<1> DEFINE r0 == [loc[p] EXCEPT !.cand = loc[p].cand \ {s}]
<1>2. Collecting(p, "cookbook_artifacts", r0)
  OBVIOUS
<1>3. /\ LocFields \subseteq DOMAIN r0 /\ r0.ver = loc[p].ver /\ r0.prev = loc[p].prev
      /\ r0.refs = loc[p].refs /\ r0.todo = loc[p].todo /\ r0.cand = loc[p].cand \ {s}
  BY DEF Typed, LocFields
<1> HIDE DEF r0
<1>4. DOMAIN kept' = Procs /\ DOMAIN ever' = Procs
  BY <1>1 DEF Typed
<1>5. Moves(p) /\ loc'[p] = r0 /\ Stays(p, "cookbook_artifacts")
  BY <1>1, <1>2, <1>3, <1>4, CollectingMoves DEF Colls
<1>6. RemovesFile(p)
  BY <1>1, <1>3, <1>5 DEF RemovesFile
<1> QED
  BY <1>5, <1>6 DEF Effect

LEMMA PutACLCheckEffect ==
    ASSUME Typed, NEW p \in Procs, PutACLCheck(p)
    PROVE  Effect(p)
<1>1. pc[p] = "putACL" /\ Fixed /\ ReadStore /\ LocTo(p, loc[p])
  BY LocSame DEF PutACLCheck
<1>2. CASE hasVersion(req[p].coll, req[p].name)
  <2>1. PcTo(p, "storeACL")
    BY <1>2, Went DEF PutACLCheck, Steps
  <2>2. Moves(p) /\ pc'[p] = "storeACL" /\ loc'[p] = loc[p] /\ SameData
    BY <1>1, <2>1, MovedReading
  <2> QED
    BY <1>1, <1>2, <2>2 DEF Effect, FindsObject
<1>3. CASE ~hasVersion(req[p].coll, req[p].name)
  <2>1. Reply(p, Answer(404)) /\ Answer(404).st \in Codes
    BY <1>3, AnswerCodes DEF PutACLCheck, Codes
  <2> QED
    BY <1>1, <2>1, LooksReply DEF Same, CollectSteps, NotServing
<1> QED
  BY <1>2, <1>3

LEMMA PutACLEffect ==
    ASSUME Typed, NEW p \in Procs, PutACL(p)
    PROVE  Effect(p)
<1> DEFINE object == <<req[p].coll, req[p].name>>
<1>1. /\ pc[p] = "storeACL" /\ Fixed /\ LocTo(p, loc[p]) /\ Reply(p, Answer(200))
      /\ acls' = acls \cup {object}
      /\ aclRaced' = IF \E r \in near[p] : r.op \in DeleteOps /\ <<r.coll, r.name>> = object
                     THEN aclRaced \cup {object} ELSE aclRaced
      /\ UNCHANGED <<manifests, blobs, kept, ever, owed, raced, spared>>
      /\ UNCHANGED sandboxes
  BY LocSame DEF PutACL
<1>2. PcTo(p, "idle")
  BY <1>1, Replied, AnswerCodes DEF Codes
<1>3. DOMAIN kept' = Procs /\ DOMAIN ever' = Procs
  BY <1>1 DEF Typed
<1>4. Moves(p) /\ pc'[p] = "idle" /\ loc'[p] = loc[p]
  BY <1>1, <1>2, <1>3, Moved
<1> QED
  BY <1>1, <1>4 DEF Effect, PutsACL

LEMMA ListVersionsEffect ==
    ASSUME Typed, NEW p \in Procs, ListVersions(p)
    PROVE  Effect(p)
<1>1. pc[p] \notin NotServing /\ Fixed /\ ReadStore
  BY DEF ListVersions, CollectSteps, NotServing
<1>2. Answer(400).st \in Codes /\ Answer(404).st \in Codes
  BY AnswerCodes DEF Codes
<1>3. ASSUME NEW x PROVE [Answer(200) EXCEPT !.list = x].st \in Codes
  BY AnswerCodes DEF Codes
<1> DEFINE r == [loc[p] EXCEPT !.avail = Stored]
<1>4. LocFields \subseteq DOMAIN r /\ Same(r, loc[p])
  BY DEF Typed, LocFields, Same
<1>5. CASE ~ValidNum(req[p].num)
  <2>1. Reply(p, Answer(400)) /\ LocTo(p, loc[p])
    BY <1>5, LocSame DEF ListVersions
  <2> QED
    BY <1>1, <1>2, <2>1, LooksReply DEF Same
<1>6. CASE ValidNum(req[p].num)
  <2>1. Local(p, r)
    BY <1>6 DEF ListVersions
  <2>2. Reply(p, Answer(404)) \/ \E x : Reply(p, [Answer(200) EXCEPT !.list = x])
    BY <1>6, Zenon DEF ListVersions
  <2> HIDE DEF r
  <2>3. LocTo(p, r)
    BY <1>4, <2>1, LocWent
  <2> QED
    BY <1>1, <1>2, <1>3, <1>4, <2>2, <2>3, LooksReply
<1> QED
  BY <1>5, <1>6

LEMMA ListArtifactsEffect ==
    ASSUME Typed, NEW p \in Procs, ListArtifacts(p)
    PROVE  Effect(p)
<1>1. pc[p] \notin NotServing /\ Fixed /\ ReadStore /\ LocTo(p, loc[p])
  BY LocSame DEF ListArtifacts, CollectSteps, NotServing
<1>2. Reply(p, Answer(404)) \/ \E x : Reply(p, [Answer(200) EXCEPT !.got = x])
  BY Zenon DEF ListArtifacts
<1>3. Answer(404).st \in Codes /\ \A x : [Answer(200) EXCEPT !.got = x].st \in Codes
  BY AnswerCodes DEF Codes
<1> QED
  BY <1>1, <1>2, <1>3, LooksReply DEF Same

LEMMA GetManifestEffect ==
    ASSUME Typed, NEW p \in Procs, GetManifest(p)
    PROVE  Effect(p)
<1>1. pc[p] \notin NotServing /\ Fixed /\ ReadStore /\ LocTo(p, loc[p])
  BY LocSame DEF GetManifest, CollectSteps, NotServing
<1>2. Reply(p, Answer(404)) \/ \E x, y : Reply(p, [Answer(200) EXCEPT !.doc = x, !.got = y])
  BY Zenon DEF GetManifest
<1>3. Answer(404).st \in Codes /\ \A x, y : [Answer(200) EXCEPT !.doc = x, !.got = y].st \in Codes
  BY AnswerCodes, BothCodes DEF Codes
<1> QED
  BY <1>1, <1>2, <1>3, LooksReply DEF Same

LEMMA GetEnvironmentEffect ==
    ASSUME Typed, NEW p \in Procs, Stage(p), GetEnvironment(p)
    PROVE  Effect(p)
<1>1. pc[p] \notin NotServing /\ Fixed /\ ReadStore /\ LocTo(p, loc[p]) /\ pc[p] \in EnvOps
  BY LocSame DEF GetEnvironment, CollectSteps, NotServing, EnvOps
<1>2. Reply(p, Answer(404)) \/ Reply(p, Answer(400)) \/ Goto(p, "envKeys")
  BY Zenon DEF GetEnvironment
<1>3. Answer(404).st \in Codes /\ Answer(400).st \in Codes
  BY AnswerCodes DEF Codes
<1>4. CASE Goto(p, "envKeys")
  <2>1. PcTo(p, "envKeys") /\ req[p].op \notin PutOps /\ "envKeys" \notin Ops
    BY <1>1, <1>4, Went DEF Steps, Stage, Ops, PutOps, EnvOps, DeleteOps
  <2> QED
    BY <1>1, <2>1, LooksOn DEF Passive
<1> QED
  BY <1>1, <1>2, <1>3, <1>4, LooksReply DEF Same

LEMMA EnvKeysEffect ==
    ASSUME Typed, NEW p \in Procs, Stage(p), EnvKeys(p)
    PROVE  Effect(p)
<1>1. pc[p] = "envKeys" /\ Fixed /\ ReadStore
  BY DEF EnvKeys
<1>2. req[p].op \notin PutOps /\ "readEach" \notin Ops /\ "solve" \notin Ops
  BY <1>1 DEF Stage, Ops, PutOps, EnvOps, DeleteOps
<1> DEFINE l == [loc[p] EXCEPT !.avail = Stored]
<1>3. PICK f \in cookbookVersions(filteredCookbookVersions(req[p].env)) :
        \/ /\ Local(p, l)
           /\ \/ Reply(p, Answer(404))
              \/ \E x : Reply(p, [Answer(200) EXCEPT !.list = x])
        \/ /\ Local(p, [l EXCEPT !.todo = Heads(f)])
           /\ Reply(p, Answer(200)) \/ Goto(p, "readEach")
        \/ /\ Local(p, [l EXCEPT !.todo = Heads(f), !.queue = RunListNames(p)])
           /\ Reply(p, Answer(200)) \/ Goto(p, "solve")
  BY Zenon DEF EnvKeys
<1> DEFINE h == Heads(f)
           n == RunListNames(p)
           r1 == [l EXCEPT !.todo = h]
           r2 == [l EXCEPT !.todo = h, !.queue = n]
<1>4. \E r \in {l, r1, r2} :
        /\ Local(p, r)
        /\ \/ Reply(p, Answer(404))
           \/ Reply(p, Answer(200))
           \/ \E x : Reply(p, [Answer(200) EXCEPT !.list = x])
           \/ Goto(p, "readEach")
           \/ Goto(p, "solve")
  BY <1>3, Zenon
<1> HIDE DEF h, n
<1>5. \A r \in {l, r1, r2} : LocFields \subseteq DOMAIN r /\ Same(r, loc[p])
  <2>1. LocFields \subseteq DOMAIN loc[p]
    BY DEF Typed
  <2>2. LocFields \subseteq DOMAIN l /\ Same(l, loc[p])
    BY <2>1 DEF LocFields, Same
  <2> HIDE DEF l
  <2>3. LocFields \subseteq DOMAIN r1 /\ Same(r1, loc[p])
    BY <2>2 DEF LocFields, Same
  <2>4. LocFields \subseteq DOMAIN r2 /\ Same(r2, loc[p])
    BY <2>2 DEF LocFields, Same
  <2> QED
    BY <2>2, <2>3, <2>4
<1> HIDE DEF l, r1, r2
<1>6. PICK r : /\ LocTo(p, r) /\ Same(r, loc[p])
               /\ \/ Reply(p, Answer(404))
                  \/ Reply(p, Answer(200))
                  \/ \E x : Reply(p, [Answer(200) EXCEPT !.list = x])
                  \/ Goto(p, "readEach")
                  \/ Goto(p, "solve")
  BY <1>4, <1>5, LocWent
<1>7. CASE Reply(p, Answer(404)) \/ Reply(p, Answer(200))
  <2>1. Answer(404).st \in Codes /\ Answer(200).st \in Codes
    BY AnswerCodes DEF Codes
  <2> QED
    BY <1>1, <1>6, <1>7, <2>1, LooksReply DEF CollectSteps, NotServing
<1>8. ASSUME NEW x, Reply(p, [Answer(200) EXCEPT !.list = x])
      PROVE  Effect(p)
  <2>1. [Answer(200) EXCEPT !.list = x].st \in Codes
    BY AnswerCodes DEF Codes
  <2> QED
    BY <1>1, <1>6, <1>8, <2>1, LooksReply DEF CollectSteps, NotServing
<1>9. ASSUME NEW s \in {"readEach", "solve"}, Goto(p, s)
      PROVE  Effect(p)
  <2>1. PcTo(p, s)
    BY <1>9, Went DEF Steps
  <2> QED
    BY <1>1, <1>2, <1>6, <2>1, LooksOn DEF Passive, Same, CollectSteps, NotServing
<1> QED
  BY <1>6, <1>7, <1>8, <1>9

\* The locals of a loop over manifests.
LEMMA LoopFields ==
    ASSUME Typed, NEW p \in Procs, NEW x, NEW y
    PROVE  /\ LocFields \subseteq DOMAIN [loc[p] EXCEPT !.got = x, !.queue = y]
           /\ Same([loc[p] EXCEPT !.got = x, !.queue = y], loc[p])
           /\ [loc[p] EXCEPT !.got = x, !.queue = y].queue = y
           /\ LocFields \subseteq DOMAIN [loc[p] EXCEPT !.todo = x, !.avail = y]
           /\ Same([loc[p] EXCEPT !.todo = x, !.avail = y], loc[p])
           /\ [loc[p] EXCEPT !.todo = x, !.avail = y].todo = x
           /\ [loc[p] EXCEPT !.todo = x, !.avail = y].got = loc[p].got
           /\ LocFields \subseteq DOMAIN [loc[p] EXCEPT !.todo = x, !.got = y]
           /\ Same([loc[p] EXCEPT !.todo = x, !.got = y], loc[p])
           /\ [loc[p] EXCEPT !.todo = x, !.got = y].todo = x
           /\ [loc[p] EXCEPT !.todo = x, !.got = y].got = y
<1>1. LocFields \subseteq DOMAIN loc[p]
  BY DEF Typed
<1>2. /\ LocFields \subseteq DOMAIN [loc[p] EXCEPT !.got = x, !.queue = y]
      /\ Same([loc[p] EXCEPT !.got = x, !.queue = y], loc[p])
      /\ [loc[p] EXCEPT !.got = x, !.queue = y].queue = y
  BY <1>1 DEF LocFields, Same
<1>3. /\ LocFields \subseteq DOMAIN [loc[p] EXCEPT !.todo = x, !.avail = y]
      /\ Same([loc[p] EXCEPT !.todo = x, !.avail = y], loc[p])
      /\ [loc[p] EXCEPT !.todo = x, !.avail = y].todo = x
      /\ [loc[p] EXCEPT !.todo = x, !.avail = y].got = loc[p].got
  BY <1>1 DEF LocFields, Same
<1>4. /\ LocFields \subseteq DOMAIN [loc[p] EXCEPT !.todo = x, !.got = y]
      /\ Same([loc[p] EXCEPT !.todo = x, !.got = y], loc[p])
      /\ [loc[p] EXCEPT !.todo = x, !.got = y].todo = x
      /\ [loc[p] EXCEPT !.todo = x, !.got = y].got = y
  BY <1>1 DEF LocFields, Same
<1> QED
  BY <1>2, <1>3, <1>4

LEMMA SolveEffect ==
    ASSUME Typed, NEW p \in Procs, Stage(p), Solve(p)
    PROVE  Effect(p)
<1>1. pc[p] = "solve" /\ Fixed /\ ReadStore
  BY DEF Solve
<1>2. req[p].op \notin PutOps /\ "solve" \notin Ops
  BY <1>1 DEF Stage, Ops, PutOps, EnvOps, DeleteOps
<1>3. \/ Reply(p, Answer(412)) /\ UNCHANGED loc
      \/ \E x, y : /\ Local(p, [loc[p] EXCEPT !.got = x, !.queue = y])
                   /\ Reply(p, [Answer(200) EXCEPT !.got = x]) \/ Goto(p, "solve")
  BY Zenon DEF Solve
<1>4. CASE Reply(p, Answer(412)) /\ UNCHANGED loc
  <2>1. Answer(412).st \in Codes /\ LocTo(p, loc[p])
    BY <1>4, LocSame, AnswerCodes DEF Codes
  <2> QED
    BY <1>1, <1>4, <2>1, LooksReply DEF CollectSteps, NotServing, Same
<1>5. ASSUME NEW x, NEW y, Local(p, [loc[p] EXCEPT !.got = x, !.queue = y]),
             Reply(p, [Answer(200) EXCEPT !.got = x]) \/ Goto(p, "solve")
      PROVE  Effect(p)
  <2> DEFINE r == [loc[p] EXCEPT !.got = x, !.queue = y]
  <2>1. LocFields \subseteq DOMAIN r /\ Same(r, loc[p]) /\ Local(p, r)
    BY <1>5, LoopFields
  <2> HIDE DEF r
  <2>2. LocTo(p, r)
    BY <2>1, LocWent
  <2>3. CASE Reply(p, [Answer(200) EXCEPT !.got = x])
    <3>1. [Answer(200) EXCEPT !.got = x].st \in Codes
      BY AnswerCodes DEF Codes
    <3> QED
      BY <1>1, <2>1, <2>2, <2>3, <3>1, LooksReply DEF CollectSteps, NotServing
  <2>4. CASE Goto(p, "solve")
    <3>1. PcTo(p, "solve")
      BY <2>4, Went DEF Steps
    <3> QED
      BY <1>1, <1>2, <2>1, <2>2, <3>1, LooksOn DEF Passive, Same, CollectSteps, NotServing
  <2> QED
    BY <1>5, <2>3, <2>4
<1> QED
  BY <1>3, <1>4, <1>5

\* A loop over manifests begins, goes on, or ends with its answer.
Loops(p, ks, got) ==
    /\ loc'[p].todo = ks /\ loc'[p].got = got
    /\ \/ ks # {} /\ pc'[p] = "readEach"
       \/ ks = {} /\ pc'[p] = "idle" /\ out'[p].got = got

LEMMA ReadKeysEffect ==
    ASSUME Typed, NEW p \in Procs, Stage(p), ReadKeys(p)
    PROVE  /\ Effect(p) /\ SameData
           /\ pc[p] = "universe" /\ loc[p].got = {} =>
                Loops(p, {k \in Stored : k[1] = "cookbooks"}, {})
<1>1. pc[p] \in {"universe", "cookbookRecipes"} /\ Fixed /\ ReadStore
  BY DEF ReadKeys
<1>2. req[p].op \notin PutOps /\ "readEach" \notin Ops
  BY <1>1 DEF Stage, Ops, PutOps, EnvOps, DeleteOps
<1>3. SameData
  BY <1>1, ReadFrame
<1>4. \/ /\ pc[p] = "cookbookRecipes"
         /\ Reply(p, Answer(400)) /\ UNCHANGED loc
      \/ \E ks : /\ pc[p] = "universe" => ks = {k \in Stored : k[1] = "cookbooks"}
                 /\ Local(p, [loc[p] EXCEPT !.todo = ks, !.avail = Stored])
                 /\ IF ks = {} THEN Reply(p, Answer(200)) ELSE Goto(p, "readEach")
  BY Zenon DEF ReadKeys
<1>5. CASE pc[p] = "cookbookRecipes" /\ Reply(p, Answer(400)) /\ UNCHANGED loc
  <2>1. Answer(400).st \in Codes /\ LocTo(p, loc[p])
    BY <1>5, LocSame, AnswerCodes DEF Codes
  <2>2. Effect(p)
    BY <1>1, <1>5, <2>1, LooksReply DEF CollectSteps, NotServing, Same
  <2> QED
    BY <1>3, <1>5, <2>2
<1>6. ASSUME NEW ks,
             pc[p] = "universe" => ks = {k \in Stored : k[1] = "cookbooks"},
             Local(p, [loc[p] EXCEPT !.todo = ks, !.avail = Stored]),
             IF ks = {} THEN Reply(p, Answer(200)) ELSE Goto(p, "readEach")
      PROVE  /\ Effect(p)
             /\ pc[p] = "universe" /\ loc[p].got = {} =>
                  Loops(p, {k \in Stored : k[1] = "cookbooks"}, {})
  <2> DEFINE r == [loc[p] EXCEPT !.todo = ks, !.avail = Stored]
  <2>1. /\ LocFields \subseteq DOMAIN r /\ Same(r, loc[p])
        /\ r.todo = ks /\ r.got = loc[p].got
    BY DEF Typed, LocFields, Same
  <2> SUFFICES ASSUME Local(p, r)
               PROVE  /\ Effect(p)
                      /\ pc[p] = "universe" /\ loc[p].got = {} =>
                           Loops(p, {k \in Stored : k[1] = "cookbooks"}, {})
    BY <1>6, Zenon
  <2> HIDE DEF r
  <2>2. LocTo(p, r)
    BY <2>1, LocWent
  <2>3. CASE ks = {}
    <3>1. Answer(200).st \in Codes /\ Answer(200).got = {}
      BY AnswerCodes DEF Codes, Answer, NoAnswer
    <3>2. Reply(p, Answer(200))
      BY <1>6, <2>3
    <3>3. Effect(p)
      BY <1>1, <2>1, <2>2, <3>1, <3>2, LooksReply DEF CollectSteps, NotServing
    <3>4. pc'[p] = "idle" /\ out'[p] = Answer(200)
      BY <3>2 DEF Reply, Typed
    <3>5. loc'[p] = r
      BY <2>2 DEF LocTo
    <3> QED
      BY <1>6, <2>1, <2>3, <3>1, <3>3, <3>4, <3>5 DEF Loops
  <2>4. CASE ks # {}
    <3>1. PcTo(p, "readEach")
      BY <1>6, <2>4, Went DEF Steps
    <3>2. Effect(p)
      BY <1>1, <1>2, <2>1, <2>2, <3>1, LooksOn DEF Passive, Same, CollectSteps, NotServing
    <3>3. loc'[p] = r /\ pc'[p] = "readEach"
      BY <2>2, <3>1 DEF LocTo, PcTo
    <3> QED
      BY <1>6, <2>1, <2>4, <3>2, <3>3 DEF Loops
  <2> QED
    BY <2>3, <2>4
<1> QED
  BY <1>3, <1>4, <1>5, <1>6

LEMMA ReadEachEffect ==
    ASSUME Typed, NEW p \in Procs, Stage(p), ReadEach(p)
    PROVE  /\ Effect(p) /\ SameData
           /\ \E k \in loc[p].todo :
                Loops(p, loc[p].todo \ {k},
                      IF k \in Stored THEN loc[p].got \cup {<<k, manifests[k]>>} ELSE loc[p].got)
<1>1. pc[p] = "readEach" /\ Fixed /\ ReadStore
  BY DEF ReadEach
<1>2. req[p].op \notin PutOps /\ "readEach" \notin Ops
  BY <1>1 DEF Stage, Ops, PutOps, EnvOps, DeleteOps
<1>3. SameData
  BY <1>1, ReadFrame
<1> PICK k \in loc[p].todo :
        LET l == [loc[p] EXCEPT !.todo = @ \ {k}, !.got =
                    IF k \in Stored THEN @ \cup {<<k, manifests[k]>>} ELSE @]
        IN /\ Local(p, l)
           /\ IF l.todo = {} THEN Reply(p, [Answer(200) EXCEPT !.got = l.got])
              ELSE Goto(p, "readEach")
  BY Zenon DEF ReadEach
<1> DEFINE ks == loc[p].todo \ {k}
           got == IF k \in Stored THEN loc[p].got \cup {<<k, manifests[k]>>} ELSE loc[p].got
           r == [loc[p] EXCEPT !.todo = @ \ {k}, !.got =
                    IF k \in Stored THEN @ \cup {<<k, manifests[k]>>} ELSE @]
<1>4. /\ Local(p, r)
      /\ IF r.todo = {} THEN Reply(p, [Answer(200) EXCEPT !.got = r.got])
         ELSE Goto(p, "readEach")
  BY Zenon
<1>5. LocFields \subseteq DOMAIN r /\ Same(r, loc[p]) /\ r.todo = ks /\ r.got = got
  <2>1. LocFields \subseteq DOMAIN loc[p]
    BY DEF Typed
  <2> QED
    BY <2>1 DEF LocFields, Same
<1> HIDE DEF ks, got
<1> HIDE DEF r
<1>6. LocTo(p, r)
  BY <1>4, <1>5, LocWent
<1>7. Effect(p) /\ Loops(p, ks, got)
  <2>1. CASE ks = {}
    <3>1. [Answer(200) EXCEPT !.got = got].st \in Codes
      BY AnswerCodes DEF Codes
    <3>2. [Answer(200) EXCEPT !.got = got].got = got
      BY DEF Answer, NoAnswer
    <3>3. Reply(p, [Answer(200) EXCEPT !.got = got])
      BY <1>4, <1>5, <2>1
    <3>4. Effect(p)
      BY <1>1, <1>5, <1>6, <3>1, <3>3, LooksReply DEF CollectSteps, NotServing
    <3>5. pc'[p] = "idle" /\ out'[p] = [Answer(200) EXCEPT !.got = got]
      BY <3>3 DEF Reply, Typed
    <3>6. loc'[p] = r
      BY <1>6 DEF LocTo
    <3> QED
      BY <1>5, <2>1, <3>2, <3>4, <3>5, <3>6 DEF Loops
  <2>2. CASE ks # {}
    <3>1. PcTo(p, "readEach")
      BY <1>4, <1>5, <2>2, Went DEF Steps
    <3>2. Effect(p)
      BY <1>1, <1>2, <1>5, <1>6, <3>1, LooksOn DEF Passive, Same, CollectSteps, NotServing
    <3>3. loc'[p] = r /\ pc'[p] = "readEach"
      BY <1>6, <3>1 DEF LocTo, PcTo
    <3> QED
      BY <1>5, <2>2, <3>2, <3>3 DEF Loops
  <2> QED
    BY <2>1, <2>2
<1> QED
  BY <1>3, <1>7 DEF ks, got

LEMMA StoreErrorFails ==
    ASSUME Typed, NEW p \in Procs, StoreError(p)
    PROVE  Fails(p)
<1>1. /\ Reply(p, Answer(500)) /\ errors < MaxErrors /\ errors' = errors + 1 /\ p \in Busy
      /\ UNCHANGED <<manifests, blobs, sandboxes, acls, req, loc, served,
                     near, kept, ever, owed, raced>>
  BY DEF StoreError
<1>2. Answer(500).st = 500 /\ 500 \in Codes
  BY AnswerCodes DEF Codes
<1>3. PcTo(p, "idle") /\ LocTo(p, loc[p])
  BY <1>1, <1>2, Replied, LocSame
<1>4. errors' \in 0..MaxErrors
  BY <1>1, BoundsAreNaturals DEF Typed
<1>5. Moves(p)
  BY <1>1, <1>3, <1>4 DEF Typed, PcTo, LocTo, Moves
<1>6. out'[p] = Answer(500) /\ pc[p] # "idle"
  BY <1>1 DEF Reply, Typed, Busy
<1> QED
  BY <1>1, <1>2, <1>3, <1>5, <1>6 DEF Fails, PcTo, LocTo, StoreError

LEMMA BeginBegins ==
    ASSUME Typed, NEW p \in Procs, Begin(p)
    PROVE  Begins(p)
<1>1. /\ pc[p] = "idle" /\ served < MaxRequests /\ served' = served + 1
      /\ out' = [out EXCEPT ![p] = NoAnswer]
      /\ kept' = [kept EXCEPT ![p] = Stored]
      /\ ever' = [ever EXCEPT ![p] = Stored]
      /\ UNCHANGED <<manifests, blobs, sandboxes, acls, errors, owed, raced, spared, aclRaced>>
  BY DEF Begin
<1> PICK r \in Requests :
        /\ req' = [req EXCEPT ![p] = r]
        /\ pc' = [pc EXCEPT ![p] = r.op]
        /\ loc' = [loc EXCEPT ![p] = [NoLocals EXCEPT !.ver = r.ver,
                                 !.todo = IF r.op = "createSandbox" THEN r.sums ELSE {}]]
        /\ near' = [q \in Procs |-> IF q = p THEN {req[b] : b \in Busy}
                                    ELSE IF q \in Busy THEN near[q] \cup {r} ELSE near[q]]
  BY Zenon DEF Begin
<1> DEFINE t == IF r.op = "createSandbox" THEN r.sums ELSE {}
           l == [NoLocals EXCEPT !.ver = r.ver, !.todo = t]
<1>2. loc' = [loc EXCEPT ![p] = l]
  OBVIOUS
<1> HIDE DEF t
<1>3. /\ LocFields \subseteq DOMAIN l /\ l.ver = r.ver /\ l.prev = NoDoc
      /\ l.refs = {} /\ l.cand = {} /\ l.got = {}
  BY DEF NoLocals, LocFields
<1> HIDE DEF l
<1>4. r.op \in Steps
  BY RoutedRequests DEF Steps
<1>5. served' \in 0..MaxRequests
  BY <1>1, BoundsAreNaturals DEF Typed
<1>6. NoAnswer.st \in Codes
  BY DEF NoAnswer, Codes
<1>7. pc' \in [Procs -> Steps] /\ pc'[p] = r.op /\ \A q \in Procs \ {p} : pc'[q] = pc[q]
  BY <1>4 DEF Typed
<1>8. req' \in [Procs -> Requests] /\ req'[p] = r /\ \A q \in Procs \ {p} : req'[q] = req[q]
  BY DEF Typed
<1>9. /\ DOMAIN loc' = Procs /\ \A q \in Procs : LocFields \subseteq DOMAIN loc'[q]
      /\ loc'[p] = l /\ \A q \in Procs \ {p} : loc'[q] = loc[q]
  BY <1>2, <1>3 DEF Typed
<1>10. /\ DOMAIN out' = Procs /\ \A q \in Procs : out'[q].st \in Codes
       /\ \A q \in Procs \ {p} : out'[q] = out[q]
  BY <1>1, <1>6 DEF Typed
<1>11. /\ DOMAIN near' = Procs /\ DOMAIN kept' = Procs /\ DOMAIN ever' = Procs
       /\ kept'[p] = Stored /\ ever'[p] = Stored
       /\ \A q \in Procs \ {p} : kept'[q] = kept[q] /\ ever'[q] = ever[q]
  BY <1>1 DEF Typed
<1>12. Typed'
  BY <1>1, <1>5, <1>7, <1>8, <1>9, <1>10, <1>11 DEF Typed
<1> QED
  BY <1>1, <1>3, <1>7, <1>8, <1>9, <1>10, <1>11, <1>12 DEF Begins

LEMMA StepEffect ==
    ASSUME Typed, NEW p \in Procs, Stage(p), Step(p)
    PROVE  Effect(p)
BY GetFileEffect, PutFileEffect, CreateSandboxHasEffect, SandboxEffect, CommitSandboxGetEffect,
   HasBlobEffect, PutCookbookVersionEffect, PutArtifactGetEffect, GetPreviousEffect,
   PutManifestEffect, ResolveVersionEffect, DeleteManifestEffect, DeleteVersionedACLEffect,
   DeleteACLEffect, GCKeysEffect, GCGetEffect, DeleteBlobEffect, PutACLCheckEffect,
   PutACLEffect, ListVersionsEffect, ListArtifactsEffect, GetManifestEffect,
   GetEnvironmentEffect, EnvKeysEffect, SolveEffect, ReadKeysEffect, ReadEachEffect
   DEF Step

-----------------------------------------------------------------------------
(* Control is kept.                                                         *)

\* What a put and a delete make of the manifests.
LEMMA PutChanges ==
    ASSUME NEW p \in Procs, StoreManifest(p, req[p].body)
    PROVE  /\ DOMAIN manifests' = Stored \cup {Key(p)}
           /\ manifests'[Key(p)] = req[p].body
           /\ \A k \in Stored \ {Key(p)} : manifests'[k] = manifests[k]
           /\ owed' = owed \cup (Referenced(manifests) \ Referenced(manifests'))
           /\ spared' = IF Key(p) \in Stored /\ manifests[Key(p)] # loc[p].prev
                        THEN spared \cup manifestChecksums(manifests[Key(p)]) ELSE spared
           /\ kept' = [q \in Procs |-> IF q \in Busy THEN kept[q] \cap DOMAIN manifests' ELSE kept[q]]
           /\ ever' = [q \in Procs |-> IF q \in Busy THEN ever[q] \cup DOMAIN manifests' ELSE ever[q]]
           /\ UNCHANGED <<blobs, acls, raced, aclRaced>>
<1> DEFINE ms == [x \in Stored \cup {Key(p)} |-> IF x = Key(p) THEN req[p].body ELSE manifests[x]]
<1>1. /\ Change(ms)
      /\ spared' = IF Key(p) \in Stored /\ manifests[Key(p)] # loc[p].prev
                   THEN spared \cup manifestChecksums(manifests[Key(p)]) ELSE spared
  BY DEF StoreManifest
<1>2. /\ DOMAIN ms = Stored \cup {Key(p)} /\ ms[Key(p)] = req[p].body
      /\ \A k \in Stored \ {Key(p)} : ms[k] = manifests[k]
  OBVIOUS
<1> HIDE DEF ms
<1> QED
  BY <1>1, <1>2 DEF Change

LEMMA DropChanges ==
    ASSUME NEW k0, DropManifest(k0)
    PROVE  /\ DOMAIN manifests' = Stored \ {k0}
           /\ \A k \in Stored \ {k0} : manifests'[k] = manifests[k]
           /\ owed' = owed \cup (Referenced(manifests) \ Referenced(manifests'))
           /\ kept' = [q \in Procs |-> IF q \in Busy THEN kept[q] \cap DOMAIN manifests' ELSE kept[q]]
           /\ ever' = [q \in Procs |-> IF q \in Busy THEN ever[q] \cup DOMAIN manifests' ELSE ever[q]]
           /\ UNCHANGED <<blobs, acls, raced, aclRaced, spared>>
<1> DEFINE ms == [x \in Stored \ {k0} |-> manifests[x]]
<1>1. Change(ms) /\ UNCHANGED spared
  BY DEF DropManifest
<1>2. DOMAIN ms = Stored \ {k0} /\ \A k \in Stored \ {k0} : ms[k] = manifests[k]
  OBVIOUS
<1> HIDE DEF ms
<1> QED
  BY <1>1, <1>2 DEF Change

LEMMA StageOfOthers ==
    ASSUME NEW q \in Procs, Stage(q), pc'[q] = pc[q], loc'[q] = loc[q], req'[q] = req[q]
    PROVE  Stage(q)'
BY DEF Stage

LEMMA SoundAt ==
    ASSUME Sound, NEW k \in Stored
    PROVE  manifests[k] # NoDoc /\ manifestChecksums(manifests[k]) \subseteq Sums
BY DEF Sound

LEMMA StageStep ==
    ASSUME Control, NEW p \in Procs, Effect(p)
    PROVE  Stage(p)'
<1>1. /\ Stage(p) /\ req' = req /\ req[p] \in Requests /\ pc[p] \in Steps
      /\ Typed /\ Sound
  BY DEF Control, Effect, Moves, Typed
<1>2. CASE Looks(p)
  BY <1>1, <1>2 DEF Looks, Stage, Passive, NotServing, CollectSteps, PutOps, DeleteOps, EnvOps, Ops
<1>3. CASE Uploads(p)
  BY <1>1, <1>3 DEF Uploads, Stage, PutOps, DeleteOps, EnvOps, Ops
<1>4. CASE Accepts(p)
  BY <1>1, <1>4 DEF Accepts, Stage, Same, PutOps, DeleteOps, EnvOps, Ops
<1>5. CASE FindsFile(p)
  BY <1>1, <1>5 DEF FindsFile, Stage, Same, PutOps, DeleteOps, EnvOps, Ops
<1>6. CASE FindsPrevious(p)
  <2>1. loc'[p].prev # NoDoc => manifestChecksums(loc'[p].prev) \subseteq Sums
    <3>1. CASE loc'[p].prev # NoDoc
      <4>1. Key(p) \in Stored /\ loc'[p].prev = manifests[Key(p)]
        BY <1>6, <3>1 DEF FindsPrevious
      <4> QED
        BY <1>1, <4>1, SoundAt
    <3> QED
      BY <3>1
  <2> QED
    BY <1>1, <1>6, <2>1 DEF FindsPrevious, Stage, PutOps, DeleteOps, EnvOps, Ops
<1>7. CASE PutsManifest(p)
  <2>1. pc'[p] \in {"idle", "gc"}
    BY <1>7 DEF PutsManifest
  <2>2. loc'[p].cand \subseteq Sums /\ loc'[p].refs = {} /\ loc'[p].prev = loc[p].prev
    BY <1>1, <1>7 DEF PutsManifest, Stage
  <2>3. req[p].op \in PutOps => loc'[p].ver = req[p].ver
    BY <1>1, <1>7 DEF PutsManifest, Stage
  <2> QED
    BY <1>1, <2>1, <2>2, <2>3 DEF Stage, PutOps, DeleteOps, EnvOps, Ops
<1>8. CASE Resolves(p)
  BY <1>1, <1>8 DEF Resolves, Stage, PutOps, DeleteOps, EnvOps, Ops
<1>9. CASE DropsManifest(p)
  <2>1. /\ loc'[p].prev # NoDoc => manifestChecksums(loc'[p].prev) \subseteq Sums
        /\ loc'[p].cand \subseteq Sums
    <3>1. /\ Key(p) \in Stored /\ loc'[p].prev = manifests[Key(p)]
          /\ loc'[p].cand = manifestChecksums(manifests[Key(p)])
      BY <1>9 DEF DropsManifest
    <3> QED
      BY <1>1, <3>1, SoundAt
  <2> QED
    BY <1>1, <1>9, <2>1 DEF DropsManifest, Stage, PutOps, DeleteOps, EnvOps, Ops
<1>10. CASE KeepsACL(p)
  BY <1>1, <1>10 DEF KeepsACL, Collects, Stage, PutOps, DeleteOps, EnvOps, Ops
<1>11. CASE MissesVersion(p)
  BY <1>1, <1>11 DEF MissesVersion, Stage, PutOps, DeleteOps, EnvOps, Ops
<1>12. CASE DropsACL(p)
  BY <1>1, <1>12 DEF DropsACL, Collects, Stage, PutOps, DeleteOps, EnvOps, Ops
<1>13. CASE ListsKeys(p)
  BY <1>1, <1>13 DEF ListsKeys, Stays, Stage, Colls, PutOps, DeleteOps, EnvOps, Ops
<1>14. CASE VisitsKey(p)
  <2>1. pc[p] \in Colls /\ Stays(p, pc[p]) /\ loc'[p].cand = loc[p].cand
    BY <1>14 DEF VisitsKey
  <2>2. loc'[p].refs \subseteq Sums
    <3>1. PICK k \in loc[p].todo :
            loc'[p].refs = loc[p].refs \cup
               (IF k \in Stored THEN manifestChecksums(manifests[k]) ELSE {})
      BY <1>14 DEF VisitsKey
    <3>2. loc[p].refs \subseteq Sums
      BY <1>1 DEF Stage
    <3> QED
      BY <1>1, <3>1, <3>2, SoundAt
  <2> QED
    BY <1>1, <2>1, <2>2 DEF Stays, Stage, Colls, PutOps, DeleteOps, EnvOps, Ops
<1>15. CASE RemovesFile(p)
  <2>1. pc[p] = "cookbook_artifacts" /\ Stays(p, pc[p]) /\ loc'[p].cand \subseteq loc[p].cand
    BY <1>15 DEF RemovesFile
  <2>2. loc'[p].refs = loc[p].refs
    BY <1>15 DEF RemovesFile
  <2> QED
    BY <1>1, <2>1, <2>2 DEF Stays, Stage, PutOps, DeleteOps, EnvOps, Ops
<1>16. CASE FindsObject(p)
  BY <1>1, <1>16 DEF FindsObject, Stage, PutOps, DeleteOps, EnvOps, Ops
<1>17. CASE PutsACL(p)
  BY <1>1, <1>17 DEF PutsACL, Stage, PutOps, DeleteOps, EnvOps, Ops
<1> QED
  BY <1>2, <1>3, <1>4, <1>5, <1>6, <1>7, <1>8, <1>9, <1>10, <1>11, <1>12, <1>13, <1>14,
     <1>15, <1>16, <1>17 DEF Effect

LEMMA KeyOf ==
    ASSUME NEW p
    PROVE  Key(p)[1] = req[p].coll /\ Key(p)[2] = req[p].name /\ Key(p)[3] = loc[p].ver
BY DEF Key

LEMMA SoundStep ==
    ASSUME Control, NEW p \in Procs, Effect(p)
    PROVE  Sound'
<1>1. Stage(p) /\ Sound /\ Typed /\ req[p] \in Requests
  BY DEF Control, Typed
<1>2. CASE PutsManifest(p)
  <2>1. req[p].op \in PutOps /\ loc[p].ver = req[p].ver
    BY <1>1, <1>2 DEF PutsManifest, Stage, PutOps
  <2>2. /\ req[p].coll \in Colls /\ req[p].body # NoDoc
        /\ manifestChecksums(req[p].body) \subseteq Sums
    BY <1>1, <2>1, RoutedRequests DEF PutOps, Colls
  <2>4. /\ DOMAIN manifests' = Stored \cup {Key(p)}
        /\ manifests'[Key(p)] = req[p].body
        /\ \A k \in Stored \ {Key(p)} : manifests'[k] = manifests[k]
        /\ blobs' = blobs
    BY <1>2, PutChanges DEF PutsManifest
  <2> QED
    BY <1>1, <2>2, <2>4, KeyOf DEF Sound, Stored
<1>3. CASE DropsManifest(p)
  <2>1. /\ DOMAIN manifests' = Stored \ {Key(p)}
        /\ \A k \in Stored \ {Key(p)} : manifests'[k] = manifests[k]
        /\ blobs' = blobs
    BY <1>3, DropChanges DEF DropsManifest
  <2> QED
    BY <1>1, <2>1 DEF Sound, Stored
<1>4. CASE Uploads(p)
  <2>1. req[p].sums \subseteq Sums
    BY <1>1, RoutedRequests
  <2> QED
    BY <1>1, <1>4, <2>1 DEF Uploads, Sound, Stored
<1>5. CASE RemovesFile(p)
  <2>1. manifests' = manifests /\ blobs' \subseteq blobs
    BY <1>5 DEF RemovesFile
  <2> QED
    BY <1>1, <2>1 DEF Sound, Stored
<1>6. CASE UNCHANGED <<manifests, blobs>>
  BY <1>1, <1>6 DEF Sound, Stored
<1> QED
  BY <1>2, <1>3, <1>4, <1>5, <1>6
     DEF Effect, SameData, Stores, Looks, Accepts, FindsFile, FindsPrevious, Resolves, KeepsACL,
         MissesVersion, DropsACL, ListsKeys, VisitsKey, FindsObject, PutsACL

LEMMA AwareStep ==
    ASSUME Control, NEW p \in Procs, UNCHANGED <<req, near>>, pc[p] # "idle",
           \A q \in Procs \ {p} : pc'[q] = pc[q]
    PROVE  Aware'
BY DEF Control, Aware, Busy

LEMMA BusyEffect ==
    ASSUME NEW p \in Procs, Effect(p)
    PROVE  pc[p] # "idle"
BY DEF Effect, Looks, Uploads, Accepts, FindsFile, FindsPrevious, PutsManifest, Resolves,
       DropsManifest, KeepsACL, MissesVersion, DropsACL, ListsKeys, VisitsKey, RemovesFile,
       FindsObject, PutsACL, PutOps, DeleteOps, Colls, SameData, NotServing

LEMMA ControlEffect ==
    ASSUME Control, NEW p \in Procs, Effect(p)
    PROVE  Control'
<1>1. /\ Typed' /\ UNCHANGED <<req, near>>
      /\ \A q \in Procs \ {p} : pc'[q] = pc[q] /\ loc'[q] = loc[q]
  BY DEF Effect, Moves
<1>2. \A q \in Procs \ {p} : Stage(q)'
  BY <1>1, StageOfOthers DEF Control
<1>3. Stage(p)' /\ Sound' /\ Aware'
  BY <1>1, StageStep, SoundStep, AwareStep, BusyEffect
<1> QED
  BY <1>1, <1>2, <1>3 DEF Control

LEMMA ControlFails ==
    ASSUME Control, NEW p \in Procs, Fails(p)
    PROVE  Control'
<1>1. /\ Typed' /\ UNCHANGED <<req, near, manifests, blobs>>
      /\ \A q \in Procs \ {p} : pc'[q] = pc[q] /\ loc'[q] = loc[q]
      /\ pc[p] # "idle" /\ pc'[p] = "idle" /\ loc'[p] = loc[p]
  BY DEF Fails, Moves
<1>2. \A q \in Procs \ {p} : Stage(q)'
  BY <1>1, StageOfOthers DEF Control
<1>3. Stage(p)'
  BY <1>1 DEF Control, Stage, Ops, PutOps, DeleteOps, EnvOps
<1>4. Sound' /\ Aware'
  BY <1>1, AwareStep DEF Control, Sound, Stored
<1> QED
  BY <1>1, <1>2, <1>3, <1>4 DEF Control

LEMMA ControlBegins ==
    ASSUME Control, NEW p \in Procs, Begins(p)
    PROVE  Control'
<1>1. /\ Typed' /\ Typed /\ UNCHANGED <<manifests, blobs>>
      /\ \A q \in Procs \ {p} : pc'[q] = pc[q] /\ loc'[q] = loc[q] /\ req'[q] = req[q]
      /\ pc[p] = "idle" /\ pc'[p] = req'[p].op /\ req'[p] \in Requests
  BY DEF Begins, Control, Typed
<1>2. \A q \in Procs \ {p} : Stage(q)'
  BY <1>1, StageOfOthers DEF Control
<1>3. Stage(p)'
  <2>1. /\ loc'[p].ver = req'[p].ver /\ loc'[p].prev = NoDoc
        /\ loc'[p].refs = {} /\ loc'[p].cand = {}
    BY DEF Begins
  <2>2. pc'[p] \in Ops
    BY <1>1, RoutedRequests
  <2> QED
    BY <1>1, <2>1, <2>2 DEF Stage, Ops, PutOps, DeleteOps, EnvOps
<1>4. Sound'
  BY <1>1 DEF Control, Sound, Stored
<1>5. Aware'
  <2>1. near' = [q \in Procs |-> IF q = p THEN {req[b] : b \in Busy}
                                 ELSE IF q \in Busy THEN near[q] \cup {req'[p]} ELSE near[q]]
    BY DEF Begins
  <2> SUFFICES ASSUME NEW a \in Busy', NEW b \in Busy', a # b
               PROVE  req'[a] \in near'[b]
    BY DEF Aware
  <2>2. a \in Procs /\ b \in Procs /\ (a # p => a \in Busy) /\ (b # p => b \in Busy)
    BY <1>1 DEF Busy
  <2>3. CASE b = p
    BY <1>1, <2>1, <2>2, <2>3
  <2>4. CASE a = p
    BY <1>1, <2>1, <2>2, <2>4
  <2>5. CASE a # p /\ b # p
    BY <1>1, <2>1, <2>2, <2>5 DEF Control, Aware
  <2> QED
    BY <2>3, <2>4, <2>5
<1> QED
  BY <1>1, <1>2, <1>3, <1>4, <1>5 DEF Control

\* Every step is an effect, a failure, the beginning of a request, or nothing.
LEMMA StepKinds ==
    ASSUME Control, [Next]_vars
    PROVE  (\E p \in Procs : Effect(p) \/ Fails(p) \/ Begins(p)) \/ UNCHANGED vars
<1>1. Typed /\ \A p \in Procs : Stage(p)
  BY DEF Control
<1> QED
  BY <1>1, StepEffect, StoreErrorFails, BeginBegins DEF Next, Done

LEMMA ControlStep == Control /\ [Next]_vars => Control'
<1> SUFFICES ASSUME Control, [Next]_vars PROVE Control'
  OBVIOUS
<1>1. CASE UNCHANGED vars
  BY <1>1 DEF vars, Control, Typed, Stage, Sound, Aware, Busy, Stored
<1> QED
  BY <1>1, StepKinds, ControlEffect, ControlFails, ControlBegins

LEMMA InitControl == Init => Control
<1> SUFFICES ASSUME Init PROVE Control
  OBVIOUS
<1>1. (CHOOSE r \in Requests : TRUE) \in Requests
  BY RoutedRequests
<1> DEFINE r0 == CHOOSE r \in Requests : TRUE
<1>2. req \in [Procs -> {r0}] /\ r0 \in Requests
  BY <1>1 DEF Init
<1> HIDE DEF r0
<1>3. req \in [Procs -> Requests]
  BY <1>2
<1>4. /\ LocFields \subseteq DOMAIN NoLocals /\ NoAnswer.st \in Codes
      /\ NoLocals.cand = {} /\ NoLocals.refs = {} /\ NoLocals.prev = NoDoc
  BY DEF NoLocals, NoAnswer, LocFields, Codes
<1>5. Typed
  <2>1. pc \in [Procs -> Steps]
    BY DEF Init, Steps
  <2>2. DOMAIN loc = Procs /\ \A p \in Procs : LocFields \subseteq DOMAIN loc[p]
    BY <1>4 DEF Init
  <2>3. DOMAIN out = Procs /\ \A p \in Procs : out[p].st \in Codes
    BY <1>4 DEF Init
  <2>4. DOMAIN near = Procs /\ DOMAIN kept = Procs /\ DOMAIN ever = Procs
    BY DEF Init
  <2>5. /\ sandboxes \in [DOMAIN sandboxes -> {"open", "completed"}]
        /\ DOMAIN sandboxes \subseteq SUBSET Sums
    BY DEF Init
  <2>6. served \in 0..MaxRequests /\ errors \in 0..MaxErrors
    BY BoundsAreNaturals DEF Init
  <2> QED
    BY <1>3, <2>1, <2>2, <2>3, <2>4, <2>5, <2>6 DEF Typed
<1>6. \A p \in Procs : pc[p] = "idle" /\ loc[p] = NoLocals
  BY DEF Init
<1>7. \A p \in Procs : Stage(p)
  BY <1>4, <1>6 DEF Stage, Ops, PutOps, DeleteOps, EnvOps
<1>8. Sound
  <2> PICK s \in Populations : manifests = s.manifests /\ blobs = s.blobs
    BY DEF Init
  <2> QED
    BY SoundPopulations DEF Sound, Stored
<1>9. Aware
  BY <1>6 DEF Aware, Busy
<1> QED
  BY <1>5, <1>7, <1>8, <1>9 DEF Control

\* TypeOK: a manifest is stored under one of the two collections and names
\* checksums, candidates and references of a collection are checksums, and every
\* request is answered with one of the codes.
THEOREM TypeCorrect == Spec => []TypeOK
<1>1. Init => Control
  BY InitControl
<1>2. Control /\ [Next]_vars => Control'
  BY ControlStep
<1>3. Control => TypeOK
  <2> SUFFICES ASSUME Control PROVE TypeOK
    OBVIOUS
  <2>1. \A p \in Procs : /\ loc[p].cand \subseteq Sums /\ loc[p].refs \subseteq Sums
                         /\ out[p].st \in Codes
    BY DEF Control, Typed, Stage
  <2> QED
    BY <2>1 DEF Control, Typed, Sound, TypeOK, Codes
<1> QED
  BY <1>1, <1>2, <1>3, PTL DEF Spec

-----------------------------------------------------------------------------
(* The files of stored manifests.                                           *)

\* A goroutine that does nothing keeps its part if no manifest is stored, no
\* file it has seen goes away and no neighbour is forgotten.
LEMMA CheckedAside ==
    ASSUME NEW q \in Procs, Checked(q), pc'[q] = pc[q], loc'[q] = loc[q], req'[q] = req[q],
           blobs \cup raced \subseteq blobs' \cup raced'
    PROVE  Checked(q)'
BY DEF Checked

LEMMA ScannedAside ==
    ASSUME NEW q \in Procs, Scanned(q), pc'[q] = pc[q], loc'[q] = loc[q], near[q] \subseteq near'[q],
           DOMAIN manifests' \subseteq Stored,
           \A k \in DOMAIN manifests' : manifests'[k] = manifests[k]
    PROVE  Scanned(q)'
<1>1. PutNearby(q) \subseteq PutNearby(q)'
  BY DEF PutNearby
<1>2. \A k : Past(q, k)' => Past(q, k)
  BY DEF Past
<1> HIDE DEF PutNearby
<1> QED
  BY <1>1, <1>2 DEF Scanned, Stored

\* The steps at which a put or a collection holds what it found.
Holding == {"hasBlob", "put"} \cup Colls

LEMMA NothingHeld ==
    ASSUME NEW p \in Procs, pc'[p] \notin Holding
    PROVE  Checked(p)' /\ Scanned(p)'
BY DEF Holding, Checked, Scanned, Past, Colls

\* Steps that store no manifest and take no file away.
LEMMA FilesAside ==
    ASSUME FilesInv, NEW p \in Procs,
           \A q \in Procs \ {p} : /\ pc'[q] = pc[q] /\ loc'[q] = loc[q] /\ req'[q] = req[q]
                                  /\ near[q] \subseteq near'[q],
           DOMAIN manifests' \subseteq Stored,
           \A k \in DOMAIN manifests' : manifests'[k] = manifests[k],
           blobs \cup raced \subseteq blobs' \cup raced',
           Checked(p)', Scanned(p)'
    PROVE  FilesInv'
<1>1. FilesPresent'
  BY DEF FilesInv, FilesPresent, Stored
<1>2. \A q \in Procs \ {p} : Checked(q)' /\ Scanned(q)'
  BY CheckedAside, ScannedAside DEF FilesInv
<1> QED
  BY <1>1, <1>2 DEF FilesInv

LEMMA PutKeepsFiles ==
    ASSUME Control, FilesInv, NEW p \in Procs, Effect(p), PutsManifest(p)
    PROVE  FilesInv'
<1>1. /\ UNCHANGED <<req, near>> /\ pc[p] # "idle"
      /\ \A q \in Procs \ {p} : pc'[q] = pc[q] /\ loc'[q] = loc[q]
  BY BusyEffect DEF Effect, Moves
<1>2. /\ DOMAIN manifests' = Stored \cup {Key(p)}
      /\ manifests'[Key(p)] = req[p].body
      /\ \A k \in Stored \ {Key(p)} : manifests'[k] = manifests[k]
      /\ UNCHANGED <<blobs, raced>>
  BY PutChanges DEF PutsManifest
<1>3. manifestChecksums(req[p].body) \subseteq blobs \cup raced
  BY DEF PutsManifest, FilesInv, Checked
<1>4. FilesPresent'
  BY <1>2, <1>3 DEF FilesInv, FilesPresent, Stored
<1>5. Checked(p)' /\ Scanned(p)'
  BY NothingHeld DEF PutsManifest, Holding, Colls
<1>6. req[p].op \in PutOps
  BY DEF Control, Stage, PutsManifest, PutOps
<1>7. ASSUME NEW q \in Procs \ {p}
      PROVE  Checked(q)' /\ Scanned(q)'
  <2>1. Checked(q)'
    BY <1>1, <1>2, CheckedAside DEF FilesInv
  <2>2. PutNearby(q)' = PutNearby(q)
    BY <1>1 DEF PutNearby
  <2>3. ASSUME NEW k \in DOMAIN manifests', Past(q, k)'
        PROVE  manifestChecksums(manifests'[k]) \subseteq loc'[q].refs \cup PutNearby(q)'
    <3>1. Past(q, k) /\ loc'[q] = loc[q]
      BY <1>1, <2>3 DEF Past
    <3>2. CASE k = Key(p)
      <4>1. pc[q] # "idle"
        BY <3>1 DEF Past
      <4>2. req[p] \in near[q]
        BY <1>1, <4>1 DEF Control, Aware, Busy
      <4>3. manifestChecksums(req[p].body) \subseteq PutNearby(q)
        BY <1>6, <4>2 DEF PutNearby
      <4> QED
        BY <1>2, <2>2, <3>2, <4>3
    <3>3. CASE k # Key(p)
      <4>1. k \in Stored /\ manifests'[k] = manifests[k]
        BY <1>2, <3>3
      <4>2. manifestChecksums(manifests[k]) \subseteq loc[q].refs \cup PutNearby(q)
        BY <3>1, <4>1 DEF FilesInv, Scanned
      <4> QED
        BY <2>2, <3>1, <4>1, <4>2
    <3> QED
      BY <3>2, <3>3
  <2>4. Scanned(q)'
    BY <2>3 DEF Scanned, Stored
  <2> QED
    BY <2>1, <2>4
<1> QED
  BY <1>4, <1>5, <1>7 DEF FilesInv

LEMMA RemoveKeepsFiles ==
    ASSUME Control, FilesInv, NEW p \in Procs, Effect(p), RemovesFile(p)
    PROVE  FilesInv'
<1>1. /\ UNCHANGED <<req, near, manifests>> /\ pc[p] # "idle"
      /\ \A q \in Procs \ {p} : pc'[q] = pc[q] /\ loc'[q] = loc[q]
      /\ pc[p] = "cookbook_artifacts" /\ loc[p].todo = {} /\ loc'[p].todo = {}
      /\ loc'[p].refs = loc[p].refs /\ pc'[p] \in {"idle", "cookbook_artifacts"}
  BY BusyEffect DEF Effect, Moves, RemovesFile, Stays
<1>2. PICK s \in loc[p].cand \ loc[p].refs :
        /\ blobs' = blobs \ {s}
        /\ raced' = IF \E r \in near[p] : r.op \in PutOps /\ s \in manifestChecksums(r.body)
                    THEN raced \cup {s} ELSE raced
  BY DEF RemovesFile
<1>3. s \in PutNearby(p) => s \in raced'
  BY <1>2 DEF PutNearby
<1>4. (blobs \cup raced) \ {s} \subseteq blobs' \cup raced'
  BY <1>2
<1>5. FilesPresent'
  <2> SUFFICES ASSUME NEW k \in Stored
               PROVE  manifestChecksums(manifests[k]) \subseteq blobs' \cup raced'
    BY <1>1 DEF FilesPresent, Stored
  <2>1. manifestChecksums(manifests[k]) \subseteq blobs \cup raced
    BY DEF FilesInv, FilesPresent
  <2>2. Past(p, k)
    BY <1>1 DEF Past
  <2>3. manifestChecksums(manifests[k]) \subseteq loc[p].refs \cup PutNearby(p)
    BY <2>2 DEF FilesInv, Scanned
  <2> QED
    BY <1>2, <1>3, <1>4, <2>1, <2>3
<1>6. Checked(p)'
  BY <1>1 DEF Checked
<1>7. Scanned(p)'
  <2>1. PutNearby(p)' = PutNearby(p)
    BY <1>1 DEF PutNearby
  <2>2. \A k : Past(p, k)' => Past(p, k)
    BY <1>1 DEF Past
  <2> QED
    BY <1>1, <2>1, <2>2 DEF FilesInv, Scanned, Stored
<1>8. ASSUME NEW q \in Procs \ {p}
      PROVE  Checked(q)' /\ Scanned(q)'
  <2>1. Scanned(q)'
    BY <1>1, ScannedAside DEF FilesInv, Stored
  <2>2. CASE pc[q] \in {"hasBlob", "put"}
    <3>1. req[q] \in near[p] /\ req[q].op \in PutOps
      BY <1>1, <2>2 DEF Control, Aware, Busy, Stage, PutOps
    <3>2. s \in manifestChecksums(req[q].body) => s \in PutNearby(p)
      BY <3>1 DEF PutNearby
    <3>3. manifestChecksums(req[q].body) \ loc[q].todo \subseteq blobs \cup raced
      BY <2>2 DEF FilesInv, Checked
    <3>4. manifestChecksums(req[q].body) \ loc[q].todo \subseteq blobs' \cup raced'
      BY <1>3, <1>4, <3>2, <3>3
    <3> QED
      BY <1>1, <2>1, <3>4 DEF Checked
  <2>3. CASE pc[q] \notin {"hasBlob", "put"}
    BY <1>1, <2>1, <2>3 DEF Checked
  <2> QED
    BY <2>2, <2>3
<1> QED
  BY <1>5, <1>6, <1>7, <1>8 DEF FilesInv

\* A put or a collection goes on; the store is as it was.
LEMMA HoldingStep ==
    ASSUME Control, FilesInv, NEW p \in Procs, Effect(p),
           Accepts(p) \/ FindsFile(p) \/ FindsPrevious(p) \/ ListsKeys(p) \/ VisitsKey(p)
    PROVE  Checked(p)' /\ Scanned(p)'
<1>1. /\ UNCHANGED <<manifests, blobs, raced, req, near>>
      /\ Checked(p) /\ Scanned(p) /\ Sound
  BY DEF Effect, Moves, SameData, Stores, Accepts, FindsFile, FindsPrevious, ListsKeys, VisitsKey,
         FilesInv, Control
<1>2. PutNearby(p)' = PutNearby(p)
  BY <1>1 DEF PutNearby
<1>3. CASE Accepts(p)
  BY <1>1, <1>3 DEF Accepts, Checked, Scanned, Past
<1>4. CASE FindsFile(p)
  BY <1>1, <1>4 DEF FindsFile, Checked, Scanned, Past
<1>5. CASE FindsPrevious(p)
  BY <1>1, <1>5 DEF FindsPrevious, Checked, Scanned, Past
<1>6. CASE ListsKeys(p)
  <2> PICK coll \in Colls :
        /\ \/ coll = "cookbooks" /\ pc[p] = "gc"
           \/ coll = "cookbook_artifacts" /\ pc[p] = "cookbooks" /\ loc[p].todo = {}
        /\ loc'[p].todo = {k \in Stored : k[1] = coll}
        /\ loc'[p].refs = loc[p].refs
        /\ Stays(p, coll)
    BY <1>6 DEF ListsKeys
  <2>1. pc'[p] \in {"idle", coll}
    BY DEF Stays
  <2>2. Checked(p)'
    BY <2>1 DEF Checked, Colls
  <2>3. ASSUME NEW k \in Stored, Past(p, k)'
        PROVE  Past(p, k)
    <3>1. k[1] \in Colls
      BY <1>1 DEF Sound
    <3> QED
      BY <2>1, <2>3, <3>1 DEF Past, Colls
  <2>4. Scanned(p)'
    BY <1>1, <1>2, <2>3 DEF Scanned, Stored
  <2> QED
    BY <2>2, <2>4
<1>7. CASE VisitsKey(p)
  <2>1. pc[p] \in Colls /\ pc'[p] \in {"idle", pc[p]}
    BY <1>7 DEF VisitsKey, Stays
  <2>2. Checked(p)'
    BY <2>1 DEF Checked, Colls
  <2>3. PICK k0 \in loc[p].todo :
        /\ loc'[p].todo = loc[p].todo \ {k0}
        /\ loc'[p].refs = loc[p].refs \cup
              (IF k0 \in Stored THEN manifestChecksums(manifests[k0]) ELSE {})
    BY <1>7 DEF VisitsKey
  <2>4. ASSUME NEW k \in Stored, Past(p, k)'
        PROVE  manifestChecksums(manifests[k]) \subseteq loc'[p].refs \cup PutNearby(p)
    <3>1. k = k0 \/ Past(p, k)
      BY <2>1, <2>3, <2>4 DEF Past, Colls
    <3>2. CASE k = k0
      BY <2>3, <3>2
    <3>3. CASE Past(p, k)
      BY <1>1, <2>3, <3>3 DEF Scanned
    <3> QED
      BY <3>1, <3>2, <3>3
  <2>5. Scanned(p)'
    BY <1>1, <1>2, <2>4 DEF Scanned, Stored
  <2> QED
    BY <2>2, <2>5
<1> QED
  BY <1>3, <1>4, <1>5, <1>6, <1>7

LEMMA FilesEffect ==
    ASSUME Control, FilesInv, NEW p \in Procs, Effect(p)
    PROVE  FilesInv'
<1>1. /\ UNCHANGED <<req, near>>
      /\ \A q \in Procs \ {p} : pc'[q] = pc[q] /\ loc'[q] = loc[q]
  BY DEF Effect, Moves
<1>2. CASE PutsManifest(p)
  BY <1>2, PutKeepsFiles
<1>3. CASE RemovesFile(p)
  BY <1>3, RemoveKeepsFiles
<1>4. CASE Accepts(p) \/ FindsFile(p) \/ FindsPrevious(p) \/ ListsKeys(p) \/ VisitsKey(p)
  <2>1. UNCHANGED <<manifests, blobs, raced>>
    BY <1>4 DEF SameData, Stores, Accepts, FindsFile, FindsPrevious, ListsKeys, VisitsKey
  <2>2. Checked(p)' /\ Scanned(p)'
    BY <1>4, HoldingStep
  <2> QED
    BY <1>1, <2>1, <2>2, FilesAside DEF Stored
<1>5. CASE Looks(p) \/ Uploads(p) \/ Resolves(p) \/ DropsManifest(p) \/ KeepsACL(p)
           \/ MissesVersion(p) \/ DropsACL(p) \/ FindsObject(p) \/ PutsACL(p)
  <2>1. pc'[p] \notin Holding
    BY <1>5 DEF Looks, Uploads, Resolves, DropsManifest, KeepsACL, MissesVersion, DropsACL,
                FindsObject, PutsACL, Collects, Holding, Colls, Passive
  <2>2. blobs \cup raced \subseteq blobs' \cup raced'
    BY <1>5, DropChanges
       DEF SameData, Stores, Looks, Uploads, Resolves, DropsManifest, KeepsACL, MissesVersion,
           DropsACL, FindsObject, PutsACL
  <2>3. /\ DOMAIN manifests' \subseteq Stored
        /\ \A k \in DOMAIN manifests' : manifests'[k] = manifests[k]
    <3>1. CASE DropsManifest(p)
      BY <3>1, DropChanges DEF DropsManifest
    <3>2. CASE manifests' = manifests
      BY <3>2 DEF Stored
    <3> QED
      BY <1>5, <3>1, <3>2
         DEF SameData, Stores, Looks, Uploads, Resolves, KeepsACL, MissesVersion, DropsACL,
             FindsObject, PutsACL
  <2> QED
    BY <1>1, <2>1, <2>2, <2>3, NothingHeld, FilesAside
<1> QED
  BY <1>2, <1>3, <1>4, <1>5 DEF Effect

LEMMA FilesStep == Control /\ FilesInv /\ [Next]_vars => FilesInv'
<1> SUFFICES ASSUME Control, FilesInv, [Next]_vars PROVE FilesInv'
  OBVIOUS
<1>1. CASE UNCHANGED vars
  BY <1>1 DEF vars, FilesInv, FilesPresent, Checked, Scanned, Past, PutNearby, Stored
<1>2. ASSUME NEW p \in Procs, Fails(p)
      PROVE  FilesInv'
  <2>1. pc'[p] \notin Holding
    BY <1>2 DEF Fails, Holding, Colls
  <2> QED
    BY <1>2, <2>1, NothingHeld, FilesAside DEF Fails, Moves, Stored
<1>3. ASSUME NEW p \in Procs, Begins(p)
      PROVE  FilesInv'
  <2>1. pc'[p] \notin Holding
    BY <1>3, RoutedRequests DEF Begins, Typed, Holding, Colls, Ops, PutOps, DeleteOps, EnvOps
  <2>2. \A q \in Procs \ {p} : near[q] \subseteq near'[q]
    BY <1>3 DEF Begins
  <2> QED
    BY <1>3, <2>1, <2>2, NothingHeld, FilesAside DEF Begins, Stored
<1> QED
  BY <1>1, <1>2, <1>3, StepKinds, FilesEffect

LEMMA InitPopulation ==
    ASSUME Init
    PROVE  /\ \A k \in Stored : manifestChecksums(manifests[k]) \subseteq blobs
           /\ \A a \in acls : \E k \in Stored : a = <<k[1], k[2]>>
           /\ \A p \in Procs : pc[p] = "idle"
           /\ owed = {}
<1> PICK s \in Populations : manifests = s.manifests /\ blobs = s.blobs /\ acls = s.acls
  BY DEF Init
<1> QED
  BY SoundPopulations DEF Init, Stored

\* FilesPresent: gcOrphanedBlobs, whose candidates, references and deletions are
\* spread over many store calls, takes a file of a stored manifest away only if
\* a put that names the file was in flight during the collection.
THEOREM FilesStayPresent == Spec => []FilesPresent
<1>1. Init => Control /\ FilesInv
  <2> SUFFICES ASSUME Init PROVE FilesInv
    BY InitControl
  <2>1. FilesPresent
    BY InitPopulation DEF FilesPresent
  <2>2. \A p \in Procs : Checked(p) /\ Scanned(p)
    BY InitPopulation DEF Checked, Scanned, Past
  <2> QED
    BY <2>1, <2>2 DEF FilesInv
<1>2. (Control /\ FilesInv) /\ [Next]_vars => (Control /\ FilesInv)'
  BY ControlStep, FilesStep
<1>3. FilesInv => FilesPresent
  BY DEF FilesInv
<1> QED
  BY <1>1, <1>2, <1>3, PTL DEF Spec

-----------------------------------------------------------------------------
(* Files that are due.                                                      *)

\* p is collecting s and has not seen it used.
Collector(p, s) == pc[p] \in CollectSteps /\ s \in loc[p].cand /\ s \notin loc[p].refs

Due == (owed \cap blobs) \ (Referenced(manifests) \cup spared)

\* A file that was not due before has its collector.
LEMMA FallsDue ==
    ASSUME LeakInv, NEW s \in Due,
           NEW p \in Procs, \A q \in Procs \ {p} : pc'[q] = pc[q] /\ loc'[q] = loc[q],
           Collector(p, s) => Collector(p, s)'
    PROVE  \E q \in Procs : Collector(q, s)'
<1> PICK q \in Procs : Collector(q, s)
  BY DEF LeakInv, Due, Collector
<1>1. CASE q = p
  BY <1>1
<1>2. CASE q # p
  BY <1>2 DEF Collector
<1> QED
  BY <1>1, <1>2

LEMMA ReferencedSame ==
    ASSUME UNCHANGED manifests
    PROVE  Referenced(manifests)' = Referenced(manifests)
BY DEF Referenced

LEMMA IsReferenced ==
    ASSUME NEW k \in Stored, NEW s \in manifestChecksums(manifests[k])
    PROVE  s \in Referenced(manifests)
BY DEF Referenced, Stored

LEMMA LeakEffect ==
    ASSUME Control, LeakInv, NEW p \in Procs, Effect(p)
    PROVE  LeakInv'
<1>1. /\ \A q \in Procs \ {p} : pc'[q] = pc[q] /\ loc'[q] = loc[q]
      /\ Stage(p) /\ Sound
  BY DEF Effect, Moves, Control
<1> SUFFICES ASSUME NEW s \in Due'
             PROVE  \E q \in Procs : Collector(q, s)'
  BY DEF LeakInv, Due, Collector
<1>2. CASE PutsManifest(p)
  <2>1. /\ DOMAIN manifests' = Stored \cup {Key(p)}
        /\ manifests'[Key(p)] = req[p].body
        /\ \A k \in Stored \ {Key(p)} : manifests'[k] = manifests[k]
        /\ owed' = owed \cup (Referenced(manifests) \ Referenced(manifests'))
        /\ spared' = IF Key(p) \in Stored /\ manifests[Key(p)] # loc[p].prev
                     THEN spared \cup manifestChecksums(manifests[Key(p)]) ELSE spared
        /\ UNCHANGED blobs
    BY <1>2, PutChanges DEF PutsManifest
  <2>2. /\ s \in blobs /\ s \notin spared /\ s \notin spared'
        /\ s \in owed \/ s \in Referenced(manifests)
        /\ s \notin Referenced(manifests')
    BY <2>1 DEF Due
  <2>3. CASE s \in Referenced(manifests)
    <3>1. PICK k \in Stored : s \in manifestChecksums(manifests[k])
      BY <2>3 DEF Referenced, Stored
    <3>2. k = Key(p)
      BY <2>1, <2>2, <3>1 DEF Referenced
    <3>3. manifests[Key(p)] = loc[p].prev
      BY <2>1, <2>2, <3>1, <3>2
    <3>4. loc[p].prev # NoDoc
      BY <1>1, <3>1, <3>2, <3>3, SoundAt
    <3>5. s \in loc'[p].cand /\ loc'[p].refs = {} /\ pc'[p] = "gc"
      BY <1>1, <1>2, <3>1, <3>2, <3>3, <3>4 DEF PutsManifest, Stage
    <3> QED
      BY <3>5 DEF Collector, CollectSteps
  <2>4. CASE s \notin Referenced(manifests)
    <3>1. s \in Due
      BY <2>2, <2>4 DEF Due
    <3>2. ~Collector(p, s)
      BY <1>2 DEF PutsManifest, Collector, CollectSteps
    <3> QED
      BY <1>1, <3>1, <3>2, FallsDue
  <2> QED
    BY <2>3, <2>4
<1>3. CASE DropsManifest(p)
  <2>1. /\ DOMAIN manifests' = Stored \ {Key(p)}
        /\ \A k \in Stored \ {Key(p)} : manifests'[k] = manifests[k]
        /\ owed' = owed \cup (Referenced(manifests) \ Referenced(manifests'))
        /\ UNCHANGED <<blobs, spared>>
    BY <1>3, DropChanges DEF DropsManifest
  <2>2. /\ s \in blobs /\ s \notin spared
        /\ s \in owed \/ s \in Referenced(manifests)
        /\ s \notin Referenced(manifests')
    BY <2>1 DEF Due
  <2>3. CASE s \in Referenced(manifests)
    <3>1. PICK k \in Stored : s \in manifestChecksums(manifests[k])
      BY <2>3 DEF Referenced, Stored
    <3>2. k = Key(p)
      BY <2>1, <2>2, <3>1 DEF Referenced
    <3>3. s \in loc'[p].cand /\ loc'[p].refs = {} /\ pc'[p] = "deleteVersionedACL"
      BY <1>1, <1>3, <3>1, <3>2 DEF DropsManifest, Stage, Ops
    <3> QED
      BY <3>3 DEF Collector, CollectSteps
  <2>4. CASE s \notin Referenced(manifests)
    <3>1. s \in Due
      BY <2>2, <2>4 DEF Due
    <3>2. ~Collector(p, s)
      BY <1>3 DEF DropsManifest, Collector, CollectSteps, DeleteOps
    <3> QED
      BY <1>1, <3>1, <3>2, FallsDue
  <2> QED
    BY <2>3, <2>4
<1>4. CASE ~PutsManifest(p) /\ ~DropsManifest(p)
  <2>1. manifests' = manifests
    BY <1>4 DEF Effect, SameData, Stores, Looks, Uploads, Accepts, FindsFile, FindsPrevious,
                Resolves, KeepsACL, MissesVersion, DropsACL, ListsKeys, VisitsKey, RemovesFile,
                FindsObject, PutsACL
  <2>2. s \in Due
    <3>1. CASE Uploads(p)
      BY <2>1, <3>1, ReferencedSame DEF Due, Uploads
    <3>2. CASE RemovesFile(p)
      BY <2>1, <3>2, ReferencedSame DEF Due, RemovesFile
    <3>3. CASE UNCHANGED <<owed, blobs, spared>>
      BY <2>1, <3>3, ReferencedSame DEF Due
    <3> QED
      BY <1>4, <3>1, <3>2, <3>3
         DEF Effect, SameData, Stores, Looks, Accepts, FindsFile, FindsPrevious, Resolves,
             KeepsACL, MissesVersion, DropsACL, ListsKeys, VisitsKey, FindsObject, PutsACL
  <2>3. s \notin Referenced(manifests)
    BY <2>2 DEF Due
  <2>4. ASSUME Collector(p, s) PROVE Collector(p, s)'
    <3>1. pc[p] \in CollectSteps /\ s \in loc[p].cand /\ s \notin loc[p].refs
      BY <2>4 DEF Collector
    <3>2. CASE KeepsACL(p) \/ MissesVersion(p) \/ DropsACL(p)
      BY <3>1, <3>2 DEF KeepsACL, MissesVersion, DropsACL, Collects, Collector, CollectSteps
    <3>3. CASE ListsKeys(p)
      BY <3>1, <3>3 DEF ListsKeys, Stays, Collector, CollectSteps, Colls
    <3>4. CASE VisitsKey(p)
      <4>1. PICK k \in loc[p].todo :
              loc'[p].refs = loc[p].refs \cup
                 (IF k \in Stored THEN manifestChecksums(manifests[k]) ELSE {})
        BY <3>4 DEF VisitsKey
      <4>2. s \notin loc'[p].refs
        BY <2>3, <3>1, <4>1, IsReferenced
      <4> QED
        BY <3>1, <3>4, <4>2 DEF VisitsKey, Stays, Collector, CollectSteps, Colls
    <3>5. CASE RemovesFile(p)
      <4>1. PICK t \in loc[p].cand \ loc[p].refs :
              blobs' = blobs \ {t} /\ loc'[p].cand = loc[p].cand \ {t}
        BY <3>5 DEF RemovesFile
      <4>2. s # t
        BY <4>1 DEF Due
      <4> QED
        BY <3>1, <3>5, <4>1, <4>2 DEF RemovesFile, Stays, Collector, CollectSteps
    <3>6. CASE Looks(p)
      BY <3>1, <3>6 DEF Looks, NotServing
    <3>7. CASE Uploads(p) \/ Accepts(p) \/ FindsFile(p) \/ FindsPrevious(p) \/ Resolves(p)
               \/ FindsObject(p) \/ PutsACL(p)
      BY <3>1, <3>7 DEF Uploads, Accepts, FindsFile, FindsPrevious, Resolves, FindsObject, PutsACL,
                        CollectSteps, PutOps
    <3> QED
      BY <1>4, <3>2, <3>3, <3>4, <3>5, <3>6, <3>7 DEF Effect
  <2> QED
    BY <1>1, <2>2, <2>4, FallsDue
<1> QED
  BY <1>2, <1>3, <1>4

LEMMA LeakStep == Control /\ LeakInv /\ [Next]_vars => LeakInv'
<1> SUFFICES ASSUME Control, LeakInv, [Next]_vars PROVE LeakInv'
  OBVIOUS
<1>1. CASE UNCHANGED vars
  BY <1>1 DEF vars, LeakInv, Referenced
<1>2. ASSUME NEW p \in Procs, Fails(p)
      PROVE  LeakInv'
  <2> SUFFICES ASSUME NEW s \in Due'
               PROVE  \E q \in Procs : Collector(q, s)'
    BY DEF LeakInv, Due, Collector
  <2>1. s \in Due /\ s \notin loc[p].cand
    BY <1>2, ReferencedSame DEF Fails, Due
  <2> QED
    BY <1>2, <2>1, FallsDue DEF Fails, Moves, Collector
<1>3. ASSUME NEW p \in Procs, Begins(p)
      PROVE  LeakInv'
  <2> SUFFICES ASSUME NEW s \in Due'
               PROVE  \E q \in Procs : Collector(q, s)'
    BY DEF LeakInv, Due, Collector
  <2>1. s \in Due /\ ~Collector(p, s)
    BY <1>3, ReferencedSame DEF Begins, Due, Collector, CollectSteps
  <2> QED
    BY <1>3, <2>1, FallsDue DEF Begins
<1> QED
  BY <1>1, <1>2, <1>3, StepKinds, LeakEffect

\* NoLeak: when nothing is in flight a file whose last reference was dropped
\* is gone, unless a store call of its collector failed or a put replaced a
\* manifest other than the one it had read (putCookbookVersion reads the
\* previous manifest and stores the new one in two calls).
THEOREM NoFileLeaks == Spec => []NoLeak
<1>1. Init => Control /\ LeakInv
  <2> SUFFICES ASSUME Init PROVE LeakInv
    BY InitControl
  <2> QED
    BY InitPopulation DEF LeakInv
<1>2. (Control /\ LeakInv) /\ [Next]_vars => (Control /\ LeakInv)'
  BY ControlStep, LeakStep
<1>3. LeakInv => NoLeak
  <2> SUFFICES ASSUME LeakInv, Busy = {},
                      NEW s \in (owed \cap blobs) \ Referenced(manifests), s \notin spared
               PROVE  FALSE
    BY DEF NoLeak
  <2>1. PICK p \in Procs : pc[p] \in CollectSteps
    BY DEF LeakInv
  <2>2. p \in Busy
    BY <2>1 DEF Busy, CollectSteps
  <2> QED
    BY <2>2
<1> QED
  BY <1>1, <1>2, <1>3, PTL DEF Spec

-----------------------------------------------------------------------------
(* ACLs and their objects.                                                  *)

ObjectOf(p) == <<req[p].coll, req[p].name>>

\* a belongs to a stored version, was raced, or a delete is about to look at it.
Accounted(a) ==
    \/ hasVersion(a[1], a[2])
    \/ a \in aclRaced
    \/ \E p \in Procs : pc[p] \in {"deleteVersionedACL", "deleteACL"} /\ ObjectOf(p) = a

\* An ACL update has its object, or a delete of it in flight.
Vouched(p) ==
    pc[p] = "storeACL" =>
        \/ hasVersion(req[p].coll, req[p].name)
        \/ \E r \in near[p] : r.op \in DeleteOps /\ <<r.coll, r.name>> = ObjectOf(p)

LEMMA ACLParts ==
    /\ ACLInv <=> /\ \A a \in acls : a = <<a[1], a[2]>> /\ Accounted(a)
                  /\ \A p \in Procs : Vouched(p)
    /\ ACLInv' <=> /\ \A a \in acls' : a = <<a[1], a[2]>> /\ Accounted(a)'
                   /\ \A p \in Procs : Vouched(p)'
BY DEF ACLInv, Accounted, Vouched, ObjectOf

\* What versions there are, after a step.
LEMMA VersionKept ==
    ASSUME NEW a, NEW b, hasVersion(a, b), Stored \subseteq DOMAIN manifests'
    PROVE  hasVersion(a, b)'
BY DEF hasVersion, Stored

LEMMA VersionDropped ==
    ASSUME NEW p \in Procs, DOMAIN manifests' = Stored \ {Key(p)}, NEW a, NEW b,
           hasVersion(a, b), ~hasVersion(a, b)'
    PROVE  <<a, b>> = ObjectOf(p)
<1> PICK k \in Stored : k[1] = a /\ k[2] = b
  BY DEF hasVersion
<1>1. k \notin DOMAIN manifests'
  BY DEF hasVersion, Stored
<1> QED
  BY <1>1, KeyOf DEF ObjectOf

\* Steps that drop no version: only p's own standing can change.
LEMMA AccountedAside ==
    ASSUME NEW p \in Procs, NEW a, Accounted(a), req' = req,
           \A q \in Procs \ {p} : pc'[q] = pc[q],
           Stored \subseteq DOMAIN manifests', aclRaced \subseteq aclRaced',
           pc[p] \in {"deleteVersionedACL", "deleteACL"} /\ ObjectOf(p) = a => Accounted(a)'
    PROVE  Accounted(a)'
<1>1. CASE hasVersion(a[1], a[2])
  BY <1>1, VersionKept DEF Accounted
<1>2. CASE a \in aclRaced
  BY <1>2 DEF Accounted
<1>3. ASSUME NEW q \in Procs, pc[q] \in {"deleteVersionedACL", "deleteACL"}, ObjectOf(q) = a
      PROVE  Accounted(a)'
  <2>1. CASE q = p
    BY <1>3, <2>1
  <2>2. CASE q # p
    BY <1>3, <2>2 DEF Accounted, ObjectOf
  <2> QED
    BY <2>1, <2>2
<1> QED
  BY <1>1, <1>2, <1>3 DEF Accounted

LEMMA VouchedAside ==
    ASSUME NEW q \in Procs, Vouched(q), pc'[q] = pc[q], req'[q] = req[q],
           near[q] \subseteq near'[q], Stored \subseteq DOMAIN manifests'
    PROVE  Vouched(q)'
<1>1. hasVersion(req[q].coll, req[q].name) => hasVersion(req[q].coll, req[q].name)'
  BY DEF hasVersion, Stored
<1> QED
  BY <1>1 DEF Vouched, ObjectOf

LEMMA DropKeepsACLs ==
    ASSUME Control, ACLInv, NEW p \in Procs, Effect(p), DropsManifest(p)
    PROVE  ACLInv'
<1>1. /\ UNCHANGED <<req, near>> /\ pc[p] # "idle"
      /\ \A q \in Procs \ {p} : pc'[q] = pc[q]
  BY BusyEffect DEF Effect, Moves
<1>2. /\ DOMAIN manifests' = Stored \ {Key(p)} /\ UNCHANGED <<acls, aclRaced>>
      /\ pc'[p] = "deleteVersionedACL" /\ pc[p] \in DeleteOps
  BY DropChanges DEF DropsManifest
<1>3. req[p].op \in DeleteOps
  BY <1>2 DEF Control, Stage, Ops
<1>4. ASSUME NEW a \in acls, a = <<a[1], a[2]>>, Accounted(a)
      PROVE  Accounted(a)'
  <2>1. CASE hasVersion(a[1], a[2])
    <3>1. CASE hasVersion(a[1], a[2])'
      BY <3>1 DEF Accounted
    <3>2. CASE ~hasVersion(a[1], a[2])'
      <4>1. a = ObjectOf(p)
        BY <1>2, <1>4, <2>1, <3>2, VersionDropped
      <4>2. ObjectOf(p)' = ObjectOf(p)
        BY <1>1 DEF ObjectOf
      <4> QED
        BY <1>2, <4>1, <4>2 DEF Accounted
    <3> QED
      BY <3>1, <3>2
  <2>2. CASE a \in aclRaced
    BY <1>2, <2>2 DEF Accounted
  <2>3. ASSUME NEW q \in Procs, pc[q] \in {"deleteVersionedACL", "deleteACL"}, ObjectOf(q) = a
        PROVE  Accounted(a)'
    <3>1. q # p /\ ObjectOf(q)' = ObjectOf(q)
      BY <1>1, <1>2, <2>3 DEF DeleteOps, ObjectOf
    <3> QED
      BY <1>1, <2>3, <3>1 DEF Accounted
  <2> QED
    BY <1>4, <2>1, <2>2, <2>3 DEF Accounted
<1>5. Vouched(p)'
  BY <1>2 DEF Vouched
<1>6. ASSUME NEW q \in Procs \ {p}, Vouched(q)
      PROVE  Vouched(q)'
  <2> SUFFICES ASSUME pc[q] = "storeACL", ~hasVersion(req[q].coll, req[q].name)'
               PROVE  \E r \in near[q] : r.op \in DeleteOps /\ <<r.coll, r.name>> = ObjectOf(q)
    BY <1>1 DEF Vouched, ObjectOf
  <2>1. CASE hasVersion(req[q].coll, req[q].name)
    <3> DEFINE a == req[q].coll
               b == req[q].name
    <3>1. PICK k \in Stored : k[1] = a /\ k[2] = b
      BY <2>1 DEF hasVersion
    <3>2. k \notin DOMAIN manifests'
      BY <1>1, <3>1 DEF hasVersion, Stored
    <3>3. ObjectOf(p) = ObjectOf(q)
      BY <1>2, <3>1, <3>2, KeyOf DEF ObjectOf
    <3>4. req[p] \in near[q]
      BY <1>1 DEF Control, Aware, Busy
    <3> QED
      BY <1>3, <3>3, <3>4 DEF ObjectOf
  <2>2. CASE ~hasVersion(req[q].coll, req[q].name)
    BY <1>6, <2>2 DEF Vouched
  <2> QED
    BY <2>1, <2>2
<1> QED
  BY <1>2, <1>4, <1>5, <1>6, ACLParts

LEMMA ACLEffect ==
    ASSUME Control, ACLInv, NEW p \in Procs, Effect(p)
    PROVE  ACLInv'
<1>1. /\ UNCHANGED <<req, near>>
      /\ \A q \in Procs \ {p} : pc'[q] = pc[q]
  BY DEF Effect, Moves
<1>2. CASE DropsManifest(p)
  BY <1>2, DropKeepsACLs
<1>3. CASE ~DropsManifest(p)
  <2>1. Stored \subseteq DOMAIN manifests' /\ aclRaced \subseteq aclRaced'
    <3>1. CASE PutsManifest(p)
      BY <3>1, PutChanges DEF PutsManifest
    <3>2. CASE UNCHANGED manifests /\ aclRaced \subseteq aclRaced'
      BY <3>2 DEF Stored
    <3> QED
      BY <1>3, <3>1, <3>2
         DEF Effect, SameData, Stores, Looks, Uploads, Accepts, FindsFile, FindsPrevious, Resolves,
             KeepsACL, MissesVersion, DropsACL, ListsKeys, VisitsKey, RemovesFile, FindsObject,
             PutsACL
  <2>2. Vouched(p)'
    <3>1. CASE FindsObject(p)
      BY <1>1, <3>1 DEF FindsObject, SameData, Stores, Vouched, hasVersion, Stored
    <3>2. CASE pc'[p] # "storeACL"
      BY <3>2 DEF Vouched
    <3> QED
      BY <1>3, <3>1, <3>2
         DEF Effect, Looks, Passive, Uploads, Accepts, FindsFile, FindsPrevious, PutsManifest,
             Resolves, KeepsACL, Collects, MissesVersion, DropsACL, ListsKeys, VisitsKey, Stays,
             RemovesFile, PutsACL, Colls
  <2>3. \A q \in Procs \ {p} : Vouched(q)'
    BY <1>1, <2>1, VouchedAside, ACLParts
  <2>4. ASSUME NEW a \in acls', a \notin acls
        PROVE  a = <<a[1], a[2]>> /\ Accounted(a)'
    <3>1. PutsACL(p)
      BY <1>3, <2>4, PutChanges
         DEF Effect, SameData, Stores, Looks, Uploads, Accepts, FindsFile, FindsPrevious,
             PutsManifest, Resolves, KeepsACL, MissesVersion, DropsACL, ListsKeys, VisitsKey,
             RemovesFile, FindsObject
    <3>2. a = ObjectOf(p)
      BY <2>4, <3>1 DEF PutsACL, ObjectOf
    <3>3. a = <<a[1], a[2]>> /\ a[1] = req[p].coll /\ a[2] = req[p].name
      BY <3>2 DEF ObjectOf
    <3>4. CASE hasVersion(req[p].coll, req[p].name)
      BY <2>1, <3>3, <3>4, VersionKept DEF Accounted
    <3>5. CASE ~hasVersion(req[p].coll, req[p].name)
      <4>1. Vouched(p) /\ pc[p] = "storeACL"
        BY <3>1, ACLParts DEF PutsACL
      <4>2. a \in aclRaced'
        BY <3>1, <3>2, <3>5, <4>1 DEF Vouched, PutsACL, ObjectOf
      <4> QED
        BY <3>3, <4>2 DEF Accounted
    <3> QED
      BY <3>3, <3>4, <3>5
  <2>5. ASSUME NEW a \in acls, a \in acls'
        PROVE  a = <<a[1], a[2]>> /\ Accounted(a)'
    <3>1. a = <<a[1], a[2]>> /\ Accounted(a)
      BY <2>5, ACLParts
    <3>2. ASSUME pc[p] \in {"deleteVersionedACL", "deleteACL"}, ObjectOf(p) = a
          PROVE  Accounted(a)'
      <4>1. a[1] = req[p].coll /\ a[2] = req[p].name /\ ObjectOf(p)' = a
        BY <1>1, <3>2 DEF ObjectOf
      <4>2. CASE KeepsACL(p)
        BY <2>1, <4>1, <4>2, VersionKept DEF KeepsACL, Accounted
      <4>3. CASE MissesVersion(p)
        BY <4>1, <4>3 DEF MissesVersion, Accounted
      <4>4. CASE DropsACL(p)
        BY <2>5, <3>2, <4>4 DEF DropsACL, ObjectOf
      <4> QED
        BY <1>3, <3>2, <4>2, <4>3, <4>4
           DEF Effect, Looks, NotServing, CollectSteps, Uploads, Accepts, FindsFile, FindsPrevious,
               PutsManifest, Resolves, ListsKeys, VisitsKey, RemovesFile, FindsObject, PutsACL,
               PutOps, Colls
    <3> QED
      BY <1>1, <2>1, <3>1, <3>2, AccountedAside
  <2> QED
    BY <2>2, <2>3, <2>4, <2>5, ACLParts
<1> QED
  BY <1>2, <1>3

LEMMA ACLStep == Control /\ ACLInv /\ [Next]_vars => ACLInv'
<1> SUFFICES ASSUME Control, ACLInv, [Next]_vars PROVE ACLInv'
  OBVIOUS
<1>1. CASE UNCHANGED vars
  BY <1>1 DEF vars, ACLInv, hasVersion, Stored
<1>2. ASSUME NEW p \in Procs, Fails(p)
      PROVE  ACLInv'
  <2>1. /\ UNCHANGED <<req, near, manifests, acls>> /\ pc'[p] = "idle"
        /\ \A q \in Procs \ {p} : pc'[q] = pc[q]
        /\ aclRaced' = IF req[p].op \in DeleteOps
                       THEN aclRaced \cup {<<req[p].coll, req[p].name>>} ELSE aclRaced
    BY <1>2 DEF Fails, Moves
  <2>2. Stored \subseteq DOMAIN manifests' /\ aclRaced \subseteq aclRaced'
    BY <2>1 DEF Stored
  <2>3. \A q \in Procs : Vouched(q)'
    <3>1. Vouched(p)'
      BY <2>1 DEF Vouched
    <3> QED
      BY <2>1, <2>2, <3>1, VouchedAside, ACLParts
  <2>4. ASSUME NEW a \in acls
        PROVE  a = <<a[1], a[2]>> /\ Accounted(a)'
    <3>1. a = <<a[1], a[2]>> /\ Accounted(a)
      BY ACLParts
    <3>2. ASSUME pc[p] \in {"deleteVersionedACL", "deleteACL"}, ObjectOf(p) = a
          PROVE  Accounted(a)'
      <4>1. req[p].op \in DeleteOps
        BY <3>2 DEF Control, Stage
      <4> QED
        BY <2>1, <3>2, <4>1 DEF Accounted, ObjectOf
    <3> QED
      BY <2>1, <2>2, <3>1, <3>2, AccountedAside
  <2> QED
    BY <2>1, <2>3, <2>4, ACLParts
<1>3. ASSUME NEW p \in Procs, Begins(p)
      PROVE  ACLInv'
  <2>1. /\ UNCHANGED <<manifests, acls, aclRaced>> /\ pc[p] = "idle" /\ pc'[p] \in Ops
        /\ \A q \in Procs \ {p} : pc'[q] = pc[q] /\ req'[q] = req[q]
    BY <1>3, RoutedRequests DEF Begins, Typed
  <2>2. \A q \in Procs \ {p} : near[q] \subseteq near'[q]
    BY <1>3 DEF Begins
  <2>3. Stored \subseteq DOMAIN manifests'
    BY <2>1 DEF Stored
  <2>4. \A q \in Procs : Vouched(q)'
    <3>1. Vouched(p)'
      BY <2>1 DEF Vouched, Ops, PutOps, DeleteOps, EnvOps
    <3> QED
      BY <2>1, <2>2, <2>3, <3>1, VouchedAside, ACLParts
  <2>5. ASSUME NEW a \in acls
        PROVE  a = <<a[1], a[2]>> /\ Accounted(a)'
    <3>1. a = <<a[1], a[2]>> /\ Accounted(a)
      BY ACLParts
    <3> QED
      BY <2>1, <2>3, <3>1, VersionKept DEF Accounted, ObjectOf
  <2> QED
    BY <2>1, <2>4, <2>5, ACLParts
<1> QED
  BY <1>1, <1>2, <1>3, StepKinds, ACLEffect

\* ACLsOfTheLiving: when nothing is in flight no ACL outlives the last version
\* of its name (deleteVersionedACL), unless it was stored by an update that
\* overlapped the delete or the delete failed on the way.
THEOREM ACLsGoWithVersions == Spec => []ACLsOfTheLiving
<1>1. Init => Control /\ ACLInv
  <2> SUFFICES ASSUME Init PROVE ACLInv
    BY InitControl
  <2>1. \A a \in acls : a = <<a[1], a[2]>> /\ hasVersion(a[1], a[2])
    BY InitPopulation DEF hasVersion
  <2> QED
    BY <2>1, InitPopulation DEF ACLInv
<1>2. (Control /\ ACLInv) /\ [Next]_vars => (Control /\ ACLInv)'
  BY ControlStep, ACLStep
<1>3. ACLInv => ACLsOfTheLiving
  BY DEF ACLInv, ACLsOfTheLiving, Busy
<1> QED
  BY <1>1, <1>2, <1>3, PTL DEF Spec

-----------------------------------------------------------------------------
(* The universe is current.                                                 *)

\* What the histories say of p's request: kept shrinks and ever grows.
Grows(p) ==
    /\ kept'[p] \subseteq kept[p] /\ ever[p] \subseteq ever'[p]
    /\ p \in Busy => kept'[p] \subseteq DOMAIN manifests' /\ DOMAIN manifests' \subseteq ever'[p]

Bracketed == \A p \in Busy : kept[p] \subseteq Stored /\ Stored \subseteq ever[p]

LEMMA HistoryEffect ==
    ASSUME Control, Bracketed, NEW p \in Procs, Effect(p), NEW q \in Procs
    PROVE  Grows(q)
<1>1. ASSUME kept' = [x \in Procs |-> IF x \in Busy THEN kept[x] \cap DOMAIN manifests' ELSE kept[x]],
             ever' = [x \in Procs |-> IF x \in Busy THEN ever[x] \cup DOMAIN manifests' ELSE ever[x]]
      PROVE  Grows(q)
  BY <1>1 DEF Grows
<1>2. CASE PutsManifest(p)
  BY <1>1, <1>2, PutChanges DEF PutsManifest
<1>3. CASE DropsManifest(p)
  BY <1>1, <1>3, DropChanges DEF DropsManifest
<1>4. CASE UNCHANGED <<manifests, kept, ever>>
  BY <1>4 DEF Grows, Bracketed, Stored
<1> QED
  BY <1>2, <1>3, <1>4
     DEF Effect, SameData, Stores, Looks, Uploads, Accepts, FindsFile, FindsPrevious, Resolves,
         KeepsACL, MissesVersion, DropsACL, ListsKeys, VisitsKey, RemovesFile, FindsObject,
         PutsACL

\* A goroutine that does nothing keeps its part.
LEMMA UniverseAside ==
    ASSUME NEW q \in Procs, UniverseAt(q), pc'[q] = pc[q], loc'[q] = loc[q], out'[q] = out[q],
           req'[q] = req[q], kept'[q] \subseteq kept[q], ever[q] \subseteq ever'[q]
    PROVE  UniverseAt(q)'
BY DEF UniverseAt, Shown

\* A universe request only reads the keys and the manifests.
LEMMA UniverseSteps ==
    ASSUME NEW p \in Procs, Step(p), pc[p] \in {"idle", "universe", "readEach"}
    PROVE  (pc[p] = "universe" /\ ReadKeys(p)) \/ (pc[p] = "readEach" /\ ReadEach(p))
<1>1. ~PutFile(p) /\ ~GetFile(p) /\ ~CreateSandboxHas(p) /\ ~CreateSandboxPut(p)
  BY Zenon DEF PutFile, GetFile, CreateSandboxHas, CreateSandboxPut
<1>2. ~CommitSandboxGet(p) /\ ~CommitSandboxPut(p) /\ ~HasBlob(p)
  BY Zenon DEF CommitSandboxGet, CommitSandboxPut, HasBlob
<1>3. ~PutCookbookVersion(p) /\ ~PutArtifactGet(p) /\ ~GetPrevious(p) /\ ~PutManifest(p)
  BY Zenon DEF PutCookbookVersion, PutArtifactGet, GetPrevious, PutManifest
<1>4. ~ResolveVersion(p) /\ ~DeleteManifest(p) /\ ~DeleteVersionedACL(p) /\ ~DeleteACL(p)
  BY Zenon DEF ResolveVersion, DeleteManifest, DeleteVersionedACL, DeleteACL, DeleteOps
<1>5. ~GCKeys(p) /\ ~GCGet(p) /\ ~DeleteBlob(p) /\ ~PutACLCheck(p) /\ ~PutACL(p)
  BY Zenon DEF GCKeys, GCGet, DeleteBlob, PutACLCheck, PutACL, Colls
<1>6. ~ListVersions(p) /\ ~ListArtifacts(p) /\ ~GetManifest(p) /\ ~GetEnvironment(p)
  BY Zenon DEF ListVersions, ListArtifacts, GetManifest, GetEnvironment, EnvOps
<1>7. ~EnvKeys(p) /\ ~Solve(p)
  BY Zenon DEF EnvKeys, Solve
<1>8. /\ ReadKeys(p) => pc[p] = "universe"
      /\ ReadEach(p) => pc[p] = "readEach"
  BY Zenon DEF ReadKeys, ReadEach
<1> QED
  BY <1>1, <1>2, <1>3, <1>4, <1>5, <1>6, <1>7, <1>8 DEF Step

\* What remains to be read, and what has been, bracket the loop's answer.
LEMMA UniverseLoops ==
    ASSUME NEW p \in Procs, NEW ks, NEW got, Loops(p, ks, got), req'[p] = req[p],
           kept'[p] = kept[p], ever'[p] = ever[p],
           \A k \in kept[p] : k[1] = "cookbooks" => k \in ks \cup Shown(got),
           Shown(got) \subseteq ever[p]
    PROVE  UniverseAt(p)'
BY DEF UniverseAt, Loops, Shown

LEMMA ShownMore ==
    ASSUME NEW got, NEW k, NEW m
    PROVE  Shown(got \cup {<<k, m>>}) = Shown(got) \cup {k}
<1>1. <<k, m>>[1] = k
  OBVIOUS
<1>2. ASSUME NEW x \in Shown(got \cup {<<k, m>>}) PROVE x \in Shown(got) \cup {k}
  BY <1>1 DEF Shown
<1>3. Shown(got) \subseteq Shown(got \cup {<<k, m>>})
  BY DEF Shown
<1>4. k \in Shown(got \cup {<<k, m>>})
  <2>1. <<k, m>> \in got \cup {<<k, m>>}
    OBVIOUS
  <2> QED
    BY <1>1, <2>1, Zenon DEF Shown
<1> QED
  BY <1>2, <1>3, <1>4

LEMMA UniverseStepOf ==
    ASSUME Control, UniverseInv, NEW p \in Procs, Step(p)
    PROVE  UniverseAt(p)'
<1>1. /\ Typed /\ Stage(p) /\ UniverseAt(p) /\ Bracketed
  BY DEF Control, UniverseInv, Bracketed
<1>2. Effect(p)
  BY <1>1, StepEffect
<1>3. req' = req /\ p \in Busy
  BY <1>2, BusyEffect DEF Effect, Moves, Busy
<1>4. kept[p] \subseteq Stored /\ Stored \subseteq ever[p]
  BY <1>1, <1>3 DEF Bracketed
<1>5. CASE req[p].op # "universe"
  BY <1>3, <1>5 DEF UniverseAt
<1>6. CASE req[p].op = "universe"
  <2>1. pc[p] \in {"idle", "universe", "readEach"}
    BY <1>1, <1>6 DEF UniverseAt
  <2>2. CASE pc[p] = "universe" /\ ReadKeys(p)
    <3>1. loc[p].got = {}
      BY <1>1, <1>6, <2>2 DEF UniverseAt
    <3>2. SameData /\ Loops(p, {k \in Stored : k[1] = "cookbooks"}, {})
      BY <1>1, <2>2, <3>1, ReadKeysEffect
    <3>3. UNCHANGED <<kept, ever>>
      BY <3>2 DEF SameData, Stores
    <3>4. Shown({}) = {}
      BY DEF Shown
    <3> QED
      BY <1>3, <1>4, <3>2, <3>3, <3>4, UniverseLoops
  <2>3. CASE pc[p] = "readEach" /\ ReadEach(p)
    <3> DEFINE after(k) == IF k \in Stored THEN loc[p].got \cup {<<k, manifests[k]>>} ELSE loc[p].got
    <3>1. PICK k \in loc[p].todo : Loops(p, loc[p].todo \ {k}, after(k))
      BY <1>1, <2>3, ReadEachEffect
    <3>2. UNCHANGED <<kept, ever>>
      BY <1>1, <2>3, ReadEachEffect DEF SameData, Stores
    <3>3. /\ \A x \in kept[p] : x[1] = "cookbooks" => x \in loc[p].todo \cup Shown(loc[p].got)
          /\ Shown(loc[p].got) \subseteq ever[p]
      BY <1>1, <1>6, <2>3 DEF UniverseAt
    <3>4. Shown(after(k)) = Shown(loc[p].got) \cup (IF k \in Stored THEN {k} ELSE {})
      BY ShownMore
    <3> HIDE DEF after
    <3> QED
      BY <1>3, <1>4, <3>1, <3>2, <3>3, <3>4, UniverseLoops
  <2> QED
    BY <2>1, <2>2, <2>3, UniverseSteps
<1> QED
  BY <1>5, <1>6

LEMMA UniverseStep == Control /\ UniverseInv /\ [Next]_vars => UniverseInv'
<1> SUFFICES ASSUME Control, UniverseInv, [Next]_vars PROVE UniverseInv'
  OBVIOUS
<1>0. Typed /\ Bracketed /\ \A p \in Procs : Stage(p) /\ UniverseAt(p)
  BY DEF Control, UniverseInv, Bracketed
<1>1. CASE UNCHANGED vars
  BY <1>1 DEF vars, UniverseInv, UniverseAt, Busy, Stored
<1>2. ASSUME NEW p \in Procs, Step(p)
      PROVE  UniverseInv'
  <2>1. Effect(p)
    BY <1>0, <1>2, StepEffect
  <2>2. \A q \in Procs : Grows(q)
    BY <1>0, <2>1, HistoryEffect
  <2>3. /\ req' = req /\ p \in Busy
        /\ \A q \in Procs \ {p} : pc'[q] = pc[q] /\ loc'[q] = loc[q] /\ out'[q] = out[q]
    BY <2>1, BusyEffect DEF Effect, Moves, Busy
  <2>4. \A q \in Procs : UniverseAt(q)'
    BY <1>0, <1>2, <2>2, <2>3, UniverseStepOf, UniverseAside DEF Grows
  <2>5. Bracketed'
    BY <2>2, <2>3 DEF Bracketed, Grows, Busy, Stored
  <2> QED
    BY <2>4, <2>5 DEF UniverseInv, Bracketed
<1>3. ASSUME NEW p \in Procs, Fails(p)
      PROVE  UniverseInv'
  <2>1. /\ UNCHANGED <<req, manifests, kept, ever>>
        /\ pc[p] # "idle" /\ pc'[p] = "idle" /\ out'[p].st = 500
        /\ \A q \in Procs \ {p} : pc'[q] = pc[q] /\ loc'[q] = loc[q] /\ out'[q] = out[q]
    BY <1>3 DEF Fails, Moves
  <2>2. UniverseAt(p)'
    BY <2>1 DEF UniverseAt
  <2>3. \A q \in Procs \ {p} : UniverseAt(q)'
    BY <1>0, <2>1, UniverseAside
  <2>4. Bracketed'
    BY <1>0, <2>1 DEF Bracketed, Busy, Stored
  <2> QED
    BY <2>2, <2>3, <2>4 DEF UniverseInv, Bracketed
<1>4. ASSUME NEW p \in Procs, Begins(p)
      PROVE  UniverseInv'
  <2>1. /\ UNCHANGED manifests /\ pc'[p] = req'[p].op /\ loc'[p].got = {}
        /\ kept'[p] = Stored /\ ever'[p] = Stored
        /\ \A q \in Procs \ {p} : /\ pc'[q] = pc[q] /\ loc'[q] = loc[q] /\ out'[q] = out[q]
                                  /\ req'[q] = req[q] /\ kept'[q] = kept[q] /\ ever'[q] = ever[q]
    BY <1>4 DEF Begins
  <2>2. UniverseAt(p)'
    BY <2>1 DEF UniverseAt
  <2>3. \A q \in Procs \ {p} : UniverseAt(q)'
    BY <1>0, <2>1, UniverseAside
  <2>4. Bracketed'
    BY <1>0, <2>1 DEF Bracketed, Busy, Stored
  <2> QED
    BY <2>2, <2>3, <2>4 DEF UniverseInv, Bracketed
<1> QED
  BY <1>0, <1>1, <1>2, <1>3, <1>4, StoreErrorFails, BeginBegins DEF Next, Done

\* UniverseIsCurrent: universe lists the keys first and reads the manifests one
\* by one while others put and delete; its answer still has every version that
\* was stored throughout, and none that was not stored at some moment of it.
THEOREM UniverseStaysCurrent == Spec => []UniverseIsCurrent
<1>1. Init => Control /\ UniverseInv
  <2> SUFFICES ASSUME Init PROVE UniverseInv
    BY InitControl
  <2>1. \A p \in Procs : pc[p] = "idle" /\ out[p].st = 0
    BY DEF Init, NoAnswer
  <2> QED
    BY <2>1 DEF UniverseInv, UniverseAt, Busy
<1>2. (Control /\ UniverseInv) /\ [Next]_vars => (Control /\ UniverseInv)'
  BY ControlStep, UniverseStep
<1>3. UniverseInv => UniverseIsCurrent
  BY DEF UniverseInv, UniverseAt, UniverseIsCurrent, Busy, Shown
<1> QED
  BY <1>1, <1>2, <1>3, PTL DEF Spec

=============================================================================
