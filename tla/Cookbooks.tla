----------------------------- MODULE Cookbooks ------------------------------
(***************************************************************************)
(* Cookbooks, cookbook artifacts, the files they share, and what clients    *)
(* read of them.                                                            *)
(*                                                                          *)
(* A client announces checksums in a sandbox, uploads the missing files,    *)
(* commits the sandbox and puts a manifest that names the files.  Files are *)
(* shared by checksum; removing or replacing a manifest collects the files  *)
(* no stored manifest names any more.  No lock orders these handlers: every *)
(* call to the store is a step of its own, and any of them may fail.        *)
(*                                                                          *)
(* manifests maps the stored keys <<collection, name, version>> (an         *)
(* artifact's identifier is its version) to manifests.  Environments are    *)
(* written by other handlers and constant here.                             *)
(***************************************************************************)
EXTENDS Manifests

CONSTANTS
    Procs,          \* goroutines serving requests
    Sums,           \* checksums
    Requests,       \* the requests clients may send
    Populations,    \* what may be stored at the start: manifests, blobs, acls
    Environments,   \* stored environments: name -> (cookbook -> constraint)
    MaxRequests,    \* bound: requests served in a behaviour
    MaxErrors,      \* bound: store calls that fail
    NoDoc           \* "no document"

ASSUME BoundsAreNaturals == MaxRequests \in Nat /\ MaxErrors \in Nat

Colls     == {"cookbooks", "cookbook_artifacts"}
PutOps    == {"putCookbookVersion", "putArtifactVersion"}
DeleteOps == {"deleteCookbookVersion", "deleteArtifactVersion"}
EnvOps    == {"envCookbooks", "envCookbook", "envRecipes", "envCookbookVersions"}
Ops       == PutOps \cup DeleteOps \cup EnvOps \cup
             {"putFile", "getFile", "createSandbox", "commitSandbox", "putACL",
              "listCookbooks", "getCookbook", "cookbooksLatest", "getCookbookVersion",
              "listArtifacts", "getArtifact", "getArtifactVersion",
              "universe", "cookbookRecipes"}

\* The route of a request fixes its collection; only JSON objects get through.
ASSUME RoutedRequests ==
    /\ Requests # {}
    /\ \A r \in Requests :
        /\ r.op \in Ops /\ r.sums \subseteq Sums
        /\ r.op \in {"putCookbookVersion", "deleteCookbookVersion"} => r.coll = "cookbooks"
        /\ r.op \in {"putArtifactVersion", "deleteArtifactVersion"} =>
              r.coll = "cookbook_artifacts"
        /\ r.op \in PutOps => r.body # NoDoc /\ manifestChecksums(r.body) \subseteq Sums

\* At the start manifests have their files and ACLs their objects.  A version may
\* be any text: a chef-repo's cookbooks are loaded without a look at it.
ASSUME SoundPopulations ==
    \A s \in Populations :
        /\ s.blobs \subseteq Sums
        /\ \A k \in DOMAIN s.manifests :
              /\ k[1] \in Colls /\ s.manifests[k] # NoDoc
              /\ manifestChecksums(s.manifests[k]) \subseteq s.blobs
        /\ \A a \in s.acls : \E k \in DOMAIN s.manifests : a = <<k[1], k[2]>>

VARIABLES
    manifests, blobs, sandboxes, acls,  \* the store
    pc, req, loc, out,                  \* goroutines: step, request, locals, answer
    served, errors,                     \* how much of the bounds is used
    near,       \* history: requests in flight at some moment of p's request
    kept, ever, \* history: manifest keys stored throughout, or at some moment of, p's request
    owed,       \* history: checksums whose last reference was dropped since their upload
    raced,      \* history: checksums collected during a put that names them
    spared,     \* history: checksums whose collection an error or a second put cut short
    aclRaced    \* history: ACLs stored during a delete, or kept by a failed one

store   == <<manifests, blobs, sandboxes, acls>>
history == <<near, kept, ever, owed, raced, spared, aclRaced>>
vars    == <<manifests, blobs, sandboxes, acls, pc, req, loc, out, served, errors,
             near, kept, ever, owed, raced, spared, aclRaced>>

Latest    == <<>>                     \* the "_latest" alias in a URL
Stored    == DOMAIN manifests
Busy      == {p \in Procs : pc[p] # "idle"}
Key(p)    == <<req[p].coll, req[p].name, loc[p].ver>>

Referenced(ms) == UNION {manifestChecksums(ms[k]) : k \in DOMAIN ms}

NoLocals == [ver |-> Latest, todo |-> {}, prev |-> NoDoc, refs |-> {}, cand |-> {},
             avail |-> {}, queue |-> {}, got |-> {}]
NoAnswer == [st |-> 0, doc |-> NoDoc, got |-> {}, list |-> <<>>]
Answer(c) == [NoAnswer EXCEPT !.st = c]

\* p answers and is done.
Reply(p, answer) == /\ out' = [out EXCEPT ![p] = answer]
                    /\ pc' = [pc EXCEPT ![p] = "idle"]
Goto(p, l)       == pc' = [pc EXCEPT ![p] = l] /\ UNCHANGED out
Local(p, l)      == loc' = [loc EXCEPT ![p] = l]

-----------------------------------------------------------------------------
(* Writes to the store, with what the histories record of them.             *)

Quiet     == UNCHANGED <<kept, ever, owed, raced, spared, aclRaced>>
ReadStore == UNCHANGED store /\ Quiet
Fixed     == UNCHANGED <<req, served, errors, near>>

\* The manifests become ms.
Change(ms) ==
    /\ manifests' = ms
    /\ owed' = owed \cup (Referenced(manifests) \ Referenced(ms))
    /\ kept' = [p \in Procs |-> IF p \in Busy THEN kept[p] \cap DOMAIN ms ELSE kept[p]]
    /\ ever' = [p \in Procs |-> IF p \in Busy THEN ever[p] \cup DOMAIN ms ELSE ever[p]]
    /\ UNCHANGED <<blobs, sandboxes, acls, raced, aclRaced>>

\* Mutant: the key has the collection and the name the wrong way round.
StoreManifestSwapped(p, m) ==
    LET k == <<req[p].name, req[p].coll, loc[p].ver>>
    IN /\ Change([x \in Stored \cup {k} |-> IF x = k THEN m ELSE manifests[x]])
       /\ UNCHANGED spared

\* Put; spared records a manifest other than the one the writer believes it replaces.
StoreManifest(p, m) ==
    LET k == Key(p)
    IN /\ Change([x \in Stored \cup {k} |-> IF x = k THEN m ELSE manifests[x]])
       /\ spared' = IF k \in Stored /\ manifests[k] # loc[p].prev
                    THEN spared \cup manifestChecksums(manifests[k]) ELSE spared

DropManifest(k) ==
    /\ Change([x \in Stored \ {k} |-> manifests[x]])
    /\ UNCHANGED spared

Init ==
    /\ \E s \in Populations : /\ manifests = s.manifests
                              /\ blobs = s.blobs
                              /\ acls = s.acls
    /\ sandboxes = [s \in {} |-> "open"]
    /\ pc = [p \in Procs |-> "idle"]
    /\ req \in [Procs -> {CHOOSE r \in Requests : TRUE}]
    /\ loc = [p \in Procs |-> NoLocals]
    /\ out = [p \in Procs |-> NoAnswer]
    /\ served = 0 /\ errors = 0
    /\ near = [p \in Procs |-> {}]
    /\ kept = [p \in Procs |-> {}]
    /\ ever = [p \in Procs |-> {}]
    /\ owed = {} /\ raced = {} /\ spared = {} /\ aclRaced = {}

\* A request reaches its handler; the operation is the handler's first step.
Begin(p) ==
    /\ pc[p] = "idle" /\ served < MaxRequests
    /\ \E r \in Requests :
        /\ req' = [req EXCEPT ![p] = r]
        /\ pc' = [pc EXCEPT ![p] = r.op]
        /\ loc' = [loc EXCEPT ![p] = [NoLocals EXCEPT !.ver = r.ver,
                                 !.todo = IF r.op = "createSandbox" THEN r.sums ELSE {}]]
        /\ near' = [q \in Procs |-> IF q = p THEN {req[b] : b \in Busy}
                                    ELSE IF q \in Busy THEN near[q] \cup {r} ELSE near[q]]
    /\ out' = [out EXCEPT ![p] = NoAnswer]
    /\ kept' = [kept EXCEPT ![p] = Stored]
    /\ ever' = [ever EXCEPT ![p] = Stored]
    /\ served' = served + 1
    /\ UNCHANGED <<manifests, blobs, sandboxes, acls, errors, owed, raced, spared, aclRaced>>

\* Any call to the store may fail: the handler answers 500 and stops there.
StoreError(p) ==
    /\ p \in Busy /\ errors < MaxErrors
    /\ Reply(p, Answer(500))
    /\ errors' = errors + 1
    /\ spared' = spared \cup loc[p].cand
                   \cup (IF loc[p].prev = NoDoc THEN {} ELSE manifestChecksums(loc[p].prev))
    /\ aclRaced' = IF req[p].op \in DeleteOps
                   THEN aclRaced \cup {<<req[p].coll, req[p].name>>} ELSE aclRaced
    /\ UNCHANGED <<manifests, blobs, sandboxes, acls, req, loc, served,
                   near, kept, ever, owed, raced>>

-----------------------------------------------------------------------------
(* File store and sandboxes.  A sandbox's id is a function of its checksums *)
(* (sandboxID), so the set of checksums stands for it.                      *)

PutFile(p) ==
    /\ pc[p] = "putFile" /\ Fixed /\ UNCHANGED loc
    /\ \/ /\ req[p].content # req[p].sums     \* MD5 of the body is not the URL's
          /\ Reply(p, Answer(400)) /\ ReadStore
       \/ /\ req[p].content = req[p].sums
          /\ Reply(p, Answer(200))
          /\ blobs' = blobs \cup req[p].sums
          /\ owed' = owed \ req[p].sums
          /\ raced' = raced \ req[p].sums
          /\ spared' = spared \ req[p].sums
          /\ UNCHANGED <<manifests, sandboxes, acls, kept, ever, aclRaced>>

GetFile(p) ==
    /\ pc[p] = "getFile" /\ Fixed /\ ReadStore /\ UNCHANGED loc
    /\ Reply(p, Answer(IF req[p].sums \subseteq blobs THEN 200 ELSE 404))

\* createSandbox: which of the announced files are here already, one by one.
CreateSandboxHas(p) ==
    /\ pc[p] = "createSandbox" /\ Fixed /\ ReadStore
    /\ \E s \in loc[p].todo :
          Local(p, [loc[p] EXCEPT !.todo = @ \ {s},
                                  !.got = IF s \in blobs THEN @ \cup {s} ELSE @])
    /\ UNCHANGED <<pc, out>>

PutSandbox(p, state) ==
    /\ sandboxes' = [x \in DOMAIN sandboxes \cup {req[p].sums} |->
                        IF x = req[p].sums THEN state ELSE sandboxes[x]]
    /\ UNCHANGED <<manifests, blobs, acls, loc>> /\ Quiet

CreateSandboxPut(p) ==
    /\ pc[p] = "createSandbox" /\ loc[p].todo = {} /\ Fixed
    /\ PutSandbox(p, "open")
    /\ Reply(p, [Answer(201) EXCEPT !.got = loc[p].got])

CommitSandboxGet(p) ==
    /\ pc[p] = "commitSandbox" /\ Fixed /\ ReadStore
    /\ \/ /\ req[p].sums \notin DOMAIN sandboxes
          /\ Reply(p, Answer(404)) /\ UNCHANGED loc
       \/ /\ req[p].sums \in DOMAIN sandboxes
          /\ Goto(p, "commitHas") /\ Local(p, [loc[p] EXCEPT !.todo = req[p].sums])

CommitSandboxPut(p) ==
    /\ pc[p] = "commitHas" /\ loc[p].todo = {} /\ Fixed
    /\ PutSandbox(p, "completed")
    /\ Reply(p, Answer(200))

\* HasBlob over the named files, for a manifest put and a sandbox commit.
HasBlob(p) ==
    /\ pc[p] \in {"hasBlob", "commitHas"} /\ Fixed /\ ReadStore
    /\ \E s \in loc[p].todo :
        \/ /\ s \in blobs
           /\ Local(p, [loc[p] EXCEPT !.todo = @ \ {s}]) /\ UNCHANGED <<pc, out>>
        \/ /\ s \notin blobs
           /\ Reply(p, Answer(400)) /\ UNCHANGED loc

-----------------------------------------------------------------------------
(* Putting and deleting manifests, and collecting the files left behind.    *)

PutCookbookVersion(p) ==
    /\ pc[p] = "putCookbookVersion" /\ Fixed /\ ReadStore
    /\ IF validCookbookVersion(req[p].ver) /\ validateCookbookManifest(req[p].body, req[p].api)
       THEN /\ Goto(p, "hasBlob")
            /\ Local(p, [loc[p] EXCEPT !.todo = manifestChecksums(req[p].body)])
       ELSE Reply(p, Answer(400)) /\ UNCHANGED loc

\* putArtifactVersion: "an existing identifier is never overwritten" is checked
\* first; the manifest itself is only checked for its shape.
PutArtifactGet(p) ==
    /\ pc[p] = "putArtifactVersion" /\ Fixed /\ ReadStore
    /\ \/ /\ Key(p) \in Stored
          /\ Reply(p, Answer(409)) /\ UNCHANGED loc
       \/ /\ Key(p) \notin Stored /\ ~checkManifestShape(req[p].body, req[p].api)
          /\ Reply(p, Answer(400)) /\ UNCHANGED loc
       \/ /\ Key(p) \notin Stored /\ checkManifestShape(req[p].body, req[p].api)
          /\ Goto(p, "hasBlob")
          /\ Local(p, [loc[p] EXCEPT !.todo = manifestChecksums(req[p].body)])

\* The manifest a cookbook put is about to replace, read after the uploads
\* were checked.
GetPrevious(p) ==
    /\ pc[p] = "hasBlob" /\ loc[p].todo = {} /\ req[p].op = "putCookbookVersion"
    /\ Fixed /\ ReadStore
    /\ Local(p, [loc[p] EXCEPT !.prev = IF Key(p) \in Stored THEN manifests[Key(p)] ELSE NoDoc])
    /\ Goto(p, "put")

\* What the handler answers once its writes are done.
Finished(p) ==
    IF req[p].op \in PutOps
    THEN [Answer(IF loc[p].prev = NoDoc THEN 201 ELSE 200)
            EXCEPT !.doc = shapeManifest(req[p].body, req[p].api)]
    ELSE [Answer(200) EXCEPT !.doc = shapeManifest(loc[p].prev, req[p].api)]

\* Mutant: an overwrite forgets the files of the manifest it replaced.
PutManifestNoCollect(p) ==
    /\ \/ pc[p] = "put"
       \/ pc[p] = "hasBlob" /\ loc[p].todo = {} /\ req[p].op = "putArtifactVersion"
    /\ Fixed /\ UNCHANGED loc
    /\ StoreManifest(p, req[p].body)
    /\ Reply(p, Finished(p))

PutManifest(p) ==
    /\ \/ pc[p] = "put"
       \/ pc[p] = "hasBlob" /\ loc[p].todo = {} /\ req[p].op = "putArtifactVersion"
    /\ Fixed
    /\ StoreManifest(p, req[p].body)
    /\ LET old == IF loc[p].prev = NoDoc THEN {} ELSE manifestChecksums(loc[p].prev)
       IN /\ Local(p, [loc[p] EXCEPT !.cand = old])
          /\ IF old = {} THEN Reply(p, Finished(p)) ELSE Goto(p, "gc")

\* cookbookVersions, sorted newest first; equal versions in either order.  What
\* the sort leaves is that no two neighbours are out of order, which is a sorted
\* list as long as compareVersions is an order (it is none over mixed segments).
VersionsOf(ks, n) == {k[3] : k \in {k \in ks : k[1] = "cookbooks" /\ k[2] = n}}
NamesIn(ks)       == {k[2] : k \in {k \in ks : k[1] = "cookbooks"}}
NewestFirst(V)    == {s \in SetToSeqs(V) :
                        \A i \in 1..(Len(s) - 1) : compareVersions(s[i], s[i + 1]) >= 0}
cookbookVersions(ks) ==
    {f \in [NamesIn(ks) -> UNION {NewestFirst(VersionsOf(ks, n)) : n \in NamesIn(ks)}] :
        \A n \in NamesIn(ks) : f[n] \in NewestFirst(VersionsOf(ks, n))}

\* resolveVersion: "_latest" becomes the newest stored version.
ResolveVersion(p) ==
    /\ pc[p] \in {"getCookbookVersion", "deleteCookbookVersion"} /\ loc[p].ver = Latest
    /\ Fixed /\ ReadStore
    /\ \/ /\ VersionsOf(Stored, req[p].name) = {}
          /\ Reply(p, Answer(404)) /\ UNCHANGED loc
       \/ /\ VersionsOf(Stored, req[p].name) # {}
          /\ \E vs \in NewestFirst(VersionsOf(Stored, req[p].name)) :
                Local(p, [loc[p] EXCEPT !.ver = vs[1], !.avail = Stored])
          /\ UNCHANGED <<pc, out>>

DeleteManifest(p) ==
    /\ pc[p] \in DeleteOps /\ loc[p].ver # Latest /\ Fixed
    /\ \/ /\ Key(p) \notin Stored
          /\ Reply(p, Answer(404)) /\ ReadStore /\ UNCHANGED loc
       \/ /\ Key(p) \in Stored
          /\ DropManifest(Key(p))
          /\ Local(p, [loc[p] EXCEPT !.prev = manifests[Key(p)],
                                     !.cand = manifestChecksums(manifests[Key(p)])])
          /\ Goto(p, "deleteVersionedACL")

hasVersion(coll, n) == \E k \in Stored : k[1] = coll /\ k[2] = n

\* Mutant: the name's ACL outlives its last version.
DeleteVersionedACLNever(p) ==
    /\ pc[p] = "deleteVersionedACL" /\ Fixed /\ ReadStore /\ UNCHANGED loc
    /\ IF loc[p].cand = {} THEN Reply(p, Finished(p)) ELSE Goto(p, "gc")

\* deleteVersionedACL: a remaining version keeps the name's ACL.
DeleteVersionedACL(p) ==
    /\ pc[p] = "deleteVersionedACL" /\ Fixed /\ ReadStore /\ UNCHANGED loc
    /\ IF ~hasVersion(req[p].coll, req[p].name) THEN Goto(p, "deleteACL")
       ELSE IF loc[p].cand = {} THEN Reply(p, Finished(p))
       ELSE Goto(p, "gc")

DeleteACL(p) ==
    /\ pc[p] = "deleteACL" /\ Fixed /\ Quiet
    /\ acls' = acls \ {<<req[p].coll, req[p].name>>}
    /\ UNCHANGED <<manifests, blobs, sandboxes, loc>>
    /\ IF loc[p].cand = {} THEN Reply(p, Finished(p)) ELSE Goto(p, "gc")

\* referencedChecksums: the keys of one collection, then each manifest, and
\* then the other collection.  gcOrphanedBlobs is done at once when every
\* candidate turns out to be referenced.
Collecting(p, coll, l) ==
    /\ Local(p, l)
    /\ IF coll = "cookbook_artifacts" /\ l.todo = {} /\ l.cand \subseteq l.refs
       THEN Reply(p, Finished(p)) ELSE Goto(p, coll)

GCKeys(p) ==
    /\ Fixed /\ ReadStore
    /\ \E coll \in Colls :
        /\ \/ coll = "cookbooks" /\ pc[p] = "gc"
           \/ coll = "cookbook_artifacts" /\ pc[p] = "cookbooks" /\ loc[p].todo = {}
        /\ Collecting(p, coll, [loc[p] EXCEPT !.todo = {k \in Stored : k[1] = coll}])

\* Mutant: only cookbooks are read: what artifacts name counts for nothing.
GCGetCookbooksOnly(p) ==
    /\ pc[p] \in Colls /\ Fixed /\ ReadStore
    /\ \E k \in loc[p].todo :
        Collecting(p, pc[p], [loc[p] EXCEPT !.todo = @ \ {k}, !.refs = @ \cup
            IF k \in Stored /\ pc[p] = "cookbooks" THEN manifestChecksums(manifests[k]) ELSE {}])

GCGet(p) ==
    /\ pc[p] \in Colls /\ Fixed /\ ReadStore
    /\ \E k \in loc[p].todo :
        Collecting(p, pc[p], [loc[p] EXCEPT !.todo = @ \ {k}, !.refs = @ \cup
            IF k \in Stored THEN manifestChecksums(manifests[k]) ELSE {}])

DeleteBlob(p) ==
    /\ pc[p] = "cookbook_artifacts" /\ loc[p].todo = {} /\ Fixed
    /\ \E s \in loc[p].cand \ loc[p].refs :
        /\ blobs' = blobs \ {s}
        /\ raced' = IF \E r \in near[p] : r.op \in PutOps /\ s \in manifestChecksums(r.body)
                    THEN raced \cup {s} ELSE raced
        /\ Collecting(p, "cookbook_artifacts", [loc[p] EXCEPT !.cand = @ \ {s}])
    /\ UNCHANGED <<manifests, sandboxes, acls, kept, ever, owed, spared, aclRaced>>

\* updateACLPermDoc on a versioned object: it has to exist when looked up.
PutACLCheck(p) ==
    /\ pc[p] = "putACL" /\ Fixed /\ ReadStore /\ UNCHANGED loc
    /\ IF hasVersion(req[p].coll, req[p].name) THEN Goto(p, "storeACL")
       ELSE Reply(p, Answer(404))

PutACL(p) ==
    LET object == <<req[p].coll, req[p].name>>
    IN /\ pc[p] = "storeACL" /\ Fixed /\ UNCHANGED loc
       /\ acls' = acls \cup {object}
       /\ aclRaced' = IF \E r \in near[p] : r.op \in DeleteOps /\ <<r.coll, r.name>> = object
                      THEN aclRaced \cup {object} ELSE aclRaced
       /\ Reply(p, Answer(200))
       /\ UNCHANGED <<manifests, blobs, sandboxes, kept, ever, owed, raced, spared>>

-----------------------------------------------------------------------------
(* Reads.                                                                   *)

\* numVersions: how many versions of each cookbook a list shows.
AllVersions == -1
ValidNum(q)         == q.k \in {"absent", "all", "huge"} \/ (q.k = "int" /\ q.n >= 0)
numVersions(q, def) == CASE q.k = "absent" -> def
                         [] q.k \in {"all", "huge"} -> AllVersions
                         [] q.k = "int" -> q.n

\* collectionListBody: the first of each cookbook's versions.
collectionListBody(f, limit) ==
    [n \in DOMAIN f |-> IF limit >= 0 /\ Len(f[n]) > limit THEN SubSeq(f[n], 1, limit) ELSE f[n]]

\* Every handler that lists versions from one read of the keys.  One cookbook
\* alone is listed whole, and _latest shows the first of each.
ListVersions(p) ==
    /\ pc[p] \in {"listCookbooks", "getCookbook", "cookbooksLatest"}
    /\ Fixed /\ ReadStore
    /\ \/ /\ ~ValidNum(req[p].num)
          /\ Reply(p, Answer(400)) /\ UNCHANGED loc
       \/ /\ ValidNum(req[p].num)
          /\ Local(p, [loc[p] EXCEPT !.avail = Stored])
          /\ \E f \in cookbookVersions(Stored) :
                LET one == [n \in {req[p].name} \cap DOMAIN f |-> f[n]]
                IN IF pc[p] = "getCookbook" /\ DOMAIN one = {} THEN Reply(p, Answer(404))
                   ELSE Reply(p, [Answer(200) EXCEPT !.list =
                          CASE pc[p] = "listCookbooks" ->
                                  collectionListBody(f, numVersions(req[p].num, 1))
                            [] pc[p] = "cookbooksLatest" -> collectionListBody(f, 1)
                            [] OTHER -> collectionListBody(one, AllVersions)])

ListArtifacts(p) ==
    /\ pc[p] \in {"listArtifacts", "getArtifact"} /\ Fixed /\ ReadStore /\ UNCHANGED loc
    /\ LET shown == {k \in Stored : /\ k[1] = "cookbook_artifacts"
                                    /\ pc[p] = "getArtifact" => k[2] = req[p].name}
       IN IF pc[p] = "getArtifact" /\ shown = {} THEN Reply(p, Answer(404))
          ELSE Reply(p, [Answer(200) EXCEPT !.got = shown])

\* getCookbookVersion, once resolved, and getArtifactVersion.
GetManifest(p) ==
    /\ pc[p] \in {"getCookbookVersion", "getArtifactVersion"} /\ loc[p].ver # Latest
    /\ Fixed /\ ReadStore /\ UNCHANGED loc
    /\ IF Key(p) \in Stored
       THEN Reply(p, [Answer(200) EXCEPT !.doc = shapeManifest(manifests[Key(p)], req[p].api),
                                         !.got = {manifests[Key(p)]}])
       ELSE Reply(p, Answer(404))

-----------------------------------------------------------------------------
(* What an environment allows, and the dependency solver.                   *)

\* envConstraints: _default exists without being stored.
GetEnvironment(p) ==
    /\ pc[p] \in EnvOps /\ Fixed /\ ReadStore /\ UNCHANGED loc
    /\ LET checked == pc[p] \in {"envCookbooks", "envCookbook"}
       IN IF checked /\ ~ValidNum(req[p].num) THEN Reply(p, Answer(400))
          ELSE IF req[p].env \in DOMAIN Environments \cup {"_default"}
          THEN Goto(p, "envKeys") ELSE Reply(p, Answer(404))

ConstraintOn(env, n) ==
    IF env \in DOMAIN Environments /\ n \in DOMAIN Environments[env]
    THEN Environments[env][n] ELSE Anything

\* filteredCookbookVersions, as a restriction of the stored keys.
filteredCookbookVersions(env) ==
    {k \in Stored : /\ k[1] = "cookbooks"
                    /\ satisfiesConstraint(k[3], ConstraintOn(env, k[2]))}

\* The keys of the newest versions of a choice of orders.
Heads(f) == {<<"cookbooks", n, f[n][1]>> : n \in DOMAIN f}

\* cookbookFromRunListItem: roles are ignored.
RunListNames(p) == {i.name : i \in {i \in req[p].runList : i.kind # "role"}}

EnvKeys(p) ==
    /\ pc[p] = "envKeys" /\ Fixed /\ ReadStore
    /\ \E f \in cookbookVersions(filteredCookbookVersions(req[p].env)) :
        LET l == [loc[p] EXCEPT !.avail = Stored]
            one == [n \in {req[p].name} \cap DOMAIN f |-> f[n]]
        IN CASE req[p].op = "envCookbooks" ->
                  /\ Local(p, l)
                  /\ Reply(p, [Answer(200) EXCEPT !.list =
                                 collectionListBody(f, numVersions(req[p].num, 1))])
             [] req[p].op = "envCookbook" ->
                  /\ Local(p, l)
                  /\ IF DOMAIN one = {} THEN Reply(p, Answer(404))
                     ELSE Reply(p, [Answer(200) EXCEPT !.list =
                             collectionListBody(one, numVersions(req[p].num, AllVersions))])
             [] req[p].op = "envRecipes" ->
                  /\ Local(p, [l EXCEPT !.todo = Heads(f)])
                  /\ IF Heads(f) = {} THEN Reply(p, Answer(200)) ELSE Goto(p, "readEach")
             [] OTHER ->
                  /\ Local(p, [l EXCEPT !.todo = Heads(f), !.queue = RunListNames(p)])
                  /\ IF RunListNames(p) = {} THEN Reply(p, Answer(200)) ELSE Goto(p, "solve")

\* Mutant: dependencies of the chosen manifest are forgotten.
SolveShallow(p) ==
    /\ pc[p] = "solve" /\ Fixed /\ ReadStore
    /\ \E n \in loc[p].queue :
        LET k == CHOOSE k \in loc[p].todo : k[2] = n
        IN IF ~(\E c \in loc[p].todo : c[2] = n) \/ k \notin Stored
           THEN Reply(p, Answer(412)) /\ UNCHANGED loc
           ELSE LET l == [loc[p] EXCEPT !.got = @ \cup {<<k, manifests[k]>>}, !.queue = @ \ {n}]
                IN /\ Local(p, l)
                   /\ IF l.queue = {} THEN Reply(p, [Answer(200) EXCEPT !.got = l.got])
                      ELSE Goto(p, "solve")

\* envCookbookVersions' loop: take a cookbook that is not solved yet, its
\* newest allowed version, and queue what that version depends on.
Solve(p) ==
    /\ pc[p] = "solve" /\ Fixed /\ ReadStore
    /\ \E n \in loc[p].queue :
        LET k == CHOOSE k \in loc[p].todo : k[2] = n
        IN IF ~(\E c \in loc[p].todo : c[2] = n) \/ k \notin Stored
           THEN Reply(p, Answer(412)) /\ UNCHANGED loc
           ELSE LET got == loc[p].got \cup {<<k, manifests[k]>>}
                    solved == {g[1][2] : g \in got}
                    l == [loc[p] EXCEPT !.got = got, !.queue =
                            (@ \cup manifestDependencies(manifests[k])) \ solved]
                IN /\ Local(p, l)
                   /\ IF l.queue = {} THEN Reply(p, [Answer(200) EXCEPT !.got = got])
                      ELSE Goto(p, "solve")

\* Mutant: the universe, too, is made of the newest versions only.
ReadKeysNewest(p) ==
    /\ pc[p] \in {"universe", "cookbookRecipes"} /\ Fixed /\ ReadStore
    /\ \E f \in cookbookVersions(Stored) :
        IF pc[p] = "cookbookRecipes" /\ ~ValidNum(req[p].num)
        THEN Reply(p, Answer(400)) /\ UNCHANGED loc
        ELSE /\ Local(p, [loc[p] EXCEPT !.todo = Heads(f), !.avail = Stored])
             /\ IF Heads(f) = {} THEN Reply(p, Answer(200)) ELSE Goto(p, "readEach")

\* universe and _recipes: the keys, and then each manifest that is still there.
ReadKeys(p) ==
    /\ pc[p] \in {"universe", "cookbookRecipes"} /\ Fixed /\ ReadStore
    /\ \E f \in cookbookVersions(Stored) :
        LET ks == IF pc[p] = "universe" THEN {k \in Stored : k[1] = "cookbooks"} ELSE Heads(f)
        IN IF pc[p] = "cookbookRecipes" /\ ~ValidNum(req[p].num)
           THEN Reply(p, Answer(400)) /\ UNCHANGED loc
           ELSE /\ Local(p, [loc[p] EXCEPT !.todo = ks, !.avail = Stored])
                /\ IF ks = {} THEN Reply(p, Answer(200)) ELSE Goto(p, "readEach")

ReadEach(p) ==
    /\ pc[p] = "readEach" /\ Fixed /\ ReadStore
    /\ \E k \in loc[p].todo :
        LET l == [loc[p] EXCEPT !.todo = @ \ {k}, !.got =
                    IF k \in Stored THEN @ \cup {<<k, manifests[k]>>} ELSE @]
        IN /\ Local(p, l)
           /\ IF l.todo = {} THEN Reply(p, [Answer(200) EXCEPT !.got = l.got])
              ELSE Goto(p, "readEach")

-----------------------------------------------------------------------------

Step(p) ==
    \/ PutFile(p) \/ GetFile(p)
    \/ CreateSandboxHas(p) \/ CreateSandboxPut(p)
    \/ CommitSandboxGet(p) \/ CommitSandboxPut(p)
    \/ HasBlob(p) \/ PutCookbookVersion(p) \/ PutArtifactGet(p)
    \/ GetPrevious(p) \/ PutManifest(p)
    \/ ResolveVersion(p) \/ DeleteManifest(p) \/ DeleteVersionedACL(p) \/ DeleteACL(p)
    \/ GCKeys(p) \/ GCGet(p) \/ DeleteBlob(p)
    \/ PutACLCheck(p) \/ PutACL(p)
    \/ ListVersions(p) \/ ListArtifacts(p) \/ GetManifest(p)
    \/ GetEnvironment(p) \/ EnvKeys(p) \/ Solve(p)
    \/ ReadKeys(p) \/ ReadEach(p)

\* The bound on requests is used up; nothing is left in flight.
Done == served = MaxRequests /\ Busy = {} /\ UNCHANGED vars

Next == (\E p \in Procs : Begin(p) \/ Step(p) \/ StoreError(p)) \/ Done

Spec == Init /\ [][Next]_vars

-----------------------------------------------------------------------------
(* Properties.                                                              *)

\* Every variable has its type; a manifest is stored under one of the two
\* collections, and a sandbox is a set of checksums.
TypeOK ==
    /\ \A k \in Stored : /\ k[1] \in Colls
                         /\ manifestChecksums(manifests[k]) \subseteq Sums
    /\ blobs \subseteq Sums
    /\ sandboxes \in [DOMAIN sandboxes -> {"open", "completed"}]
    /\ DOMAIN sandboxes \subseteq SUBSET Sums
    /\ req \in [Procs -> Requests]
    /\ \A p \in Procs : /\ loc[p].cand \subseteq Sums /\ loc[p].refs \subseteq Sums
                        /\ out[p].st \in {0, 200, 201, 400, 404, 409, 412, 500}
    /\ served \in 0..MaxRequests /\ errors \in 0..MaxErrors

\* The files of every stored manifest are in the file store: gcOrphanedBlobs
\* may only take one away while a put of a manifest that names it is in flight.
FilesPresent ==
    \A k \in Stored : manifestChecksums(manifests[k]) \subseteq blobs \cup raced

\* When nothing is in flight, no file outlives its last manifest, unless a
\* store call failed between the two or a put replaced a manifest that was
\* stored after it had looked for one to replace.
NoLeak ==
    Busy = {} => (owed \cap blobs) \ Referenced(manifests) \subseteq spared

\* "Content shared with another version/artifact survives" a collection
\* (gcOrphanedBlobs): the files of a stored manifest are in the file store.
SharedFilesSurvive ==
    \A k \in Stored : manifestChecksums(manifests[k]) \subseteq blobs

\* Once a manifest is gone "its now-orphaned content becomes unavailable"
\* (gcOrphanedBlobs): when nothing is in flight and no store call has failed, no
\* file is left that only removed manifests named.
OrphansCollected ==
    Busy = {} /\ errors = 0 => owed \cap blobs \subseteq Referenced(manifests)

\* "An existing identifier is never overwritten" (putArtifactVersion).
ArtifactsImmutable ==
    [][\A k \in Stored \cap DOMAIN manifests' :
          k[1] = "cookbook_artifacts" => manifests'[k] = manifests[k]]_vars

\* deleteVersionedACL: when nothing is in flight, a stored ACL belongs to a
\* name with a version, so that no later upload inherits it; an ACL update
\* that overlaps the delete, or a failed delete, is the only way around it.
ACLsOfTheLiving ==
    Busy = {} => \A a \in acls : hasVersion(a[1], a[2]) \/ a \in aclRaced

\* Lists and _latest show the newest versions the environment admits, newest
\* first and no more than asked for, by the numeric order of the reference, which
\* says nothing of a version with a segment that is no integer.
NewestShown ==
    \A p \in Procs \ Busy :
        LET env == IF req[p].op \in EnvOps THEN req[p].env ELSE "_default"
            allowed(n) == {v \in VersionsOf(loc[p].avail, n) : Admits(ConstraintOn(env, n), v)}
            limit == CASE req[p].op \in {"listCookbooks", "envCookbooks"} -> numVersions(req[p].num, 1)
                       [] req[p].op = "envCookbook" -> numVersions(req[p].num, AllVersions)
                       [] req[p].op = "cookbooksLatest" -> 1
                       [] OTHER -> AllVersions
        IN out[p].st = 200 =>
           /\ \A n \in DOMAIN out[p].list :
                LET s == out[p].list[n]
                IN /\ ToSet(s) \subseteq allowed(n)
                   /\ \A i, j \in DOMAIN s : i < j => ~Newer(s[j], s[i])
                   /\ \A v \in allowed(n) \ ToSet(s), w \in ToSet(s) : ~Newer(v, w)
                   /\ Len(s) = IF limit = AllVersions THEN Cardinality(allowed(n))
                               ELSE Min({limit, Cardinality(allowed(n))})
           /\ (req[p].op = "getCookbookVersion" /\ req[p].ver = Latest)
                => \A v \in VersionsOf(loc[p].avail, req[p].name) : ~Newer(v, loc[p].ver)

\* A solution holds the run list's cookbooks and, recursively, what the chosen
\* manifests depend on, each in the newest version the environment admits; a
\* 412 means a cookbook without an admitted version, or a version deleted
\* since the versions were listed.
SolverSound ==
    \A p \in Procs \ Busy :
        LET solved == {g[1][2] : g \in out[p].got}
            admitted(n) == {v \in VersionsOf(loc[p].avail, n) :
                              Admits(ConstraintOn(req[p].env, n), v)}
        IN req[p].op = "envCookbookVersions" =>
           /\ out[p].st = 200 =>
                /\ RunListNames(p) \subseteq solved
                /\ \A g \in out[p].got :
                     /\ manifestDependencies(g[2]) \subseteq solved
                     /\ g[1][3] \in admitted(g[1][2])
                     /\ \A v \in admitted(g[1][2]) : ~Newer(v, g[1][3])
                /\ Cardinality(solved) = Cardinality(out[p].got)
           /\ out[p].st = 412 =>
                \/ \E n \in loc[p].queue : admitted(n) = {}
                \/ \E k \in loc[p].avail : k \notin kept[p]

\* A manifest is shown in the shape of the client's API version with nothing
\* lost and nothing moved to another segment.
ShapesAgree ==
    \A p \in Procs \ Busy :
        out[p].doc # NoDoc =>
            LET source == CASE req[p].op \in PutOps    -> {req[p].body}
                            [] req[p].op \in DeleteOps -> {loc[p].prev}
                            [] OTHER                   -> out[p].got
            IN /\ checkManifestShape(out[p].doc, req[p].api)
               /\ \A m \in source : Content(out[p].doc) = Content(m)

\* The universe holds every cookbook version stored throughout the request
\* and nothing that was not stored at some moment of it.
UniverseIsCurrent ==
    \A p \in Procs \ Busy :
        (req[p].op = "universe" /\ out[p].st = 200) =>
            LET shown == {g[1] : g \in out[p].got}
            IN /\ {k \in kept[p] : k[1] = "cookbooks"} \subseteq shown
               /\ shown \subseteq ever[p]

=============================================================================
