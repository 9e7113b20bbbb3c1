# cinc-server-ng in TLA+

Specifications of the parts of cinc-server-ng (a Go implementation of the Chef
Infra Server API) whose correctness depends on interleavings, failures and
caches, with TLC configurations that check small instances and TLAPS proofs for
instances of any size.

## The system

One process serves HTTP. Every request is a goroutine that is authenticated
(`server/auth.go`), authorized against ACLs and group membership
(`internal/api/authz_enforce.go`), and handled (`internal/api/*.go`). Handlers
read and write opaque JSON documents through `internal/store`, which sits on a
memory or a SQLite backend and reports each committed write to in-memory indexes
derived from the data. Handlers make several store calls each and, but for one
mutex, nothing orders them against each other.

| component | state | operations | what is hard |
|---|---|---|---|
| group membership | group documents, member rows, associations, invitations | create, update and delete a group; associate and dissociate a user; invite, rescind, respond; create and delete an actor | read-modify-write against revocation, a grant in two writes, partial failure |
| authorization index | one reverse index per organization, stamped with a generation | get (build, use), observe (patch, drop) | built lazily while the data changes |
| store and write stream | a generation counter, a list of observers | Create, Put, Delete, Tx, note | a write lands before it is reported |
| SQLite backend | three tables, a writer connection, the coalescer's queue | Put, Create, Delete, blobs, organizations, Tx, Close | batches, retries, shutdown |
| memory backend | maps under one lock | the same | a rollback discards concurrent writes |
| search | one index per searched collection | get, observe, query | events out of order, a failed build |
| cookbooks and blobs | manifests, file contents | upload, put, delete, collect | collection against upload |
| policies | revisions, groups that deploy them | put, delete, deploy | a sweep against a deployment |
| actors, keys, passwords | actor documents, key rows, password hashes | create, update, delete, rotate | unlocked read-modify-write |
| ACLs | ACL documents | update a permission, remove a name | unlocked read-modify-write |
| organizations, bootstrap | the organization's row, metadata, validator key | create (one transaction), delete | a crash between two steps |
| objects, data bags, environments | documents, containers of items | CRUD, depsolving | an item created in a deleted bag |
| authentication, JSON, run lists, import, metrics, tools | | | conversions, cryptography and I/O |

What makes each correct, in a line: *membership*: a revocation is complete and
stays; *index*: it never grants what was revoked before the request nor denies
what was granted before it; *store*: a write takes effect at one instant and is
reported once; *backend*: a call returns what happened, and returns; *search*:
the index converges to the collection; *blobs*: a stored manifest has its files;
*policies*: a deployment names a revision that exists; *actors, ACLs*: an update
neither loses another nor revives what was deleted.

`PROJECT.json` lists every component with its status, and under `hazards` the
places in the code that are exposed, with the properties that would catch each.

## Modules

    Membership <- MCMembership, MembershipProofs
    Statements <- AtomicStore
    Statements <- GroupCommit <- MCGroupCommit, GroupCommitProofs   (GroupCommit implements AtomicStore)
    CookbookVersions <- Manifests <- Cookbooks <- MCCookbooks, CookbooksProofs
    SearchQuery <- SearchIndex <- MCSearch, SearchIndexProofs
    Enforcement <- Access <- MCAccess, AccessProofs
    Backend <- Catalog <- MCCatalog, CatalogProofs <- CatalogRestProofs
    InductionLemmas <- GroupCommitProofs, SearchIndexProofs

`<-` reads "is extended by". In each of the last four lines the modules on the
left are definitions without state (versions, manifests, the query language, ACL
tables and request classification, the operations of a store), the module before
the MC module is the state machine of the handlers, and the MC module holds only
constants: what is stored at the start and the requests on offer.

The four state machines share a form. `pc`, `req`, `loc` and `out` are a
goroutine's next store call, its request, its locals and its answer. Every store
call of a handler is a step of its own, taken with whatever the earlier steps read,
and any of them may fail (`StoreError`), after which the handler returns with its
earlier writes done. None of these handlers holds a lock over several calls, apart
from creating and deleting an actor (in `Access`), so a property that overlapping
requests can break says exactly which overlap breaks it. That is recorded in
history variables (`near`, `frayed` and the like), which no action reads: outside
the named overlaps the property is unconditional.

### Membership

The groups of one organization, and the index every authorization check uses.

| variable | in the code |
|---|---|
| `actors`, `assoc`, `invites` | the clients and global users, the organization's associations and association requests |
| `groups`, `listed`, `rows` | group documents, the members they list, the `group_members` rows |
| `gen` | `store.groupsGen` |
| `cached`, `idx`, `cmu`, `build` | the installed `groupIndex`, `groupIndexCache.mu` and the index being built under it |
| `pc`, `req`, `held` | a goroutine: its next store call, its request, the index that `get` gave it |
| `holds` | who holds `API.membership`, and how |
| `ev` | a write that has landed and is not yet reported (`Org.note`) |
| `may`, `must`, `ever` | history of the check in progress, used by properties only |

Every store call of a handler is a step, every write is followed by a step that
reports it, and any store call may fail (`StoreError`), after which the handler
returns with its earlier writes done. `API.membership` is a `sync.RWMutex` with
Go's writer preference. Reads that run together under the exclusive lock are one
step, since nothing can write between them. A group document is a set of members,
and an actor that a document lists twice is listed once. Whether a client is a
validator, what an invitee answers and whether the inviter is still authorized
are free choices. `PutGroup` may carry a *preread*: the document authorization
read before the handler ran, which the handler's later existence checks return.
ACLs, keys and passwords are other collections and in `Access`, with the cleanup
steps of deletes that touch only them.

`GroupsOf` is `groupIndex.membership`: the code walks a queue, the definition says
which set it computes (the least one closed under nesting). The walk itself is not
modelled.

Properties (`run membership`):

- `IndexSandwich`: an index that `get` would accept contains every membership
  that is stored and reported, and nothing that is not stored, except what a
  write still unreported removed. This is the claim of `noteWrite`'s comment
  ("the cache can never latch onto stale data") and of `get`'s (no row written
  during a rebuild is lost).
- `CheckSandwich`: what a check decides on contains all that held throughout the
  check, and only what held, or was being revoked, at some moment of it.
- `ClientRowsNameClients`, `CleanDelete`, `AdminsStay`: no row outlives its client,
  deleting an actor leaves no membership of it, a (transitive) admin is not
  dissociated.
- `UpdatesAreIsolated`: between a group update's read of the membership and its write,
  no member that it is going to write is deleted or dropped from the organization and
  nobody else changes the group. There is then no revocation for the write to undo,
  which is what `groupmembers.go` has the lock for.

Bounds: two goroutines, three requests of any of the eleven kinds, one client,
one user, three groups of which one can nest another. Two goroutines are enough
for every two-party race, the third request lets something act on what the race
left; a reader, a builder and a writer take turns on the two goroutines.

### Statements, AtomicStore, GroupCommit

`Statements` gives the effect and the report of each write operation on the
rows of one organization. `AtomicStore` is the promise of `store.Backend`: each
write takes effect at one instant of its call, reports what it found then, and
has no effect if it returns an error. `GroupCommit` is how the SQLite backend does
it: the coalescing writer (`Coalescing = TRUE`), or direct statements that each
commit (`FALSE`), with `Tx` beside both, over a single writer connection, and
with `Close` at any moment, as `Server.Stop` does when its deadline passes.

| variable | in the code |
|---|---|
| `db`, `tx`, `conn` | committed rows; rows as the open transaction sees them; who has the writer pool's connection |
| `pc`, `call`, `got`, `ans` | a caller: where it is, what it asked, what its `Delete` read, what it got |
| `ch`, `loop` | the coalescer's channel; its goroutine's position, batch, job, results |
| `closed`, `shut` | `close(c.ch)` done; the pools closed |
| `seen` | history: the values a direct caller's row held during its call |

SQLite itself is external: transactions are atomic, and a failed begin, statement
or commit leaves the committed rows as they were. The read operations change
nothing; the only one modelled is the read inside `Delete`.

Properties:

- `Atomic` (`run groupcommit`): GroupCommit implements AtomicStore, where a
  batch's answers count as decided when it commits, before they are delivered.
- `DeletesReportOnce`: two Deletes never report the same stored value.
- `Answered`: while the store is open every call returns.
- `QuietClose`: a close that finds an empty queue ends the coalescer, after the
  batch it is running.
- `ReportsWereTrue` (`run directwrites`): what the direct path still guarantees.

Bounds: three callers that make one call each (a later caller sees what an
earlier one left), one object, the organization's row and, in the direct run, a
blob; a channel of two, so that a sender blocks. `MaxNils` bounds the count of
nil jobs in a batch, of which one is as good as many. The coalescer handles put
and deleteOrg like the other jobs, so the group-commit run leaves them to the
direct run to keep its liveness check small.

Fairness: weak fairness of the coalescer, of each caller's own steps and of the
pools' closing, i.e. a goroutine that can run eventually does. Nobody is obliged
to call, nor to close. Since each caller calls once, weak fairness also covers
the wait for the connection; `database/sql` hands it to waiting requests.

### CookbookVersions, Manifests, Cookbooks

`CookbookVersions` is `compareVersions`, the constraints and their validity checks;
a version is a sequence of segments, each with its text and, if it is one, its
integer. `Manifests` is the two shapes of a manifest (by segment, and `all_files`)
and the conversions between them. `Cookbooks` has the sandboxes, uploads, manifests
and artifacts of one organization and the endpoints that read them.

| variable | in the code |
|---|---|
| `manifests`, `acls` | the collections `cookbooks` and `cookbook_artifacts`, keyed by name and version, and the stored ACLs of their names |
| `blobs`, `sandboxes` | uploaded checksums; open and committed sandboxes |
| `near`, `kept`, `ever` | history of a request: others in flight, manifests stored throughout it, manifests stored at some moment of it |
| `owed`, `raced`, `spared`, `aclRaced` | history: checksums whose collection is due, was raced by a put, or was cut short; ACLs written during a delete |

Properties (`run cookbooks`):

- `FilesPresent`: a stored manifest has its files. The collector lists references
  and deletes later, so a put in between can lose a file; the property says that
  this is the only way.
- `NoLeak`, `ACLsOfTheLiving`: at rest no file and no ACL outlives the last manifest
  that needs it, but for failures and the overlaps named there.
- `NewestShown`: every list and `_latest` is in numeric order and admitted by the
  environment. The order is stated independently of `compareVersions`, which is an
  order only over segments that are integers, and says nothing of other versions,
  which the repository loader stores as it finds them.
- `SolverSound`: a solution is closed under dependencies and newest; a refusal has a
  cause.
- `ShapesAgree`: conversion between the shapes loses and moves nothing.
- `UniverseIsCurrent`: a read in many calls holds what was stored throughout and
  nothing that never was.

Bounds: two goroutines, two requests, one store error, three seed populations
(uploads only; several versions of two cookbooks; a cookbook and an artifact that
share a file). Versions 9, 10, 9.1 and 10.0 separate numeric from textual order.
Environments are constant: other handlers write them.

Three small instances of the same module check what the code's comments say without
the exceptions of `FilesPresent` and `NoLeak`, and of artifacts, and expect a violation:
`SharedFilesSurvive` (`CookbooksShared.cfg`), `OrphansCollected` (`CookbooksOrphans.cfg`)
and `ArtifactsImmutable` (`CookbooksArtifact.cfg`).

### SearchQuery, SearchIndex

`SearchQuery` is the query language: documents merged by precedence level and
flattened to terms, the parser from its tokens on, the evaluator, the planner, and,
as the reference, what a query's tokens mean. A query is compiled to postfix code,
so that evaluation is a fold. `SearchIndex` is one collection, its index and the
write stream between them.

| variable | in the code |
|---|---|
| `docs`, `hidden` | the collection; the documents the searcher's ACLs exclude |
| `registry`, `idx` | `searchIndexes.m`; the index objects, each with its lock |
| `cache` | `searchCache`: the merged view of a document, by id and content |
| `crossed`, `touched`, `snap` | history: ids with two unreported writes; ids in flux during a request; the store when it began |

A write lands, and its report is a later step of the goroutine that wrote. `Commit`
is a store transaction, whose reports are buffered; deleting the organization drops
the index.

Properties (`run search`):

- `IndexCurrent`: once every write is reported, the index is the collection, except
  for ids whose writes overlapped: reports are applied in the order they arrive, which
  need not be the order of the writes, so two unordered writes of one document can
  leave the older one in the index until the next write.
- `RegisteredIsWhole`: an index that can be found was built from a complete read.
- `ExactResults`: a search returns what the query means, of what the actor may read,
  for every document left alone during the search. The exception it names is an
  index obtained before its build failed: it was taken out of the registry, but
  those who were waiting for its lock read it as it is.
- `PlanAgrees`: the planner and the evaluator agree ("the two must agree exactly").
- `PageExact`: the window is right for any `start` and `rows`, with ints that wrap at
  `MaxInt`, and projections come from the row's own document.

Bounds: two goroutines, three requests, one store error, five ids (`NumIds`), four
contents of a document (`Documents`) of which one does not decode, and three index objects (one dropped, one failed, one alive).
`Bulk` and `MaxCache` are 1, so that both ways of filtering and an overflowing cache
occur. Left out: the lexer, data bag indexes, the scan for queries without a plan. The
cache operations of one request are one step (`Page`), so the bound on the cache is
exact; in the code requests that store views at the same moment can pass it briefly.

Without the exceptions of `IndexCurrent` and `ExactResults` these are
`IndexKeptCurrent` (`SearchOrder.cfg`: two puts of one node and a search) and
`NothingHalfBuiltTrusted` (`SearchHalfBuilt.cfg`: two searches and a failing build), which
expect a violation.

### Enforcement, Access

`Enforcement` is the ACL policy (which ACL an object has when none is stored), the
classification of a request by method and path into what it needs, and the list of
writes that stay open. `Access` is a request's whole way: authentication (the actor's
record, then its key rows), classification, the existence and ACL checks, and the
handlers of actors, keys, ACLs and passwords.

| variable | in the code |
|---|---|
| `actors`, `rows` | actor documents with their own public key and admin flag; the key rows |
| `acls`, `passwords`, `member` | stored ACLs; password rows; group membership, as pairs |
| `readers`, `writer` | `API.membership` |
| `near`, `frayed`, `failed`, `byAdmin`, `valid` | history: overlapping requests; names that overlapping or failed writes were about; whether a trusted key was used; keys listed for the requester during its request |

A key is a name; that a signature verifies is equality of keys. Group membership has
its detail in `Membership`; here deletions only have to clear it.

Properties (`run access`):

- `KeysAuthenticate`: a request runs as an actor only with a key that the keys API
  listed at some moment of it. Two exemptions are named, each of two other writes to
  the actor during the request: a write that rotates the default key and one that
  removes its row (`Swapped`) let the key of the record, read before both, sign although
  the row hid it all along; and writes that overlapped each other (`Troubled`) may leave
  a row without its actor, or an actor whose own key is not the row's.
- `NoEscalation`: unless a trusted key was used, no sequence of requests, overlaps
  and failures makes a superuser, changes a trusted user's keys, loosens who may
  grant on the organization, or gets a guarded request answered.
- `DefaultInStep`: the default key, which is in the actor's document and in a row, is
  the same in both.
- `KeyWritesTake`: a key operation that succeeded has happened. A PUT answered 201 has
  renamed the key: the old name shows nothing, the new one what the body brought, if
  either name is the default too (the last write is then the one to the actor's
  document, at `pc` `"setNewPub"`, which answers 201 as `keys.go` does).
- `NothingInherited`, `NoRevival`: no key, ACL or membership outlives a deleted actor, and
  how one can come back.
- `ACLUpdatesKept`: an update of one permission leaves the others, unless it overlaps
  another, and the admins keep the grant permission.

Four small instances check what comments say without these exceptions and expect a
violation: `OneActorPerName` (`AccessNames.cfg`), `NewUserNewPassword` (`AccessPasswords.cfg`: no
handler deletes a password row, so a user created again under the name has the old
password; it is no part of `NothingInherited`), `OnePermissionAtATime` (`AccessACLs.cfg`)
and `SignedByListed` (`AccessStaleKey.cfg`). Modelling also showed that a key
operation writes back the record it read, and with it an admin flag revoked meanwhile,
and that a user update stores the default key again that it read; both need an
overlap, which the properties exempt by name.

Bounds: two goroutines and one store error over six scenarios, each with its own
requests: three changes of keys in a row; two requests on keys, with a live and with an
expired default key; two on actors; two on ACLs; and one probe of each of 47 paths with
each method by each kind of actor. This run has no type invariant: the records'
shapes are exercised by the properties, all of which read them.

### Backend, Catalog

`Backend` is the store as a value: organizations, and documents keyed by organization,
collection, owner and name. `Catalog` has the handlers that share one hazard, a
container and what refers to it: objects and their ACLs, bags and items, policies and
the groups that deploy them, organizations and their content. It also has the
bootstrap of `server.New`.

| variable | in the code |
|---|---|
| `db`, `durable` | the store; whether it is SQLite (survives a crash, transactions are one step) or memory (transactions are a snapshot and single writes) |
| `boot`, `fresh`, `boots` | the step of `New`, the keys it found missing, how often it ran (which also names the keys it made) |
| `near`, `frayed`, `cut` | history: overlapping requests; what overlapping requests were both about; what a failure cut short |
| `emptied` | history: policies that `deletePolicyRevision` took the last revision of |

Whether the creator of an object gets an ACL of its own depends on enforcement and on
who asks, and is a free choice (`GrantCreator`).

Properties (`run catalog`):

- `DeploymentsExist`: at rest every deployed revision is stored.
- `NothingOrphaned`: at rest every item has its bag, every ACL its object, every
  document its organization, and an organization has metadata exactly if it exists.
  `deletePolicyRevision` of the last revision leaves the policy's ACL, with no overlap
  and no failure; the property excepts it by name (`emptied`), and `NoACLOutlives` is the
  claim without that exception.
- `WritesLast`: a stored document changes only by a request about it. The exemption is
  memory's `Tx`: its failure restores a snapshot of everything, so a refused
  `POST /organizations` undoes whatever other requests wrote meanwhile, another
  organization included, and a deployment that overlaps it can write back a group as it
  was before. The comment in `memory.go` calls the missing isolation "fine
  for the bootstrap use", but the handler uses it for every request.
- `BootKeys`: a server that is up has the keys it needs, and the only crash that keeps a
  server from starting ever again is the one between creating the boot organization
  and storing its validator key. That the boot organization exists and its validator
  has the public key of the one held is claimed for the groups of requests that have
  none to create, update or delete that organization: such a request may well drop it.

Bounds: two goroutines; three requests on memory, two requests and one fault on SQLite,
for each of five groups of requests (objects, bags, policies, organizations, and
deployments while a transaction fails); a start on an empty store and on one with two
organizations of an older version, with two faults and one request. As in `Access`,
there is no separate type invariant.

Three small instances expect a violation of what comments say without the exceptions
for overlaps and for `emptied`: `NoACLOutlives` (`CatalogPolicyACL.cfg`), `DeploymentsGoToo`
(`CatalogDeploy.cfg`) and `ItemsGoToo` (`CatalogItems.cfg`).

The runs of these four modules check safety only and assume no fairness.

## Disagreements between code and comments

Five runs expect a violation; `PROJECT.json` quotes the lines.

| run | the comment | what the run shows |
|---|---|---|
| `membership_undelete` | a concurrent delete is not undone by a group update | the recheck under the lock is answered from the preread, and the group comes back |
| `membership_mixed_index` | an index built during a write is discarded | it is used by the request that built it; documents and rows of different moments nest into a membership nobody ever had |
| `membership_invite` | accepting an invitation leaves no row of a deleted user | an invitation can be stored after the delete dropped the user's invitations |
| `direct_delete` | a removal is reported exactly once | two direct Deletes of one row both report it |
| `groupcommit_close` | close waits for the writer to drain | with a write queued the drain receives nil from the closed channel for ever |

The properties of these runs, but for `DeletesReportOnce`, are checked by them only.

The passing runs name the overlaps and failures that their properties except. Where a
comment makes the claim without the exception, a small instance shows the claim
violated. These instances are kept beside the runs: each refutes one property, in a few
seconds. They have only the requests that meet, on a seed of the component's run (or a
single node, for search), and no failure unless the claim is about one; what they show is
a trace, so no larger bound is needed.

| instance | property | the comment | what it shows |
|---|---|---|---|
| `CookbooksArtifact` | `ArtifactsImmutable` | "an existing identifier is never overwritten" (`cookbook_artifacts.go:105`) | two uploads both find it absent; the second overwrites the first |
| `CookbooksShared` | `SharedFilesSurvive` | "content shared with another version/artifact survives" (`cookbooks.go:771`) | a put checked its file before the delete and lands after the collection's listing |
| `CookbooksOrphans` | `OrphansCollected` | an overwrite "has to collect what those were the last reference to" (`cookbooks.go:557`) | the manifest collected is the one read, not the one replaced |
| `SearchOrder` | `IndexKeptCurrent` | the index is "kept current from the store's write stream" (`searchindex.go:21`) | two reports of one node arrive in the other order than the writes landed |
| `SearchHalfBuilt` | `NothingHalfBuiltTrusted` | "Leave nothing half-built behind for the next caller to trust" (`searchindex.go:226`) | a search that waited for the build gets the index after it failed, and misses a document |
| `AccessNames` | `OneActorPerName` | of a client and a user of one name "the second one must not be created" (`actor.go:83`) | both creates look before either writes |
| `AccessPasswords` | `NewUserNewPassword` | "anything left behind would be inherited by the next actor created under that name" (`actor.go:586`) | the password row is left behind, with no overlap and no failure |
| `AccessACLs` | `OnePermissionAtATime` | "replaces a single permission's ACE" (`acl.go:289`) | of two overlapping updates the second stores the other permission as it read it |
| `AccessStaleKey` | `SignedByListed` | "the RSA public keys it may currently sign with" (`server/auth.go:198`) | the record, read amid a rotation of the default key, and the rows, read after its removal, accept a key that was not on the list |
| `CatalogPolicyACL` | `NoACLOutlives` | "It must not outlive the object it governs" (`acl_lifetime_test.go:30`) | deleting the last revision deletes the policy and not its ACL, with no overlap and no failure |
| `CatalogDeploy` | `DeploymentsGoToo` | "The deployment goes with the policy" (`policies.go:136`) | a deployment saves its group after the sweep |
| `CatalogItems` | `ItemsGoToo` | "Remove the bag's items too" (`databags.go:101`) | an item is created after they were listed |

## Proofs

`MembershipProofs` proves, for any sets of goroutines, actors, groups and request
bodies and any number of requests, every property of `run membership`:

    TypeCorrect, RowsNameClients, UpdatesNotUndoing, DeletesAreClean,
    IndexNeverStale, ChecksAreBounded, AdminsAreNotDissociated

from the assumptions `NamesDisjoint` and `ConstantTypes` of `Membership` (names of
clients, users and groups differ; the seed and the bodies are made of them).

None of the properties is inductive. The strengthening, each part of which TLC
also found to hold on the instance above, is

- `Control`: a goroutine's position determines its operation, how it holds the
  lock, whether it owes a report and whether it holds the cache's lock; with
  `Exclusion` of the `RWMutex`. Its consequence, `Writers`, is that the store
  changes only in a step of a goroutine that holds the lock.
- `DataInv`: at each stage of a revocation, what has been removed so far.
- `IndexInv`: the generation stamped on an index is never ahead of the counter
  (`GenInv`); an unreported write of each kind differs from the index in the
  direction its report will repair (`EventAt`); and the index under construction
  obeys, at each stage of its build, the sandwich that it will be installed with
  (`BuildSandwich`).
- `AdminInv`: an exclusive holder that uses the index has no unreported write
  around it, so for it the sandwich is an equality (`Settled`).
- `CheckInv`: the index that a check holds lies between its histories.

The steps are grouped by what they do to the sandwich (`StepKinds`: leave it,
land a write, report one, take the cache lock, read documents, read rows), and
`LandSandwich` and `NoteSandwich` are proved once for the kind. `GroupsOf` is
monotone (`GroupsOfMonotone`), which is all that `AdminsStay` needs of it.

`GroupCommitProofs` proves, for any callers, rows and capacity of the channel,

    TypeCorrect, GroupCommitIsAtomic, RemovalsReportedOnce, DirectReportsWereTrue

from `RowsDistinct` of `Statements` and `GroupCommitConstants`.

- `Discipline` is the connection's and the queue's: who is where has which call, the
  batch and the channel hold each caller that waits exactly once, and only the holder
  of the connection is inside a transaction.
- `TxAt`: what an open transaction sees is the committed rows after the effects of
  the jobs it has applied, in their order; for the coalescer that is a function on
  `0 .. n`, the run of the batch so far.
- The refinement maps every step to `Outcome`: a call begins, a call fails, a sequence
  of calls takes effect together, or nothing happens. `DecidedIs` says what the mapped
  answers (decided when the batch commits, delivered later) are. The abstract module
  defines the run of a sequence of calls as a recursive function, and that the two
  runs are equal is an induction over the batch.
- `OnceInv` restates "reported once" of the decided answers, which is inductive, and
  `SeenInv` follows what a direct call has seen of its row from step to step.

`InductionLemmas` gets induction over the naturals from well-foundedness in a form
that has no operator parameter: about sets of numbers.

`SearchIndexProofs` proves `NothingHalfBuilt` (`RegisteredIsWhole`) and
`IndexFollowsStore` (`IndexCurrent`) for any number of goroutines, documents, requests
and index objects, from `NaturalBounds`, `Distinct` and `WellFormed`. `Control` says
which locks are held where. The rest of the invariant is about debts: an uncrossed
document has at most one goroutine that owes reports of it, the last of which says
what is stored (`Owed`), and a document of which no report is still to be applied to
the registered index is in it as stored (`Follows`).

`CookbooksProofs` proves, for any manifests, checksums, seeds and requests and any
number of failures,

    TypeCorrect, FilesStayPresent, NoFileLeaks, ACLsGoWithVersions,
    UniverseStaysCurrent

from `BoundsAreNaturals`, `RoutedRequests` and `SoundPopulations` (a request has the
operation its route gives it; the seed has the files of its manifests). Each step is
classified once by its effect on what is stored. `FilesInv` says what a put has
checked, and of each manifest that a collection has been past that its files are
among the references or not among the candidates; `LeakInv` that a file that is due
has a collection at work on it; `ACLInv` what a delete has yet to look at;
`UniverseInv` that what was stored throughout has been read or is still to be read.

`AccessProofs` proves, for any actors, keys, ACLs, scenarios, goroutines and numbers of
requests and failures,

    ActorsNotRevived, NothingIsInherited, UpdatesAreKept, DefaultsAgree,
    KeyWritesEffective, NothingEscalates, SignersAreListed

from `FiniteBounds`, `RoutedRequests` and `SoundScenarios` (the seed is in order:
names are unique, keys and ACL entries belong to actors that exist). The handlers
hold no locks, so the argument is about overlaps. Two requests in flight know of each
other (`Aware`) and have frayed the names they are both about (`Frays`); of a name that
is not frayed, the goroutine that works on it therefore knows what is stored. On this
rest

- `PresentInv`: what an update has found is still there, unless a request that says
  otherwise is near;
- `RowsInv`, `ACLInv`: at each stage of a delete, what it has cleaned and what it has
  on its list, while nothing else names the actor again;
- `KeyInv`: the two copies of a default key agree, except for the one goroutine
  between its two writes, and at each stage of a key operation the row it has
  stored is there;
- `AloneInv`: an ACL update that no other writer of ACLs overlaps has read what is
  stored;
- `Contained`, for `NothingEscalates`: while no trusted key has been used, what is stored
  keeps the trusted users apart (`Sealed`) and what the admins have kept to themselves
  (`ACLsSealed`); whoever has got past authentication is not a trusted user and not a
  superuser, and past authorization only on a request that is not shut to it
  (`Outsider`); and what it is about to store changes none of this (`Harmless`);
- `SigningInv`, for `SignersAreListed`: between the two reads of resolveAuth, the key of
  the record has been listed, or a row hides it (`Holding`), and then it takes a write
  that rotates the key and one that removes the row to make it count again.

`NothingEscalates` also rests on `TrustedStart`. It says what the trust is: the trusted
users exist with keys of their own, nobody else is a superuser or an admin, and each
guarded request is one that the table shuts to others (`Shut`), by what `classifyRequest`
makes of its path and the ACLs at the start. TLC evaluates that for the guarded paths
of the run; that the requests which change records, keys and ACLs are themselves
classified as the argument needs is proved from the table (`UserRoutes`, `ACLRoutes`).

The attempt to prove `KeysAuthenticate` is what showed that its exemption, which used to
count the requests that were near, was too narrow: two equal requests are one element
of `near`.

`CatalogProofs` proves, for any goroutines, requests, groups and content, and any number
of crashes and store errors,

    StartsKeepKeys, WritersLast

from `RoutedRequests` and `SoundScenarios` (a request has the operation its route gives
it; a store that a server left has its keys). Each step is classified once by its effect,
and `Settles` says of every effect but a rollback that it changes only what its request is
about. Then

- `Control`: where a goroutine is tells what it serves, and what is on its list belongs to
  its request; requests in flight know of each other; there are none during a start;
- `ReadInv`: a goroutine that has read a group holds what is stored for every other policy,
  and a snapshot is the store, unless a request about it, or another transaction, is near;
- `KeysInv`: at each step of a start, what it has made and not yet the key for; and what no
  request writes is in a snapshot as in the store, so that a rollback cannot lose a key.

The proof attempt is what showed that a failing transaction can put an older group under
a deployment, which `WritesLast` now names.

`CatalogRestProofs` proves, in the same generality,

    GroupsDeployRevisions, OrphansNothing

from these invariants and `OrderlyScenarios`: the content a scenario starts with is itself
in order, which is what the two properties say of a store at rest before anything has
failed. The inductive invariant is `Rest`, since in flight the store is seldom in order:

- `Tidy`: a deployment without its revision, an item without its bag, an ACL without its
  object and an organization without its metadata are each still on the way of some
  goroutine (`Sweeps`, `Empties`, `Clears`, `Making`: the steps it has left will take them
  out), or excused;
- `Claims`: what a goroutine is about to store fits, because what it read is still there:
  the group it holds deploys what exists, the bag or object it writes for exists, the
  organization is still there, and the snapshot a transaction would restore was in order
  and has the same organizations;
- `Frays`: where another goroutine could have taken any of that away, the two overlapped
  and their overlap was counted when the later one began, so that it is excused.

A step is then compared with every other goroutine's claims (`OthersClaims`), with its own
(`OwnClaims`), and with what it leaves for later (`RestArrives`); a rollback restores an
order that held when the snapshot was taken, which holds again because only an overlapping
request can have come between.

TLC found each of these invariants to hold on the instance of the component's run
before it was proved.

Only model-checked:

- `Answered` and `QuietClose`: liveness, hence fairness and ENABLED, is outside the
  prover.
- `NewestShown`, `SolverSound`, `ShapesAgree`, `PlanAgrees`, `ExactResults`, `PageExact`
  and the type invariant of `SearchIndex`: they say what an algorithm (sorting, the
  solver, conversion, evaluation of postfix code) computes, by folds over its input,
  and a fold has no induction principle that the provers can use.
- The violated properties, which are statements of counterexamples.

## Not modelled

Signatures, digests and key parsing (`internal/auth`); the text of queries, versions,
JSON and run lists (`internal/chefjson`, `internal/runlist`, the lexer of
`internal/search`); loading of repositories and state directories at start; TLS,
listening and draining; metrics, statistics and the status endpoints; the tools under
`cmd/` and the differential tests. These are conversions of text, cryptography,
sequential I/O or counters nothing depends on. The checks of request bodies
(`user_validation.go`, `role_environment_validate.go`, `policy_validate.go`) are a yes or
no that the request carries. SQLite's schema migrations and the upgrade of plain-text
passwords run once, before the server serves.

## Plan

1. *Done*: all modules with their runs; proofs of `Membership`, `GroupCommit` with its
   refinement, the search index, the cookbooks, the actors, and `Catalog` in flight and at
   rest.
2. What is left is the list of hazards without a property, and, if a prover with
   induction over data becomes available, what the folds of the solver and of the query
   evaluation compute.

## Running

    tlc -workers 2 -config Membership.cfg MCMembership      # and the other Membership*.cfg
    tlc -workers 2 -config GroupCommit.cfg MCGroupCommit    # and DirectWrites, DirectDelete, GroupCommitClose
    tlc -workers 2 -config Cookbooks.cfg MCCookbooks        # and CookbooksArtifact, -Shared, -Orphans
    tlc -workers 2 -config Search.cfg MCSearch              # and SearchOrder, SearchHalfBuilt
    tlc -workers 2 -config Access.cfg MCAccess              # and AccessNames, -Passwords, -ACLs, -StaleKey
    tlc -workers 2 -config Catalog.cfg MCCatalog            # and CatalogPolicyACL, -Deploy, -Items
    tlapm MembershipProofs.tla      # and InductionLemmas, GroupCommitProofs, SearchIndexProofs,
                                    # CookbooksProofs, AccessProofs, CatalogProofs,
                                    # CatalogRestProofs

Definitions whose comment begins with "Mutant:" are deliberate mistakes. Each
stands next to the definition it would replace; replacing it makes the property
named in `PROJECT.json` fail.
