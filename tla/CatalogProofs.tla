---------------------------- MODULE CatalogProofs ---------------------------
(***************************************************************************)
(* Proofs about Catalog, for any number of goroutines and requests, any     *)
(* content of the store that is in order at the start, and any number of    *)
(* store errors and crashes.                                                *)
(*                                                                          *)
(* Every step is classified once by what it does to the store (the effects  *)
(* below); the parts of the invariant are proved from that.                 *)
(***************************************************************************)
EXTENDS Catalog, TLAPS

Steps == Ops \cup {"idle", "org", "grantCreator", "storeObject", "deleteACL", "storeACL", "listBag",
                   "deleteItems", "inBag", "storeItem", "deleteRevisions", "listGroups", "loadGroups",
                   "saveGroups", "deployLoad", "saveGroup", "getDeployed", "found", "provision",
                   "rollback", "storeMeta", "deleteOrg"}
LocFields == {"todo", "key", "step", "group", "snap"}
IsStore(d) == DOMAIN d = {"orgs", "docs"}

-----------------------------------------------------------------------------
(* The inductive invariant.                                                 *)

Typed ==
    /\ pc \in [Procs -> Steps] /\ req \in [Procs -> offered]
    /\ \E s \in Scenarios : offered = s.requests
    /\ DOMAIN loc = Procs /\ DOMAIN near = Procs
    /\ \A p \in Procs : DOMAIN loc[p] = LocFields /\ IsStore(loc[p].snap)
    /\ IsStore(db)

\* Where a goroutine is tells what it serves.
Stage(p) ==
    LET at == pc[p]  op == req[p].op
    IN /\ at \in Ops => at = op
       /\ at = "grantCreator" => op = "createObject"
       /\ at = "storeObject" => op = "putObject"
       /\ at = "deleteACL" => op \in {"deleteObject", "deleteDataBag", "deletePolicy", "deleteGroup"}
       /\ at = "storeACL" => op = "putACL"
       /\ at \in {"listBag", "deleteItems"} => op = "deleteDataBag"
       /\ at = "inBag" => op \in ItemOps
       /\ at = "storeItem" => op = "putItem"
       /\ at = "deleteRevisions" => op = "deletePolicy"
       /\ at \in {"listGroups", "loadGroups", "saveGroups"} => op \in {"deletePolicy", "deleteRevision"}
       /\ at = "deployLoad" => op = "deployPolicy"
       /\ at = "saveGroup" => op \in {"deployPolicy", "undeployPolicy"}
       /\ at = "getDeployed" => op \in {"getGroupPolicy", "undeployPolicy"}
       /\ at \in {"found", "provision", "rollback"} => op = "createOrganization"
       /\ at = "storeMeta" => op = "putOrganization"
       /\ at = "deleteOrg" => op = "deleteOrganization"

\* The documents a delete has on its list, and the step of a plan.
IsIn(k, org, coll) == k[1] = org /\ k[2] = coll
Listed(p) ==
    LET r == req[p]  l == loc[p]
    IN /\ pc[p] = "deleteItems" => \A k \in l.todo : IsIn(k, r.org, "databag_items") /\ k[3] = r.name
       /\ pc[p] = "deleteRevisions" => \A k \in l.todo : IsIn(k, r.org, "policy_revisions") /\ k[3] = r.name
       /\ pc[p] \in {"loadGroups", "saveGroups"} => \A k \in l.todo : IsIn(k, r.org, "policy_groups")
       /\ pc[p] = "saveGroups" => IsIn(l.key, r.org, "policy_groups")
       /\ pc[p] = "provision" => l.step \in 1 .. 5

\* Requests in flight together know of each other, and there are none while
\* the server starts.
Aware == \A p, q \in Busy : p # q => req[p] \in near[q]
Quiet == boot # "up" => Busy = {}

Control == Typed /\ (\A p \in Procs : Stage(p) /\ Listed(p)) /\ Aware /\ Quiet

\* A goroutine that has read a group holds of the other policies what is
\* stored, unless it was crossed.
Crossed(p, k) == \E r \in near[p] : Writes(r, k) \/ r.op = "createOrganization"
Carries(g, k, x0) ==
    k \in DOMAIN db.docs =>
        \A x \in DOMAIN db.docs[k] \ {x0} : x \in DOMAIN g /\ g[x] = db.docs[k][x]
Group(p) == IF pc[p] = "saveGroups" THEN loc[p].key ELSE GroupKey(req[p])
GroupRead(p) ==
    pc[p] \in {"getDeployed", "saveGroup", "saveGroups"} =>
        Crossed(p, Group(p)) \/ Carries(loc[p].group, Group(p), req[p].name)

\* A snapshot is the store, but for what overlapping requests wrote.
SnapRead(p) ==
    pc[p] \in {"found", "rollback"} =>
        \A k \in DOMAIN db.docs :
            \/ k \in DOMAIN loc[p].snap.docs /\ loc[p].snap.docs[k] = db.docs[k]
            \/ Crossed(p, k)

\* What a start has found and made so far.
StartInv ==
    /\ boot \in {"load", "admin", "adminKey", "org", "orgKey", "upgrade", "up", "failed"}
    /\ boot \in {"admin", "adminKey"} => (AdminKey \in fresh <=> AdminKey \notin DOMAIN db.docs)
    /\ boot \in {"admin", "adminKey", "org", "orgKey"} =>
         (ValidatorKey \in fresh <=> ValidatorKey \notin DOMAIN db.docs)
    /\ boot \notin {"load", "admin", "adminKey"} => AdminKey \in DOMAIN db.docs
    /\ boot = "orgKey" => ValidatorKey \in fresh
    /\ boot \in {"upgrade", "up"} => ValidatorKey \in DOMAIN db.docs

ReadInv == (\A p \in Procs : GroupRead(p) /\ SnapRead(p)) /\ StartInv

\* Of a store: the admin's key is its user's, the validator's key its client's
\* unless requests may create and delete the organization, and an ACL of an
\* older version is in an organization.
Same(d, e, k) == /\ k \in DOMAIN d.docs <=> k \in DOMAIN e.docs
                 /\ k \in DOMAIN d.docs => d.docs[k] = e.docs[k]
IsLegacy(d, k) == k = ClientsACL(k[1]) /\ k \in DOMAIN d.docs /\ d.docs[k] = "legacy"
Sheltered == \A r \in offered : r.org = BootOrg => r.op \notin OrgOps
Paired(d, k, user) == user \in DOMAIN d.docs /\ d.docs[user] = d.docs[k]
KeysOf(d) ==
    /\ AdminKey \in DOMAIN d.docs => Paired(d, AdminKey, AdminUser)
    /\ ValidatorKey \in DOMAIN d.docs /\ Sheltered =>
         BootOrg \in d.orgs /\ Paired(d, ValidatorKey, Validator(BootOrg))
    /\ \A k \in DOMAIN d.docs : IsLegacy(d, k) => k[1] \in d.orgs

\* What a start has stored and not yet the key for.
Pending ==
    /\ boot = "adminKey" /\ AdminKey \in fresh => AdminUser \in DOMAIN db.docs /\ db.docs[AdminUser] = boots
    /\ boot = "orgKey" =>
         BootOrg \in db.orgs /\ Validator(BootOrg) \in DOMAIN db.docs /\ db.docs[Validator(BootOrg)] = boots

Current(d) == \A k \in DOMAIN d.docs : ~IsLegacy(d, k)
Marked == <<"organizations", BootOrg>> \in cut

\* What no request writes is in a snapshot as in the store.
Guarded(k) == k[1] = "" /\ k[2] # "organizations"
SnapKeys(p) ==
    pc[p] \in {"found", "rollback"} =>
        LET d == loc[p].snap
        IN /\ Current(d)
           /\ \A k \in DOMAIN db.docs \cup DOMAIN d.docs : Guarded(k) => Same(db, d, k)
           /\ Sheltered => (BootOrg \in db.orgs <=> BootOrg \in d.orgs) /\ Same(db, d, Validator(BootOrg))

KeysInv ==
    /\ KeysOf(db) /\ Pending
    /\ boot = "up" => Current(db)
    /\ BootOrg \in db.orgs => ValidatorKey \in DOMAIN db.docs \/ boot = "orgKey" \/ Marked
    /\ boot = "failed" => Marked
    /\ \A p \in Procs : SnapKeys(p)

-----------------------------------------------------------------------------
(* What a step does.                                                        *)

Goes(p, from, to)  == pc[p] = from /\ pc' = [pc EXCEPT ![p] = to] /\ Still
Reads(p, from, to) == Goes(p, from, to) /\ UNCHANGED <<db, cut, emptied>>
Takes(p, l)        == loc' = [loc EXCEPT ![p] = l]

\* An answer without a write, which leaves nothing undone, and a failure.
Undone(p) ==
    \/ pc[p] \in {"listBag", "deleteItems", "deleteRevisions", "listGroups", "saveGroups", "deleteACL",
                  "provision", "deleteOrg"}
    \/ pc[p] = "loadGroups" /\ (loc[p].todo # {} \/ req[p].op = "deletePolicy")
Answers(p) == pc[p] # "idle" /\ ~Undone(p) /\ Reads(p, pc[p], "idle") /\ UNCHANGED loc
Fails(p) ==
    /\ pc[p] # "idle" /\ pc' = [pc EXCEPT ![p] = "idle"]
    /\ cut' = cut \cup Touches(req[p])
    /\ UNCHANGED <<db, start, req, loc, offered, left, near, frayed, emptied>>

\* A look at the store, with nothing taken from it.
Sees(p) ==
    /\ UNCHANGED loc
    /\ \/ Reads(p, "org", req[p].op) /\ req[p].org \in db.orgs
       \/ Reads(p, "putObject", "storeObject") /\ Has(db, ObjectKey(req[p]))
       \/ Reads(p, "putACL", "storeACL") /\ ACLObject(db, ACLKey(req[p]))
       \/ pc[p] \in ItemOps /\ Reads(p, pc[p], "inBag") /\ Has(db, BagKey(req[p]))
       \/ Reads(p, "inBag", "storeItem") /\ req[p].op = "putItem"
       \/ Reads(p, "putOrganization", "storeMeta") /\ Has(db, OrgMeta(req[p].org))
       \/ Reads(p, "found", "rollback")
       \/ Reads(p, "deleteItems", "deleteACL") /\ loc[p].todo = {}
       \/ Reads(p, "deleteRevisions", "listGroups") /\ loc[p].todo = {}
       \/ Reads(p, "loadGroups", "deleteACL") /\ loc[p].todo = {} /\ req[p].op = "deletePolicy"

Lists(p) ==
    \/ /\ Reads(p, "listBag", "deleteItems")
       /\ Takes(p, [loc[p] EXCEPT !.todo = CollKeys(db, req[p].org, "databag_items", req[p].name)])
    \/ /\ Reads(p, "deletePolicy", "deleteRevisions")
       /\ Takes(p, [loc[p] EXCEPT !.todo = CollKeys(db, req[p].org, "policy_revisions", req[p].name)])
    \/ /\ Reads(p, "listGroups", "loadGroups")
       /\ Takes(p, [loc[p] EXCEPT !.todo = CollKeys(db, req[p].org, "policy_groups", "")])

\* Groups: one that a delete does not concern, one that it does, one read by
\* a deployment, by an undeployment, and with the policy taken out.
Skips(p, k) == /\ Reads(p, "loadGroups", "loadGroups") /\ k \in loc[p].todo
               /\ ~(Has(db, k) /\ Affected(p, db.docs[k]))
               /\ Takes(p, [loc[p] EXCEPT !.todo = @ \ {k}])
Loads(p, k) == /\ Reads(p, "loadGroups", "saveGroups") /\ k \in loc[p].todo
               /\ Has(db, k) /\ Affected(p, db.docs[k])
               /\ Takes(p, [loc[p] EXCEPT !.group = Undeployed(db.docs[k], req[p].name), !.todo = @ \ {k},
                                          !.key = k])
Deployed(p) ==
    LET g == IF Has(db, GroupKey(req[p])) THEN db.docs[GroupKey(req[p])] ELSE NoLocals.group
    IN [x \in DOMAIN g \cup {req[p].name} |-> IF x = req[p].name THEN req[p].item ELSE g[x]]
Deploys(p) == Reads(p, "deployLoad", "saveGroup") /\ Takes(p, [loc[p] EXCEPT !.group = Deployed(p)])
Opens(p) == /\ pc[p] \in {"getGroupPolicy", "undeployPolicy"} /\ Reads(p, pc[p], "getDeployed")
            /\ Has(db, GroupKey(req[p])) /\ Takes(p, [loc[p] EXCEPT !.group = db.docs[GroupKey(req[p])]])
Undeploys(p) == /\ Reads(p, "getDeployed", "saveGroup") /\ req[p].op = "undeployPolicy"
                /\ Takes(p, [loc[p] EXCEPT !.group = Undeployed(@, req[p].name)])
Snaps(p) == Reads(p, "createOrganization", "found") /\ Takes(p, [loc[p] EXCEPT !.snap = db])

\* One document stored.
Puts(p, from, k, v, to) == Goes(p, from, to) /\ UNCHANGED <<loc, cut, emptied>> /\ db' = set(db, k, v)
PutsOne(p) ==
    LET r == req[p]
    IN \/ Puts(p, "createObject", ObjectKey(r), "doc", "grantCreator")
       \/ Puts(p, "grantCreator", ACLKey(r), "creator", "idle")
       \/ Puts(p, "createContainer", ObjectKey(r), "doc", "idle")
       \/ Puts(p, "storeObject", ObjectKey(r), "put", "idle")
       \/ Puts(p, "storeACL", ACLKey(r), "custom", "idle")
       \/ Puts(p, "createDataBag", BagKey(r), "doc", "idle")
       \/ Puts(p, "inBag", ItemKey(r), "doc", "idle") /\ r.op = "createItem"
       \/ Puts(p, "storeItem", ItemKey(r), "put", "idle")
       \/ Puts(p, "createRevision", RevisionKey(r), "doc", "idle")
       \/ Puts(p, "deployPolicy", RevisionKey(r), "doc", "deployLoad")
       \/ Puts(p, "storeMeta", OrgMeta(r.org), "doc", "idle")
Saves(p) == \/ Puts(p, "saveGroup", GroupKey(req[p]), loc[p].group, "idle")
            \/ Puts(p, "saveGroups", loc[p].key, loc[p].group, "loadGroups")

\* One document deleted, of a list, of its own, and with it perhaps a policy.
Deletes(p, from, k, to) == Goes(p, from, to) /\ UNCHANGED <<loc, cut, emptied>> /\ db' = Delete(db, {k})
DeletesOne(p) ==
    LET r == req[p]
    IN \/ Deletes(p, "deleteObject", ObjectKey(r), "deleteACL")
       \/ Deletes(p, "deleteACL", ACLKey(r), "idle")
       \/ Deletes(p, "deleteDataBag", BagKey(r), "listBag")
       \/ Deletes(p, "inBag", ItemKey(r), "idle") /\ r.op = "deleteItem"
       \/ Deletes(p, "deleteGroup", GroupKey(r), "deleteACL")
       \/ Deletes(p, "deleteOrganization", OrgMeta(r.org), "deleteOrg")
DeletesEach(p, k) ==
    /\ pc[p] \in {"deleteItems", "deleteRevisions"} /\ Goes(p, pc[p], pc[p]) /\ UNCHANGED <<cut, emptied>>
    /\ k \in loc[p].todo /\ db' = Delete(db, {k}) /\ Takes(p, [loc[p] EXCEPT !.todo = @ \ {k}])
DeletesRevision(p) ==
    LET k == RevisionKey(req[p])
    IN /\ Goes(p, "deleteRevision", "listGroups") /\ UNCHANGED <<loc, cut>> /\ db' = Delete(db, {k})
       /\ emptied' = IF CollKeys(db, req[p].org, "policy_revisions", req[p].name) = {k}
                     THEN emptied \cup {req[p].name} ELSE emptied

\* Organizations.
Founds(p) == /\ Goes(p, "createOrganization", "idle") /\ UNCHANGED <<loc, cut, emptied>>
             /\ req[p].org \notin db.orgs /\ db' = Founded(db, req[p].org, -1)
Creates(p) == /\ Goes(p, "found", "provision") /\ UNCHANGED <<cut, emptied>> /\ req[p].org \notin db.orgs
              /\ db' = CreateOrg(db, req[p].org) /\ Takes(p, [loc[p] EXCEPT !.step = 1])
Provides(p) == /\ Goes(p, "provision", IF loc[p].step = 5 THEN "idle" ELSE "provision") /\ UNCHANGED <<cut, emptied>>
               /\ db' = Provide(db, Plan(req[p].org, -1)[loc[p].step])
               /\ Takes(p, [loc[p] EXCEPT !.step = @ + 1])
RollsBack(p) == Goes(p, "rollback", "idle") /\ UNCHANGED <<loc, cut, emptied>> /\ db' = loc[p].snap
DropsOrg(p) == Goes(p, "deleteOrg", "idle") /\ UNCHANGED <<loc, cut, emptied>> /\ db' = DeleteOrg(db, req[p].org)

ReadEffect(p) ==
    \/ Answers(p) \/ Sees(p) \/ Lists(p) \/ (\E k : Skips(p, k) \/ Loads(p, k))
    \/ Deploys(p) \/ Opens(p) \/ Undeploys(p) \/ Snaps(p)
WriteEffect(p) ==
    \/ PutsOne(p) \/ Saves(p) \/ DeletesOne(p) \/ (\E k : DeletesEach(p, k)) \/ DeletesRevision(p)
    \/ Founds(p) \/ Creates(p) \/ Provides(p) \/ DropsOrg(p)
Effect(p) == ReadEffect(p) \/ WriteEffect(p) \/ RollsBack(p)

LEMMA StayingPut ==
    ASSUME Typed, NEW p \in Procs, UNCHANGED pc
    PROVE  pc' = [pc EXCEPT ![p] = pc[p]]
BY DEF Typed

LEMMA Answering ==
    ASSUME NEW p
    PROVE  /\ (pc[p] = "org" => ~Undone(p)) /\ (pc[p] = "createObject" => ~Undone(p))
           /\ (pc[p] = "grantCreator" => ~Undone(p))
           /\ (pc[p] = "createContainer" => ~Undone(p)) /\ (pc[p] = "putObject" => ~Undone(p))
           /\ (pc[p] = "deleteObject" => ~Undone(p)) /\ (pc[p] = "putACL" => ~Undone(p))
           /\ (pc[p] = "createDataBag" => ~Undone(p)) /\ (pc[p] = "deleteDataBag" => ~Undone(p))
           /\ (pc[p] = "inBag" => ~Undone(p)) /\ (pc[p] = "createRevision" => ~Undone(p))
           /\ (pc[p] = "deletePolicy" => ~Undone(p)) /\ (pc[p] = "deleteRevision" => ~Undone(p))
           /\ (pc[p] = "deployPolicy" => ~Undone(p)) /\ (pc[p] = "getGroupPolicy" => ~Undone(p))
           /\ (pc[p] = "undeployPolicy" => ~Undone(p)) /\ (pc[p] = "getDeployed" => ~Undone(p))
           /\ (pc[p] = "deleteGroup" => ~Undone(p)) /\ (pc[p] = "createOrganization" => ~Undone(p))
           /\ (pc[p] = "putOrganization" => ~Undone(p)) /\ (pc[p] = "deleteOrganization" => ~Undone(p))
           /\ pc[p] \in ItemOps => ~Undone(p)
           /\ pc[p] \in {"getGroupPolicy", "undeployPolicy"} => ~Undone(p)
           /\ pc[p] \in {"getObject", "getPolicy", "getRevision", "getGroup", "getOrganization", "list"} => ~Undone(p)
           /\ pc[p] = "loadGroups" /\ loc[p].todo = {} /\ req[p].op # "deletePolicy" => ~Undone(p)
BY DEF Undone, ItemOps

LEMMA ObjectEffects ==
    ASSUME Typed, NEW p \in Procs,
           \/ FindOrg(p) \/ CreateObject(p) \/ GrantCreator(p) \/ CreateContainer(p) \/ PutObject(p)
           \/ StoreObject(p) \/ DeleteObject(p) \/ DeleteACL(p) \/ PutACL(p) \/ StoreACL(p)
    PROVE  Effect(p)
<1>1. CASE FindOrg(p)
  BY <1>1, Answering, Zenon DEF FindOrg, ReadOnly, Fixed, Goto, Reply, Effect, ReadEffect, Answers, Sees, Reads, Goes
<1>2. CASE CreateObject(p)
  BY <1>2, Answering, Zenon DEF CreateObject, CreateAt, Fixed, Goto, Reply, Effect, ReadEffect, WriteEffect, Answers, PutsOne,
                     Puts, Reads, Goes
<1>3. CASE CreateContainer(p) \/ StoreObject(p)
  BY <1>3, Answering, Zenon DEF CreateContainer, StoreObject, Fixed, Reply, Effect, ReadEffect, WriteEffect,
                     Answers, PutsOne, Puts, Reads, Goes
<1>6. CASE GrantCreator(p)
  BY <1>6, Answering, Zenon DEF GrantCreator, Fixed, Reply, Effect, ReadEffect, WriteEffect, Answers, PutsOne, Puts,
                     Reads, Goes
<1>7. CASE StoreACL(p)
  BY <1>7, Zenon DEF StoreACL, Fixed, Reply, Effect, WriteEffect, PutsOne, Puts, Goes
<1>4. CASE PutObject(p) \/ PutACL(p)
  BY <1>4, Answering, Zenon DEF PutObject, PutACL, ReadOnly, Fixed, Goto, Reply, Effect, ReadEffect, Answers, Sees, Reads, Goes
<1>5. CASE DeleteObject(p) \/ DeleteACL(p)
  BY <1>5, Answering, Zenon DEF DeleteObject, DeleteACL, Fixed, Goto, Reply, Effect, ReadEffect, WriteEffect, Answers, DeletesOne,
                     Deletes, Reads, Goes
<1> QED
  BY <1>1, <1>2, <1>3, <1>4, <1>5, <1>6, <1>7

LEMMA BagEffects ==
    ASSUME Typed, NEW p \in Procs,
           \/ CreateDataBag(p) \/ DeleteDataBag(p) \/ ListItems(p) \/ DeleteItems(p) \/ BagExists(p)
           \/ CreateItem(p) \/ PutItem(p) \/ StoreItem(p) \/ DeleteItem(p)
    PROVE  Effect(p)
<1>1. CASE CreateDataBag(p) \/ CreateItem(p) \/ StoreItem(p)
  BY <1>1, Answering, Zenon DEF CreateDataBag, CreateItem, StoreItem, CreateAt, Fixed, Goto, Reply, Effect, ReadEffect, WriteEffect,
                     Answers, PutsOne, Puts, Reads, Goes
<1>2. CASE DeleteDataBag(p) \/ DeleteItem(p)
  BY <1>2, Answering, Zenon DEF DeleteDataBag, DeleteItem, Fixed, Goto, Reply, Effect, ReadEffect, WriteEffect, Answers, DeletesOne,
                     Deletes, Reads, Goes
<1>3. CASE ListItems(p)
  BY <1>3, Zenon DEF ListItems, ReadOnly, Fixed, Goto, Local, Effect, ReadEffect, Lists, Takes, Reads, Goes
<1>4. CASE DeleteItems(p)
  <2>1. CASE loc[p].todo = {} /\ Goto(p, "deleteACL") /\ UNCHANGED <<db, loc>>
    BY <1>4, <2>1, Zenon DEF DeleteItems, Fixed, Goto, Effect, ReadEffect, Sees, Reads, Goes
  <2>2. CASE \E k \in loc[p].todo : /\ db' = Delete(db, {k})
                                    /\ Local(p, [loc[p] EXCEPT !.todo = @ \ {k}])
                                    /\ UNCHANGED <<pc, out>>
    <3>1. PICK k \in loc[p].todo : /\ db' = Delete(db, {k})
                                   /\ Local(p, [loc[p] EXCEPT !.todo = @ \ {k}])
                                   /\ UNCHANGED <<pc, out>>
      BY <2>2
    <3>2. DeletesEach(p, k)
      BY <1>4, <3>1, StayingPut, Zenon DEF DeleteItems, Fixed, Local, DeletesEach, Takes, Goes
    <3> QED
      BY <3>2 DEF Effect, WriteEffect
  <2> QED
    BY <1>4, <2>1, <2>2 DEF DeleteItems
<1>5. CASE BagExists(p) \/ PutItem(p)
  BY <1>5, Answering, Zenon DEF BagExists, PutItem, ReadOnly, Fixed, Goto, Reply, Effect, ReadEffect, Answers, Sees, Reads, Goes, ItemOps
<1> QED
  BY <1>1, <1>2, <1>3, <1>4, <1>5

LEMMA PolicyEffects ==
    ASSUME Typed, NEW p \in Procs,
           \/ CreateRevision(p) \/ ListRevisions(p) \/ DeleteRevisions(p) \/ DeleteRevision(p)
           \/ ListGroups(p) \/ LoadGroups(p) \/ SaveGroups(p)
    PROVE  Effect(p)
<1>1. CASE CreateRevision(p)
  BY <1>1, Answering, Zenon DEF CreateRevision, CreateAt, Fixed, Goto, Reply, Effect, ReadEffect, WriteEffect,
                     Answers, PutsOne, Puts, Reads, Goes
<1>2. CASE ListRevisions(p) \/ ListGroups(p)
  BY <1>2, Answering, Zenon DEF ListRevisions, ListGroups, ReadOnly, Fixed, Goto, Reply, Local, Effect, ReadEffect, Answers, Lists, Takes, Reads,
                     Goes
<1>3. CASE DeleteRevisions(p)
  <2>1. CASE loc[p].todo = {} /\ Goto(p, "listGroups") /\ UNCHANGED <<db, loc>>
    BY <1>3, <2>1, Zenon DEF DeleteRevisions, Fixed, Goto, Effect, ReadEffect, Sees, Reads, Goes
  <2>2. CASE \E k \in loc[p].todo : /\ db' = Delete(db, {k})
                                    /\ Local(p, [loc[p] EXCEPT !.todo = @ \ {k}])
                                    /\ UNCHANGED <<pc, out>>
    <3>1. PICK k \in loc[p].todo : /\ db' = Delete(db, {k})
                                   /\ Local(p, [loc[p] EXCEPT !.todo = @ \ {k}])
                                   /\ UNCHANGED <<pc, out>>
      BY <2>2
    <3>2. DeletesEach(p, k)
      BY <1>3, <3>1, StayingPut, Zenon DEF DeleteRevisions, Fixed, Local, DeletesEach, Takes, Goes
    <3> QED
      BY <3>2 DEF Effect, WriteEffect
  <2> QED
    BY <1>3, <2>1, <2>2 DEF DeleteRevisions
<1>4. CASE DeleteRevision(p)
  <2>1. CASE Has(db, RevisionKey(req[p]))
    <3>1. DeletesRevision(p)
      BY <1>4, <2>1, Zenon DEF DeleteRevision, Goto, DeletesRevision, Goes
    <3> QED
      BY <3>1 DEF Effect, WriteEffect
  <2>2. CASE ~Has(db, RevisionKey(req[p]))
    BY <1>4, <2>2, Answering, Zenon DEF DeleteRevision, Reply, Effect, ReadEffect, Answers, Reads, Goes
  <2> QED
    BY <2>1, <2>2
<1>5. CASE LoadGroups(p)
  <2>1. CASE \E k \in loc[p].todo :
            IF Has(db, k) /\ Affected(p, db.docs[k])
            THEN /\ Local(p, [loc[p] EXCEPT !.group = Undeployed(db.docs[k], req[p].name), !.todo = @ \ {k},
                                            !.key = k])
                 /\ Goto(p, "saveGroups")
            ELSE Local(p, [loc[p] EXCEPT !.todo = @ \ {k}]) /\ UNCHANGED <<pc, out>>
    <3>1. PICK k \in loc[p].todo :
            IF Has(db, k) /\ Affected(p, db.docs[k])
            THEN /\ Local(p, [loc[p] EXCEPT !.group = Undeployed(db.docs[k], req[p].name), !.todo = @ \ {k},
                                            !.key = k])
                 /\ Goto(p, "saveGroups")
            ELSE Local(p, [loc[p] EXCEPT !.todo = @ \ {k}]) /\ UNCHANGED <<pc, out>>
      BY <2>1, Zenon
    <3>2. CASE Has(db, k) /\ Affected(p, db.docs[k])
      <4>1. Loads(p, k)
        BY <1>5, <3>1, <3>2, Zenon DEF LoadGroups, ReadOnly, Fixed, Local, Goto, Loads, Takes, Reads, Goes
      <4> QED
        BY <4>1 DEF Effect, ReadEffect
    <3>3. CASE ~(Has(db, k) /\ Affected(p, db.docs[k]))
      <4>1. Skips(p, k)
        BY <1>5, <3>1, <3>3, StayingPut, Zenon DEF LoadGroups, ReadOnly, Fixed, Local, Skips, Takes, Reads, Goes
      <4> QED
        BY <4>1 DEF Effect, ReadEffect
    <3> QED
      BY <3>2, <3>3
  <2>2. CASE /\ loc[p].todo = {} /\ UNCHANGED loc
             /\ IF req[p].op = "deletePolicy" THEN Goto(p, "deleteACL") ELSE Reply(p, 200)
    BY <1>5, <2>2, Answering, Zenon DEF LoadGroups, ReadOnly, Fixed, Goto, Reply, Effect, ReadEffect, Answers, Sees, Reads, Goes
  <2> QED
    BY <1>5, <2>1, <2>2, Zenon DEF LoadGroups
<1>6. CASE SaveGroups(p)
  BY <1>6, Zenon DEF SaveGroups, Fixed, Goto, Effect, WriteEffect, Saves, Puts, Goes
<1> QED
  BY <1>1, <1>2, <1>3, <1>4, <1>5, <1>6

LEMMA GroupEffects ==
    ASSUME Typed, NEW p \in Procs,
           \/ DeployPut(p) \/ DeployLoad(p) \/ SaveGroup(p) \/ LoadGroup(p) \/ GetDeployed(p)
           \/ DeleteGroup(p) \/ Get(p)
    PROVE  Effect(p)
<1>1. CASE DeployPut(p)
  BY <1>1, Answering, Zenon DEF DeployPut, Fixed, Goto, Reply, Effect, ReadEffect, WriteEffect, Answers, PutsOne, Puts, Reads, Goes
<1>2. CASE DeployLoad(p)
  BY <1>2, Zenon DEF DeployLoad, ReadOnly, Fixed, Goto, Local, Effect, ReadEffect, Deploys, Deployed, Takes, Reads, Goes
<1>3. CASE SaveGroup(p)
  BY <1>3, Zenon DEF SaveGroup, Fixed, Reply, Effect, WriteEffect, Saves, Puts, Goes
<1>4. CASE LoadGroup(p)
  BY <1>4, Answering, Zenon DEF LoadGroup, ReadOnly, Fixed, Goto, Reply, Local, Effect, ReadEffect, Answers, Opens, Takes, Reads, Goes
<1>5. CASE GetDeployed(p)
  BY <1>5, Answering, Zenon DEF GetDeployed, ReadOnly, Fixed, Goto, Reply, Local, Effect, ReadEffect, Answers, Undeploys, Takes, Reads, Goes
<1>6. CASE DeleteGroup(p)
  BY <1>6, Answering, Zenon DEF DeleteGroup, Fixed, Goto, Reply, Effect, ReadEffect, WriteEffect, Answers, DeletesOne, Deletes, Reads, Goes
<1>7. CASE Get(p)
  BY <1>7, Answering, Zenon DEF Get, ReadOnly, Fixed, Reply, Effect, ReadEffect, Answers, Reads, Goes
<1> QED
  BY <1>1, <1>2, <1>3, <1>4, <1>5, <1>6, <1>7

LEMMA OrgEffects ==
    ASSUME Typed, NEW p \in Procs,
           \/ CreateOrganization(p) \/ Snapshot(p) \/ Found(p) \/ Provision(p) \/ Rollback(p)
           \/ PutOrganization(p) \/ StoreMeta(p) \/ DeleteMeta(p) \/ DropOrg(p)
    PROVE  Effect(p)
<1>1. CASE CreateOrganization(p)
  BY <1>1, Answering, Zenon DEF CreateOrganization, Fixed, Reply, Effect, ReadEffect, WriteEffect, Answers, Founds, Reads, Goes
<1>2. CASE Snapshot(p)
  BY <1>2, Answering, Zenon DEF Snapshot, ReadOnly, Fixed, Goto, Reply, Local, Effect, ReadEffect, Answers, Snaps, Takes, Reads, Goes
<1>3. CASE Found(p)
  BY <1>3, Zenon DEF Found, Fixed, Goto, Local, Effect, ReadEffect, WriteEffect, Sees, Creates, Takes, Reads, Goes
<1>4. CASE Provision(p)
  <2>1. Provides(p)
    <3>1. CASE loc[p].step = 5
      BY <1>4, <3>1, Zenon DEF Provision, Fixed, Reply, Local, Provides, Takes, Goes
    <3>2. CASE loc[p].step # 5
      BY <1>4, <3>2, StayingPut, Zenon DEF Provision, Fixed, Local, Provides, Takes, Goes
    <3> QED
      BY <3>1, <3>2
  <2> QED
    BY <2>1 DEF Effect, WriteEffect
<1>5. CASE Rollback(p)
  BY <1>5, Zenon DEF Rollback, Fixed, Reply, Effect, RollsBack, Goes
<1>6. CASE PutOrganization(p)
  BY <1>6, Answering, Zenon DEF PutOrganization, ReadOnly, Fixed, Goto, Reply, Effect, ReadEffect, Answers, Sees, Reads, Goes
<1>7. CASE StoreMeta(p)
  BY <1>7, Zenon DEF StoreMeta, Fixed, Reply, Effect, WriteEffect, PutsOne, Puts, Goes
<1>8. CASE DeleteMeta(p)
  BY <1>8, Answering, Zenon DEF DeleteMeta, Fixed, Goto, Reply, Effect, ReadEffect, WriteEffect, Answers, DeletesOne, Deletes, Reads, Goes
<1>9. CASE DropOrg(p)
  BY <1>9, Zenon DEF DropOrg, Fixed, Reply, Effect, WriteEffect, DropsOrg, Goes
<1> QED
  BY <1>1, <1>2, <1>3, <1>4, <1>5, <1>6, <1>7, <1>8, <1>9

LEMMA StepEffects ==
    ASSUME Typed, NEW p \in Procs, Step(p)
    PROVE  Effect(p)
BY ObjectEffects, BagEffects, PolicyEffects, GroupEffects, OrgEffects, Zenon DEF Step

-----------------------------------------------------------------------------
(* What the operations of a store do.                                       *)

LEMMA SetFacts ==
    ASSUME NEW d, IsStore(d), NEW k, NEW v
    PROVE  /\ IsStore(set(d, k, v)) /\ set(d, k, v).orgs = d.orgs
           /\ DOMAIN set(d, k, v).docs = DOMAIN d.docs \cup {k}
           /\ set(d, k, v).docs[k] = v
           /\ \A x : x # k => Same(d, set(d, k, v), x)
<1> DEFINE f == [x \in DOMAIN d.docs \cup {k} |-> IF x = k THEN v ELSE d.docs[x]]
           e == set(d, k, v)
<1>1. e = [d EXCEPT !.docs = f]
  BY Zenon DEF set
<1>2. IsStore(e) /\ e.orgs = d.orgs /\ e.docs = f
  <2> HIDE DEF f, e
  <2> QED
    BY <1>1 DEF IsStore
<1>3. DOMAIN f = DOMAIN d.docs \cup {k} /\ f[k] = v /\ \A x \in DOMAIN d.docs : x # k => f[x] = d.docs[x]
  OBVIOUS
<1> QED
  <2> HIDE DEF f, e
  <2>1. /\ IsStore(e) /\ e.orgs = d.orgs /\ DOMAIN e.docs = DOMAIN d.docs \cup {k} /\ e.docs[k] = v
        /\ \A x : x # k => Same(d, e, x)
    BY <1>2, <1>3 DEF Same
  <2> QED
    BY <2>1 DEF e

LEMMA DeleteFacts ==
    ASSUME NEW d, IsStore(d), NEW K
    PROVE  /\ IsStore(Delete(d, K)) /\ Delete(d, K).orgs = d.orgs
           /\ DOMAIN Delete(d, K).docs = DOMAIN d.docs \ K
           /\ \A x : x \notin K => Same(d, Delete(d, K), x)
<1> DEFINE f == [x \in DOMAIN d.docs \ K |-> d.docs[x]]
           e == Delete(d, K)
<1>1. e = [d EXCEPT !.docs = f]
  BY Zenon DEF Delete
<1>2. IsStore(e) /\ e.orgs = d.orgs /\ e.docs = f
  <2> HIDE DEF f, e
  <2> QED
    BY <1>1 DEF IsStore
<1>3. DOMAIN f = DOMAIN d.docs \ K /\ \A x \in DOMAIN d.docs \ K : f[x] = d.docs[x]
  OBVIOUS
<1> QED
  <2> HIDE DEF f, e
  <2>1. /\ IsStore(e) /\ e.orgs = d.orgs /\ DOMAIN e.docs = DOMAIN d.docs \ K
        /\ \A x : x \notin K => Same(d, e, x)
    BY <1>2, <1>3 DEF Same
  <2> QED
    BY <2>1 DEF e

LEMMA OrgFacts ==
    ASSUME NEW d, IsStore(d), NEW o
    PROVE  /\ IsStore(CreateOrg(d, o)) /\ CreateOrg(d, o).orgs = d.orgs \cup {o} /\ CreateOrg(d, o).docs = d.docs
           /\ IsStore(DeleteOrg(d, o)) /\ DeleteOrg(d, o).orgs = d.orgs \ {o}
           /\ \A x : x[1] # o => Same(d, DeleteOrg(d, o), x)
           /\ DOMAIN DeleteOrg(d, o).docs \subseteq DOMAIN d.docs
           /\ \A x \in DOMAIN DeleteOrg(d, o).docs : Same(d, DeleteOrg(d, o), x)
           /\ o \in d.orgs => \A x \in DOMAIN DeleteOrg(d, o).docs : x[1] # o
<1>1. IsStore(CreateOrg(d, o)) /\ CreateOrg(d, o).orgs = d.orgs \cup {o} /\ CreateOrg(d, o).docs = d.docs
  BY DEF CreateOrg, IsStore
<1> DEFINE e == DeleteOrg(d, o)
           K == {k \in DOMAIN d.docs : k[1] = o}
           c == Delete(d, K)
<1>2. CASE o \notin d.orgs
  <2>1. e = d
    BY <1>2 DEF DeleteOrg
  <2> QED
    BY <1>1, <1>2, <2>1 DEF Same
<1>3. CASE o \in d.orgs
  <2>1. e = [c EXCEPT !.orgs = c.orgs \ {o}]
    BY <1>3 DEF DeleteOrg
  <2>2. /\ IsStore(c) /\ c.orgs = d.orgs /\ DOMAIN c.docs = DOMAIN d.docs \ K
        /\ \A x : x \notin K => Same(d, c, x)
    BY DeleteFacts
  <2>3. \A x : x \in K <=> x \in DOMAIN d.docs /\ x[1] = o
    OBVIOUS
  <2>4. IsStore(e) /\ e.orgs = c.orgs \ {o} /\ e.docs = c.docs
    <3> HIDE DEF c, e
    <3> QED
      BY <2>1, <2>2 DEF IsStore
  <2>5. /\ IsStore(e) /\ e.orgs = d.orgs \ {o} /\ DOMAIN e.docs \subseteq DOMAIN d.docs
        /\ \A x \in DOMAIN e.docs : x[1] # o
        /\ \A x : x[1] # o => Same(d, e, x)
        /\ \A x \in DOMAIN e.docs : Same(d, e, x)
    <3> HIDE DEF c, e, K
    <3> QED
      BY <2>2, <2>3, <2>4 DEF Same
  <2> QED
    BY <1>1, <1>3, <2>5
<1> QED
  BY <1>2, <1>3

\* One step of a plan: the organizations stay, and only its document changes.
LEMMA ProvideFacts ==
    ASSUME NEW d, IsStore(d), NEW w
    PROVE  /\ IsStore(Provide(d, w)) /\ Provide(d, w).orgs = d.orgs
           /\ DOMAIN Provide(d, w).docs = DOMAIN d.docs \cup {w[1]}
           /\ w[1][2] \notin Seeds => Provide(d, w).docs[w[1]] = w[2]
           /\ w[1] \notin DOMAIN d.docs => Provide(d, w).docs[w[1]] = w[2]
           /\ \A x : x # w[1] => Same(d, Provide(d, w), x)
           /\ w[1][2] \in Seeds /\ w[1] \in DOMAIN d.docs => Same(d, Provide(d, w), w[1])
<1>1. CASE w[1][2] \in Seeds /\ Has(d, w[1])
  <2>1. Provide(d, w) = d
    BY <1>1 DEF Provide
  <2> QED
    BY <1>1, <2>1 DEF Has, Same
<1>2. CASE ~(w[1][2] \in Seeds /\ Has(d, w[1]))
  <2>1. Provide(d, w) = set(d, w[1], w[2])
    BY <1>2, Zenon DEF Provide
  <2>2. ~(w[1][2] \in Seeds /\ w[1] \in DOMAIN d.docs)
    BY <1>2 DEF Has
  <2> DEFINE k == w[1]  v == w[2]
  <2>3. /\ IsStore(set(d, k, v)) /\ set(d, k, v).orgs = d.orgs
        /\ DOMAIN set(d, k, v).docs = DOMAIN d.docs \cup {k}
        /\ set(d, k, v).docs[k] = v
        /\ \A x : x # k => Same(d, set(d, k, v), x)
    BY SetFacts
  <2> QED
    BY <2>1, <2>2, <2>3
<1> QED
  BY <1>1, <1>2

Default(org)  == <<org, "environments", "", "_default">>
Clients(org)  == <<org, "containers", "", "clients">>
PlanKeys(org) == {Default(org), Clients(org), OrgMeta(org), Validator(org), ClientsACL(org)}
LEMMA PlanFacts ==
    ASSUME NEW o, NEW v
    PROVE  /\ Provisions(o) = PlanKeys(o)
           /\ \A i \in 1 .. 5 : Plan(o, v)[i][1] \in PlanKeys(o)
           /\ \A i \in 1 .. 5 : Plan(o, v)[i][1] = ClientsACL(o) => Plan(o, v)[i][2] = "seeded"
           /\ \A k \in PlanKeys(o) : k = OrgMeta(o) \/ k[1] = o
           /\ \A k \in PlanKeys(o) : k[2] # "policy_groups"
<1>1. \A u : /\ Plan(o, u)[1][1] = Default(o)
             /\ Plan(o, u)[2][1] = Clients(o)
             /\ Plan(o, u)[3][1] = OrgMeta(o)
             /\ Plan(o, u)[4][1] = Validator(o)
             /\ Plan(o, u)[5][1] = ClientsACL(o)
             /\ Plan(o, u)[5][2] = "seeded"
  BY DEF Plan, Default, Clients
<1>2. 1 .. 5 = {1, 2, 3, 4, 5}
  OBVIOUS
<1>3. Provisions(o) = PlanKeys(o)
  BY <1>1, <1>2 DEF Provisions, PlanKeys
<1>4. \A i \in 1 .. 5 : Plan(o, v)[i][1] \in PlanKeys(o)
  BY <1>1, <1>2 DEF PlanKeys
<1>5. \A i \in 1 .. 5 : Plan(o, v)[i][1] = ClientsACL(o) => Plan(o, v)[i][2] = "seeded"
  <2>1. ClientsACL(o) \notin {Default(o), Clients(o), OrgMeta(o), Validator(o)}
    BY DEF ClientsACL, OrgMeta, Validator, Default, Clients
  <2> QED
    BY <1>1, <1>2, <2>1
<1>6. /\ Default(o)[1] = o /\ Clients(o)[1] = o /\ Validator(o)[1] = o /\ ClientsACL(o)[1] = o
      /\ Default(o)[2] = "environments" /\ Clients(o)[2] = "containers" /\ Validator(o)[2] = "clients"
      /\ ClientsACL(o)[2] = "acls" /\ OrgMeta(o)[2] = "organizations"
  BY DEF Default, Clients, Validator, ClientsACL, OrgMeta
<1>7. /\ \A k \in PlanKeys(o) : k = OrgMeta(o) \/ k[1] = o
      /\ \A k \in PlanKeys(o) : k[2] # "policy_groups"
  BY <1>6 DEF PlanKeys
<1> QED
  BY <1>3, <1>4, <1>5, <1>7

\* A new organization: it has its metadata, its validator and its ACL.
LEMMA FoundedFacts ==
    ASSUME NEW d, IsStore(d), NEW o, NEW v
    PROVE  /\ IsStore(Founded(d, o, v)) /\ Founded(d, o, v).orgs = d.orgs \cup {o}
           /\ DOMAIN Founded(d, o, v).docs = DOMAIN d.docs \cup PlanKeys(o)
           /\ Founded(d, o, v).docs[Validator(o)] = v
           /\ Founded(d, o, v).docs[ClientsACL(o)] = "seeded"
           /\ \A x : x \notin PlanKeys(o) => Same(d, Founded(d, o, v), x)
<1> DEFINE w == Plan(o, v)
           d0 == CreateOrg(d, o)
           d1 == Provide(d0, w[1])
           d2 == Provide(d1, w[2])
           d3 == Provide(d2, w[3])
           d4 == Provide(d3, w[4])
           d5 == Provide(d4, w[5])
<1>0. Founded(d, o, v) = d5
  BY Zenon DEF Founded
<1>2. /\ w[1][1] = Default(o) /\ w[2][1] = Clients(o)
      /\ w[3][1] = OrgMeta(o) /\ w[4][1] = Validator(o) /\ w[5][1] = ClientsACL(o)
      /\ w[4][2] = v /\ w[5][2] = "seeded"
  BY DEF Plan, Default, Clients
<1>3. IsStore(d0) /\ d0.orgs = d.orgs \cup {o} /\ d0.docs = d.docs
  BY OrgFacts
<1> HIDE DEF w, d0
<1>4. /\ IsStore(d1) /\ d1.orgs = d0.orgs /\ DOMAIN d1.docs = DOMAIN d0.docs \cup {w[1][1]}
      /\ \A x : x # w[1][1] => Same(d0, d1, x)
  BY <1>3, ProvideFacts
<1> HIDE DEF d1
<1>5. /\ IsStore(d2) /\ d2.orgs = d1.orgs /\ DOMAIN d2.docs = DOMAIN d1.docs \cup {w[2][1]}
      /\ \A x : x # w[2][1] => Same(d1, d2, x)
  BY <1>4, ProvideFacts
<1> HIDE DEF d2
<1>6. /\ IsStore(d3) /\ d3.orgs = d2.orgs /\ DOMAIN d3.docs = DOMAIN d2.docs \cup {w[3][1]}
      /\ \A x : x # w[3][1] => Same(d2, d3, x)
  BY <1>5, ProvideFacts
<1> HIDE DEF d3
<1>7. /\ IsStore(d4) /\ d4.orgs = d3.orgs /\ DOMAIN d4.docs = DOMAIN d3.docs \cup {w[4][1]}
      /\ \A x : x # w[4][1] => Same(d3, d4, x)
      /\ d4.docs[w[4][1]] = w[4][2]
  <2>1. Validator(o)[2] \notin Seeds
    BY DEF Seeds, Validator
  <2> QED
    BY <1>2, <1>6, <2>1, ProvideFacts
<1> HIDE DEF d4
<1>8. /\ IsStore(d5) /\ d5.orgs = d4.orgs /\ DOMAIN d5.docs = DOMAIN d4.docs \cup {w[5][1]}
      /\ \A x : x # w[5][1] => Same(d4, d5, x)
      /\ d5.docs[w[5][1]] = w[5][2]
  <2>1. ClientsACL(o)[2] \notin Seeds
    BY DEF Seeds, ClientsACL
  <2> QED
    BY <1>2, <1>7, <2>1, ProvideFacts
<1> HIDE DEF d5
<1>9. DOMAIN d5.docs = DOMAIN d.docs \cup PlanKeys(o)
  BY <1>2, <1>3, <1>4, <1>5, <1>6, <1>7, <1>8 DEF PlanKeys
<1>10. d5.docs[Validator(o)] = v
  <2>1. Validator(o) # ClientsACL(o)
    BY DEF Validator, ClientsACL
  <2>2. Same(d4, d5, Validator(o))
    BY <1>2, <1>8, <2>1
  <2> QED
    BY <1>2, <1>7, <2>2 DEF Same
<1>11. ASSUME NEW x, x \notin PlanKeys(o)
       PROVE  Same(d, d5, x)
  <2>1. x # w[1][1] /\ x # w[2][1] /\ x # w[3][1] /\ x # w[4][1] /\ x # w[5][1]
    BY <1>2, <1>11 DEF PlanKeys
  <2>2. Same(d0, d1, x) /\ Same(d1, d2, x) /\ Same(d2, d3, x) /\ Same(d3, d4, x) /\ Same(d4, d5, x)
    BY <1>4, <1>5, <1>6, <1>7, <1>8, <2>1
  <2> QED
    BY <1>3, <2>2 DEF Same
<1>12. IsStore(d5) /\ d5.orgs = d.orgs \cup {o} /\ d5.docs[ClientsACL(o)] = "seeded"
  BY <1>2, <1>3, <1>4, <1>5, <1>6, <1>7, <1>8
<1> QED
  BY <1>0, <1>9, <1>10, <1>11, <1>12

-----------------------------------------------------------------------------
(* What each operation writes.                                              *)

LEMMA WritesCases ==
    ASSUME NEW r, NEW k
    PROVE  /\ r.op \in ReadOps => ~Writes(r, k)
           /\ r.op = "createOrganization" => (Writes(r, k) <=> k \in Provisions(r.org))
           /\ r.op = "putOrganization" => (Writes(r, k) <=> k = OrgMeta(r.org))
           /\ r.op = "deleteOrganization" => (Writes(r, k) <=> k = OrgMeta(r.org) \/ k[1] = r.org)
           /\ r.op \in {"createItem", "putItem", "deleteItem"} => (Writes(r, k) <=> k = ItemKey(r))
           /\ r.op = "createDataBag" => (Writes(r, k) <=> k = BagKey(r))
           /\ r.op = "deleteDataBag" =>
                (Writes(r, k) <=> \/ k \in {BagKey(r), ACLKey(r)}
                                  \/ k[1] = r.org /\ k[2] = "databag_items" /\ k[3] = r.name)
           /\ r.op = "deletePolicy" =>
                (Writes(r, k) <=> \/ k = ACLKey(r)
                                  \/ k[1] = r.org /\ k[2] = "policy_revisions" /\ k[3] = r.name
                                  \/ k[1] = r.org /\ k[2] = "policy_groups")
           /\ r.op = "deleteRevision" =>
                (Writes(r, k) <=> k = RevisionKey(r) \/ (k[1] = r.org /\ k[2] = "policy_groups"))
           /\ r.op \in {"createRevision", "deployPolicy", "undeployPolicy"} =>
                (Writes(r, k) <=> k \in {RevisionKey(r), GroupKey(r)})
           /\ r.op = "deleteGroup" => (Writes(r, k) <=> k \in {GroupKey(r), ACLKey(r)})
           /\ r.op = "putACL" => (Writes(r, k) <=> k = ACLKey(r))
           /\ r.op \in {"createObject", "putObject", "deleteObject", "createContainer"} =>
                (Writes(r, k) <=> k \in {ObjectKey(r), ACLKey(r)})
BY DEF Writes, ReadOps

LEMMA RequestFacts ==
    ASSUME Typed, NEW p \in Procs
    PROVE  /\ req[p].op \in Ops /\ req[p].org # "" /\ req[p] \in offered
           /\ req[p].op \in ObjectOps => req[p].typ \in ObjectTypes
           /\ req[p].op = "createContainer" => req[p].typ = "containers"
           /\ req[p].op \in ItemOps \cup {"createDataBag", "deleteDataBag"} => req[p].typ = "data"
           /\ req[p].op \in PolicyOps => req[p].typ = "policies"
           /\ req[p].op = "deleteGroup" => req[p].typ = "policy_groups" /\ req[p].name = req[p].group
           /\ req[p].op \in {"deployPolicy", "undeployPolicy", "deleteGroup"} => req[p].group \in Groups
           /\ req[p].op = "putACL" => req[p].typ \in ACLTypes
BY RoutedRequests DEF Typed

\* Of a request: what it never writes.
LEMMA NeverWritten ==
    ASSUME Typed, NEW p \in Procs, NEW k, Writes(req[p], k)
    PROVE  /\ k[1] = "" => k[2] = "organizations"
           /\ req[p].op \notin OrgOps => k # Validator(BootOrg)
           /\ req[p].org # BootOrg => k # Validator(BootOrg)
<1> DEFINE r == req[p]
<1>0. /\ r.op \in Ops /\ r.org # "" /\ (r.op \in ObjectOps => r.typ \in ObjectTypes)
      /\ (r.op = "createContainer" => r.typ = "containers") /\ BootOrg # ""
  BY RequestFacts, RoutedRequests
<1>1. /\ OrgMeta(r.org)[1] = "" /\ OrgMeta(r.org)[2] = "organizations"
      /\ Validator(BootOrg)[1] = BootOrg /\ Validator(BootOrg)[2] = "clients"
      /\ ACLKey(r)[1] = r.org /\ ACLKey(r)[2] = "acls"
      /\ ObjectKey(r)[1] = r.org /\ ObjectKey(r)[2] = r.typ
      /\ ItemKey(r)[1] = r.org /\ ItemKey(r)[2] = "databag_items"
      /\ BagKey(r)[1] = r.org /\ BagKey(r)[2] = "data_bags"
      /\ RevisionKey(r)[1] = r.org /\ RevisionKey(r)[2] = "policy_revisions"
      /\ GroupKey(r)[1] = r.org /\ GroupKey(r)[2] = "policy_groups"
  BY DEF OrgMeta, Validator, ACLKey, ObjectKey, ItemKey, BagKey, RevisionKey, GroupKey
<1>3. k \in Provisions(r.org) => k = OrgMeta(r.org) \/ k[1] = r.org
  BY PlanFacts
<1> HIDE DEF r
<1>4. CASE r.op \in OrgOps
  <2>1. k = OrgMeta(r.org) \/ k[1] = r.org
    BY <1>3, <1>4, WritesCases DEF OrgOps, r
  <2> QED
    BY <1>0, <1>1, <1>4, <2>1 DEF r
<1>5. CASE r.op \in {"createObject", "putObject", "deleteObject", "createContainer"}
  <2>1. k \in {ObjectKey(r), ACLKey(r)} /\ r.typ \in ObjectTypes
    BY <1>0, <1>5, WritesCases DEF ObjectOps, ObjectTypes, r
  <2>2. k[1] = r.org /\ k[2] # "clients"
    BY <1>1, <2>1 DEF ObjectTypes
  <2> QED
    BY <1>0, <1>1, <2>2 DEF r
<1>6. CASE r.op \in Ops \ (OrgOps \cup ObjectOps \cup {"createContainer"})
  <2>1. k[1] = r.org /\ k[2] # "clients"
    BY <1>1, <1>6, WritesCases DEF Ops, OrgOps, ObjectOps, ReadOps, DeleteOps, PolicyOps, ItemOps, r
  <2> QED
    BY <1>0, <1>1, <2>1 DEF r
<1> QED
  BY <1>0, <1>4, <1>5, <1>6 DEF Ops, ObjectOps

-----------------------------------------------------------------------------
(* What a step changes.                                                     *)

\* The document k is put, with a value that is not an older version's ACL.
Changes(p) ==
    /\ IsStore(db')
    /\ \A k : Same(db, db', k) \/ Writes(req[p], k)
    /\ \A k : IsLegacy(db', k) => IsLegacy(db, k)
    /\ <<pc[p], loc[p]>>' # <<pc[p], loc[p]>>

LEMMA PutChanges ==
    ASSUME Typed, NEW p \in Procs, NEW k, NEW v, db' = set(db, k, v), Writes(req[p], k), pc'[p] # pc[p],
           k = ClientsACL(k[1]) => v # "legacy"
    PROVE  Changes(p) /\ db'.orgs = db.orgs
<1>1. /\ IsStore(db') /\ db'.orgs = db.orgs /\ DOMAIN db'.docs = DOMAIN db.docs \cup {k} /\ db'.docs[k] = v
      /\ \A x : x # k => Same(db, db', x)
  BY SetFacts DEF Typed
<1>2. \A x : IsLegacy(db', x) => IsLegacy(db, x)
  BY <1>1 DEF IsLegacy, Same
<1>3. <<pc[p], loc[p]>>' # <<pc[p], loc[p]>>
  OBVIOUS
<1> QED
  BY <1>1, <1>2, <1>3 DEF Changes

LEMMA DeleteChanges ==
    ASSUME Typed, NEW p \in Procs, NEW k, db' = Delete(db, {k}), Writes(req[p], k),
           <<pc[p], loc[p]>>' # <<pc[p], loc[p]>>
    PROVE  Changes(p) /\ db'.orgs = db.orgs
<1>1. /\ IsStore(db') /\ db'.orgs = db.orgs /\ DOMAIN db'.docs = DOMAIN db.docs \ {k}
      /\ \A x : x \notin {k} => Same(db, db', x)
  <2>1. IsStore(db)
    BY DEF Typed
  <2> QED
    BY <2>1, DeleteFacts
<1>2. \A x : IsLegacy(db', x) => IsLegacy(db, x)
  BY <1>1 DEF IsLegacy, Same
<1> QED
  BY <1>1, <1>2 DEF Changes

Settles(p) ==
    /\ Changes(p)
    /\ \/ db'.orgs = db.orgs
       \/ req[p].op \in OrgOps /\ \A o : o # req[p].org => (o \in db'.orgs <=> o \in db.orgs)

LEMMA PutsOneChanges ==
    ASSUME Control, NEW p \in Procs, PutsOne(p) \/ Saves(p)
    PROVE  Settles(p)
<1> DEFINE r == req[p]
<1>0. Typed /\ Stage(p) /\ Listed(p)
  BY DEF Control
<1>1. /\ ObjectKey(r)[2] = r.typ /\ BagKey(r)[2] = "data_bags" /\ ItemKey(r)[2] = "databag_items"
      /\ RevisionKey(r)[2] = "policy_revisions" /\ OrgMeta(r.org)[2] = "organizations" /\ GroupKey(r)[2] = "policy_groups"
      /\ \A o : ClientsACL(o)[2] = "acls"
  BY DEF ObjectKey, BagKey, ItemKey, RevisionKey, OrgMeta, GroupKey, ClientsACL
<1>2. \E k, v, from, to : /\ Puts(p, from, k, v, to) /\ Writes(r, k) /\ from # to
                          /\ k[2] = "acls" => v # "legacy"
  <2>1. CASE Puts(p, "createObject", ObjectKey(r), "doc", "grantCreator")
    <3>1. Writes(r, ObjectKey(r))
      BY <1>0, <2>1, WritesCases DEF Stage, Puts, Goes, Ops, ObjectOps
    <3> QED
      BY <2>1, <3>1
  <2>2. CASE Puts(p, "grantCreator", ACLKey(r), "creator", "idle")
    <3>1. Writes(r, ACLKey(r))
      BY <1>0, <2>2, WritesCases DEF Stage, Puts, Goes
    <3> QED
      BY <2>2, <3>1
  <2>3. CASE Puts(p, "createContainer", ObjectKey(r), "doc", "idle")
    <3>1. Writes(r, ObjectKey(r))
      BY <1>0, <2>3, WritesCases DEF Stage, Puts, Goes, Ops
    <3> QED
      BY <2>3, <3>1
  <2>4. CASE Puts(p, "storeObject", ObjectKey(r), "put", "idle")
    <3>1. Writes(r, ObjectKey(r))
      BY <1>0, <2>4, WritesCases DEF Stage, Puts, Goes
    <3> QED
      BY <2>4, <3>1
  <2>5. CASE Puts(p, "storeACL", ACLKey(r), "custom", "idle")
    <3>1. Writes(r, ACLKey(r))
      BY <1>0, <2>5, WritesCases DEF Stage, Puts, Goes
    <3> QED
      BY <2>5, <3>1
  <2>6. CASE Puts(p, "createDataBag", BagKey(r), "doc", "idle")
    <3>1. Writes(r, BagKey(r))
      BY <1>0, <2>6, WritesCases DEF Stage, Puts, Goes, Ops
    <3> QED
      BY <2>6, <3>1
  <2>7. CASE Puts(p, "inBag", ItemKey(r), "doc", "idle") /\ r.op = "createItem"
    <3>1. Writes(r, ItemKey(r))
      BY <2>7, WritesCases
    <3> QED
      BY <2>7, <3>1
  <2>8. CASE Puts(p, "storeItem", ItemKey(r), "put", "idle")
    <3>1. Writes(r, ItemKey(r))
      BY <1>0, <2>8, WritesCases DEF Stage, Puts, Goes
    <3> QED
      BY <2>8, <3>1
  <2>9. CASE Puts(p, "createRevision", RevisionKey(r), "doc", "idle")
    <3>1. Writes(r, RevisionKey(r))
      BY <1>0, <2>9, WritesCases DEF Stage, Puts, Goes, Ops, PolicyOps
    <3> QED
      BY <2>9, <3>1
  <2>10. CASE Puts(p, "deployPolicy", RevisionKey(r), "doc", "deployLoad")
    <3>1. Writes(r, RevisionKey(r))
      BY <1>0, <2>10, WritesCases DEF Stage, Puts, Goes, Ops, PolicyOps
    <3> QED
      BY <2>10, <3>1
  <2>11. CASE Puts(p, "storeMeta", OrgMeta(r.org), "doc", "idle")
    <3>1. Writes(r, OrgMeta(r.org))
      BY <1>0, <2>11, WritesCases DEF Stage, Puts, Goes
    <3> QED
      BY <2>11, <3>1
  <2>12. CASE Puts(p, "saveGroup", GroupKey(r), loc[p].group, "idle")
    <3>1. Writes(r, GroupKey(r))
      BY <1>0, <2>12, WritesCases DEF Stage, Puts, Goes
    <3> QED
      BY <1>1, <2>12, <3>1
  <2>13. CASE Puts(p, "saveGroups", loc[p].key, loc[p].group, "loadGroups")
    <3>1. loc[p].key[1] = r.org /\ loc[p].key[2] = "policy_groups" /\ r.op \in {"deletePolicy", "deleteRevision"}
      BY <1>0, <2>13 DEF Stage, Listed, IsIn, Puts, Goes
    <3>2. Writes(r, loc[p].key)
      BY <3>1, WritesCases
    <3> QED
      BY <2>13, <3>1, <3>2
  <2> QED
    BY <2>1, <2>2, <2>3, <2>4, <2>5, <2>6, <2>7, <2>8, <2>9, <2>10, <2>11, <2>12, <2>13 DEF PutsOne, Saves
<1>3. PICK k, v, from, to : /\ Puts(p, from, k, v, to) /\ Writes(r, k) /\ from # to
                            /\ k[2] = "acls" => v # "legacy"
  BY <1>2
<1>4. pc'[p] # pc[p] /\ db' = set(db, k, v)
  BY <1>0, <1>3 DEF Puts, Goes, Typed
<1>5. k = ClientsACL(k[1]) => v # "legacy"
  BY <1>1, <1>3
<1> QED
  BY <1>0, <1>3, <1>4, <1>5, PutChanges DEF Settles

LEMMA DeletesChange ==
    ASSUME Control, NEW p \in Procs, DeletesOne(p) \/ (\E k : DeletesEach(p, k)) \/ DeletesRevision(p)
    PROVE  Settles(p)
<1> DEFINE r == req[p]
<1>0. Typed /\ Stage(p) /\ Listed(p)
  BY DEF Control
<1>1. CASE DeletesOne(p)
  <2>1. \E k, from, to : Deletes(p, from, k, to) /\ Writes(r, k) /\ from # to
    <3>1. CASE Deletes(p, "deleteObject", ObjectKey(r), "deleteACL")
      <4>1. Writes(r, ObjectKey(r))
        BY <1>0, <3>1, WritesCases DEF Stage, Deletes, Goes, Ops, ObjectOps
      <4> QED
        BY <3>1, <4>1
    <3>2. CASE Deletes(p, "deleteACL", ACLKey(r), "idle")
      <4>1. Writes(r, ACLKey(r))
        BY <1>0, <3>2, WritesCases DEF Stage, Deletes, Goes
      <4> QED
        BY <3>2, <4>1
    <3>3. CASE Deletes(p, "deleteDataBag", BagKey(r), "listBag")
      <4>1. Writes(r, BagKey(r))
        BY <1>0, <3>3, WritesCases DEF Stage, Deletes, Goes, Ops, DeleteOps
      <4> QED
        BY <3>3, <4>1
    <3>4. CASE Deletes(p, "inBag", ItemKey(r), "idle") /\ r.op = "deleteItem"
      <4>1. Writes(r, ItemKey(r))
        BY <3>4, WritesCases
      <4> QED
        BY <3>4, <4>1
    <3>5. CASE Deletes(p, "deleteGroup", GroupKey(r), "deleteACL")
      <4>1. Writes(r, GroupKey(r))
        BY <1>0, <3>5, WritesCases DEF Stage, Deletes, Goes, Ops, DeleteOps
      <4> QED
        BY <3>5, <4>1
    <3>6. CASE Deletes(p, "deleteOrganization", OrgMeta(r.org), "deleteOrg")
      <4>1. Writes(r, OrgMeta(r.org))
        BY <1>0, <3>6, WritesCases DEF Stage, Deletes, Goes, Ops, OrgOps
      <4> QED
        BY <3>6, <4>1
    <3> QED
      BY <1>1, <3>1, <3>2, <3>3, <3>4, <3>5, <3>6 DEF DeletesOne
  <2>2. PICK k, from, to : Deletes(p, from, k, to) /\ Writes(r, k) /\ from # to
    BY <2>1
  <2>3. pc'[p] # pc[p] /\ db' = Delete(db, {k})
    BY <1>0, <2>2 DEF Deletes, Goes, Typed
  <2>4. <<pc[p], loc[p]>>' # <<pc[p], loc[p]>>
    BY <2>3
  <2> QED
    BY <1>0, <2>2, <2>3, <2>4, DeleteChanges DEF Settles
<1>2. CASE \E k : DeletesEach(p, k)
  <2>1. PICK k : DeletesEach(p, k)
    BY <1>2
  <2>2. Writes(r, k)
    <3>1. CASE pc[p] = "deleteItems"
      <4>1. k[1] = r.org /\ k[2] = "databag_items" /\ k[3] = r.name /\ r.op = "deleteDataBag"
        BY <1>0, <2>1, <3>1 DEF Stage, Listed, IsIn, DeletesEach
      <4> QED
        BY <4>1, WritesCases
    <3>2. CASE pc[p] = "deleteRevisions"
      <4>1. k[1] = r.org /\ k[2] = "policy_revisions" /\ k[3] = r.name /\ r.op = "deletePolicy"
        BY <1>0, <2>1, <3>2 DEF Stage, Listed, IsIn, DeletesEach
      <4> QED
        BY <4>1, WritesCases
    <3> QED
      BY <2>1, <3>1, <3>2 DEF DeletesEach
  <2>3. loc'[p] # loc[p]
    <3>1. loc'[p] = [loc[p] EXCEPT !.todo = loc[p].todo \ {k}] /\ k \in loc[p].todo
      BY <1>0, <2>1 DEF DeletesEach, Takes, Typed
    <3>2. loc'[p].todo = loc[p].todo \ {k}
      BY <1>0, <3>1 DEF Typed, LocFields
    <3> QED
      BY <3>1, <3>2
  <2>4. <<pc[p], loc[p]>>' # <<pc[p], loc[p]>>
    BY <2>3
  <2>5. db' = Delete(db, {k})
    BY <2>1 DEF DeletesEach
  <2> QED
    BY <1>0, <2>2, <2>4, <2>5, DeleteChanges DEF Settles
<1>3. CASE DeletesRevision(p)
  <2>1. Writes(r, RevisionKey(r))
    BY <1>0, <1>3, WritesCases DEF Stage, DeletesRevision, Goes, Ops, DeleteOps
  <2>2. pc'[p] # pc[p]
    BY <1>0, <1>3 DEF DeletesRevision, Goes, Typed
  <2>3. <<pc[p], loc[p]>>' # <<pc[p], loc[p]>> /\ db' = Delete(db, {RevisionKey(r)})
    BY <1>3, <2>2 DEF DeletesRevision
  <2> QED
    BY <1>0, <2>1, <2>3, DeleteChanges DEF Settles
<1> QED
  BY <1>1, <1>2, <1>3

LEMMA OrgChanges ==
    ASSUME Control, NEW p \in Procs, Founds(p) \/ Creates(p) \/ Provides(p) \/ DropsOrg(p)
    PROVE  Settles(p)
<1> DEFINE r == req[p]
<1>0. Typed /\ Stage(p) /\ Listed(p) /\ IsStore(db) /\ r.org # ""
  BY RequestFacts DEF Control, Typed
<1>1. CASE Founds(p)
  <2>1. r.op = "createOrganization" /\ pc'[p] # pc[p] /\ db' = Founded(db, r.org, -1)
    BY <1>0, <1>1 DEF Stage, Founds, Goes, Ops, OrgOps, Typed
  <2>2. /\ IsStore(db') /\ db'.orgs = db.orgs \cup {r.org} /\ db'.docs[ClientsACL(r.org)] = "seeded"
        /\ \A x : x \notin PlanKeys(r.org) => Same(db, db', x)
    <3>1. PICK v : db' = Founded(db, r.org, v)
      BY <2>1
    <3>0. IsStore(db)
      BY <1>0
    <3> HIDE DEF r
    <3>2. IsStore(Founded(db, r.org, v)) /\ Founded(db, r.org, v).orgs = db.orgs \cup {r.org}
      BY <3>0, FoundedFacts
    <3>3. Founded(db, r.org, v).docs[ClientsACL(r.org)] = "seeded"
      BY <3>0, FoundedFacts
    <3>4. \A x : x \notin PlanKeys(r.org) => Same(db, Founded(db, r.org, v), x)
      BY <3>0, FoundedFacts
    <3> QED
      BY <3>1, <3>2, <3>3, <3>4
  <2>3. \A x : Same(db, db', x) \/ Writes(r, x)
    <3>1. \A x : Writes(r, x) <=> x \in PlanKeys(r.org)
      BY <2>1, WritesCases, PlanFacts
    <3> QED
      BY <2>2, <3>1
  <2>4. ASSUME NEW x, IsLegacy(db', x)
        PROVE  IsLegacy(db, x)
    <3>1. x \notin PlanKeys(r.org)
      <4>1. ClientsACL(x[1])[1] = x[1] /\ ClientsACL(x[1])[2] = "acls" /\ OrgMeta(r.org)[2] = "organizations"
        BY DEF ClientsACL, OrgMeta
      <4>2. x = ClientsACL(x[1]) /\ db'.docs[x] = "legacy"
        BY <2>4 DEF IsLegacy
      <4>3. x # ClientsACL(r.org)
        BY <2>2, <4>2
      <4> QED
        BY <4>1, <4>2, <4>3, PlanFacts
    <3> QED
      BY <2>2, <2>4, <3>1 DEF IsLegacy, Same
  <2> QED
    BY <2>1, <2>2, <2>3, <2>4 DEF Settles, Changes, OrgOps
<1>2. CASE Creates(p)
  <2>1. r.op = "createOrganization" /\ pc'[p] # pc[p] /\ db' = CreateOrg(db, r.org)
    BY <1>0, <1>2 DEF Stage, Creates, Goes, Typed
  <2>2. IsStore(db') /\ db'.orgs = db.orgs \cup {r.org} /\ db'.docs = db.docs
    BY <1>0, <2>1, OrgFacts
  <2> QED
    BY <2>1, <2>2 DEF Settles, Changes, OrgOps, Same, IsLegacy
<1>3. CASE Provides(p)
  <2> DEFINE w == Plan(r.org, -1)[loc[p].step]
  <2>1. r.op = "createOrganization" /\ loc[p].step \in 1 .. 5 /\ db' = Provide(db, w)
    BY <1>0, <1>3 DEF Stage, Listed, Provides, Goes
  <2>2. w[1] \in PlanKeys(r.org) /\ (w[1] = ClientsACL(r.org) => w[2] = "seeded")
    BY <2>1, PlanFacts
  <2>3. <<pc[p], loc[p]>>' # <<pc[p], loc[p]>>
    <3>1. loc'[p].step = loc[p].step + 1
      BY <1>0, <1>3 DEF Provides, Takes, Typed, LocFields
    <3> QED
      BY <2>1, <3>1
  <2> HIDE DEF w
  <2>4. /\ IsStore(db') /\ db'.orgs = db.orgs /\ DOMAIN db'.docs = DOMAIN db.docs \cup {w[1]}
        /\ w[1][2] \notin Seeds => db'.docs[w[1]] = w[2]
        /\ \A x : x # w[1] => Same(db, db', x)
    BY <1>0, <2>1, ProvideFacts
  <2>5. \A x : Same(db, db', x) \/ Writes(r, x)
    <3>1. Writes(r, w[1])
      BY <2>1, <2>2, WritesCases, PlanFacts
    <3> QED
      BY <2>4, <3>1
  <2>6. ASSUME NEW x, IsLegacy(db', x)
        PROVE  IsLegacy(db, x)
    <3>1. x # w[1]
      <4>1. ClientsACL(x[1])[2] = "acls" /\ OrgMeta(r.org)[2] = "organizations" /\ "acls" \notin Seeds
        BY DEF ClientsACL, OrgMeta, Seeds
      <4>2. x = ClientsACL(x[1]) /\ db'.docs[x] = "legacy"
        BY <2>6 DEF IsLegacy
      <4>3. SUFFICES ASSUME x = w[1] PROVE FALSE
        OBVIOUS
      <4>4. x[1] = r.org
        BY <2>2, <4>1, <4>2, <4>3, PlanFacts
      <4> QED
        BY <2>2, <2>4, <4>1, <4>2, <4>3, <4>4
    <3> QED
      BY <2>4, <2>6, <3>1 DEF IsLegacy, Same
  <2> QED
    BY <2>3, <2>4, <2>5, <2>6 DEF Settles, Changes
<1>4. CASE DropsOrg(p)
  <2>1. r.op = "deleteOrganization" /\ pc'[p] # pc[p] /\ db' = DeleteOrg(db, r.org)
    BY <1>0, <1>4 DEF Stage, DropsOrg, Goes, Typed
  <2>2. /\ IsStore(db') /\ db'.orgs = db.orgs \ {r.org}
        /\ \A x : x[1] # r.org => Same(db, db', x)
        /\ \A x \in DOMAIN db'.docs : Same(db, db', x)
    BY <1>0, <2>1, OrgFacts
  <2>3. \A x : Same(db, db', x) \/ Writes(r, x)
    BY <2>1, <2>2, WritesCases
  <2>4. \A x : IsLegacy(db', x) => IsLegacy(db, x)
    BY <2>2 DEF IsLegacy, Same
  <2> QED
    BY <2>1, <2>2, <2>3, <2>4 DEF Settles, Changes, OrgOps
<1> QED
  BY <1>1, <1>2, <1>3, <1>4

LEMMA WriteChanges ==
    ASSUME Control, NEW p \in Procs, WriteEffect(p)
    PROVE  Settles(p)
BY PutsOneChanges, DeletesChange, OrgChanges DEF WriteEffect

-----------------------------------------------------------------------------
(* Control.                                                                 *)

Frame(p) ==
    /\ UNCHANGED <<boot, fresh, boots, req, offered, near, frayed>>
    /\ pc[p] # "idle" /\ pc' = [pc EXCEPT ![p] = pc'[p]] /\ DOMAIN loc' = Procs
    /\ \A q \in Procs : q # p => pc'[q] = pc[q] /\ loc'[q] = loc[q]

LEMMA EffectGoes ==
    ASSUME Typed, NEW p \in Procs, Effect(p)
    PROVE  /\ \E from, to : from # "idle" /\ Goes(p, from, to)
           /\ loc' = loc \/ \E l : Takes(p, l)
<1>1. CASE ReadEffect(p)
  BY <1>1, Zenon DEF ReadEffect, Answers, Sees, Lists, Skips, Loads, Deploys, Opens, Undeploys, Snaps, Reads, ItemOps
<1>2. CASE PutsOne(p) \/ Saves(p)
  BY <1>2 DEF PutsOne, Saves, Puts
<1>3. CASE DeletesOne(p)
  BY <1>3 DEF DeletesOne, Deletes
<1>4. CASE (\E k : DeletesEach(p, k)) \/ DeletesRevision(p)
  BY <1>4, Zenon DEF DeletesEach, DeletesRevision
<1>5. CASE Founds(p) \/ Creates(p) \/ Provides(p) \/ DropsOrg(p) \/ RollsBack(p)
  BY <1>5, Zenon DEF Founds, Creates, Provides, DropsOrg, RollsBack
<1> QED
  BY <1>1, <1>2, <1>3, <1>4, <1>5 DEF Effect, WriteEffect

LEMMA EffectFrame ==
    ASSUME Typed, NEW p \in Procs, Effect(p)
    PROVE  Frame(p)
<1>1. PICK from, to : from # "idle" /\ Goes(p, from, to)
  BY EffectGoes
<1>2. CASE loc' = loc
  BY <1>1, <1>2 DEF Frame, Goes, Still, Typed
<1>3. CASE \E l : Takes(p, l)
  BY <1>1, <1>3 DEF Frame, Goes, Still, Takes, Typed
<1> QED
  BY <1>2, <1>3, EffectGoes

\* The locals after a step, where a step changes one or more of their fields.
Own(p) == /\ pc'[p] \in Steps /\ DOMAIN loc'[p] = LocFields /\ IsStore(loc'[p].snap)
          /\ Stage(p)' /\ Listed(p)'

LEMMA OwnReads ==
    ASSUME Control, NEW p \in Procs, Answers(p) \/ Sees(p) \/ Lists(p)
    PROVE  Own(p)
<1>0. Typed /\ Stage(p) /\ Listed(p) /\ req[p].op \in Ops
  BY RequestFacts DEF Control
<1>1. CASE Answers(p)
  BY <1>0, <1>1 DEF Answers, Reads, Goes, Still, Own, Typed, Stage, Listed, Steps, Ops, OrgOps, ReadOps, DeleteOps, PolicyOps,
                    ObjectOps, ItemOps
<1>2. CASE Sees(p)
  <2>1. loc'[p] = loc[p] /\ req'[p] = req[p]
    BY <1>2 DEF Sees, Reads, Goes, Still
  <2>2. CASE Reads(p, "org", req[p].op)
    <3>1. pc'[p] = req[p].op
      BY <1>0, <2>2 DEF Reads, Goes, Typed
    <3> QED
      BY <1>0, <2>1, <3>1 DEF Own, Typed, Stage, Listed, Steps, Ops, OrgOps, ReadOps, DeleteOps, PolicyOps, ObjectOps, ItemOps
  <2>3. CASE \/ Reads(p, "putObject", "storeObject")
             \/ Reads(p, "putACL", "storeACL")
             \/ Reads(p, "putOrganization", "storeMeta")
             \/ Reads(p, "found", "rollback")
    <3>1. \/ pc[p] = "putObject" /\ pc'[p] = "storeObject"
          \/ pc[p] = "putACL" /\ pc'[p] = "storeACL"
          \/ pc[p] = "putOrganization" /\ pc'[p] = "storeMeta"
          \/ pc[p] = "found" /\ pc'[p] = "rollback"
      BY <1>0, <2>3 DEF Reads, Goes, Typed
    <3> QED
      BY <1>0, <2>1, <3>1 DEF Own, Typed, Stage, Listed, Steps, Ops, OrgOps, ReadOps, DeleteOps, PolicyOps, ObjectOps, ItemOps
  <2>4. CASE \/ pc[p] \in ItemOps /\ Reads(p, pc[p], "inBag")
             \/ Reads(p, "inBag", "storeItem") /\ req[p].op = "putItem"
    <3>1. \/ pc[p] \in ItemOps /\ pc'[p] = "inBag"
          \/ req[p].op = "putItem" /\ pc'[p] = "storeItem"
      BY <1>0, <2>4 DEF Reads, Goes, Typed
    <3> QED
      BY <1>0, <2>1, <3>1 DEF Own, Typed, Stage, Listed, Steps, Ops, OrgOps, ReadOps, DeleteOps, PolicyOps, ObjectOps, ItemOps
  <2>5. CASE \/ Reads(p, "deleteItems", "deleteACL")
             \/ Reads(p, "deleteRevisions", "listGroups")
             \/ Reads(p, "loadGroups", "deleteACL") /\ req[p].op = "deletePolicy"
    <3>1. \/ pc[p] = "deleteItems" /\ pc'[p] = "deleteACL"
          \/ pc[p] = "deleteRevisions" /\ pc'[p] = "listGroups"
          \/ req[p].op = "deletePolicy" /\ pc'[p] = "deleteACL"
      BY <1>0, <2>5 DEF Reads, Goes, Typed
    <3> QED
      BY <1>0, <2>1, <3>1 DEF Own, Typed, Stage, Listed, Steps, Ops, OrgOps, ReadOps, DeleteOps, PolicyOps, ObjectOps, ItemOps
  <2> QED
    BY <1>2, <2>2, <2>3, <2>4, <2>5 DEF Sees
<1>3. CASE Lists(p)
  <2>1. CASE Reads(p, "listBag", "deleteItems") /\ Takes(p, [loc[p] EXCEPT !.todo = CollKeys(db, req[p].org, "databag_items", req[p].name)])
    <3> DEFINE K == CollKeys(db, req[p].org, "databag_items", req[p].name)
    <3>1. \A k \in K : k[1] = req[p].org /\ k[2] = "databag_items" /\ k[3] = req[p].name
      BY DEF CollKeys
    <3> HIDE DEF K
    <3>2. pc'[p] = "deleteItems" /\ req'[p] = req[p] /\ pc[p] = "listBag" /\ loc'[p] = [loc[p] EXCEPT !.todo = K]
      BY <1>0, <2>1 DEF Reads, Goes, Still, Takes, Typed, K
    <3>3. DOMAIN loc'[p] = LocFields /\ loc'[p].todo = K /\ loc'[p].snap = loc[p].snap
      BY <1>0, <3>2 DEF Typed, LocFields
    <3> QED
      BY <1>0, <3>1, <3>2, <3>3 DEF Own, Typed, Stage, Listed, IsIn, Steps, Ops, OrgOps, ReadOps, DeleteOps, PolicyOps, ObjectOps,
                                    ItemOps
  <2>2. CASE Reads(p, "deletePolicy", "deleteRevisions") /\ Takes(p, [loc[p] EXCEPT !.todo = CollKeys(db, req[p].org, "policy_revisions", req[p].name)])
    <3> DEFINE K == CollKeys(db, req[p].org, "policy_revisions", req[p].name)
    <3>1. \A k \in K : k[1] = req[p].org /\ k[2] = "policy_revisions" /\ k[3] = req[p].name
      BY DEF CollKeys
    <3> HIDE DEF K
    <3>2. pc'[p] = "deleteRevisions" /\ req'[p] = req[p] /\ pc[p] = "deletePolicy" /\ loc'[p] = [loc[p] EXCEPT !.todo = K]
      BY <1>0, <2>2 DEF Reads, Goes, Still, Takes, Typed, K
    <3>3. DOMAIN loc'[p] = LocFields /\ loc'[p].todo = K /\ loc'[p].snap = loc[p].snap
      BY <1>0, <3>2 DEF Typed, LocFields
    <3> QED
      BY <1>0, <3>1, <3>2, <3>3 DEF Own, Typed, Stage, Listed, IsIn, Steps, Ops, OrgOps, ReadOps, DeleteOps, PolicyOps, ObjectOps,
                                    ItemOps
  <2>3. CASE Reads(p, "listGroups", "loadGroups") /\ Takes(p, [loc[p] EXCEPT !.todo = CollKeys(db, req[p].org, "policy_groups", "")])
    <3> DEFINE K == CollKeys(db, req[p].org, "policy_groups", "")
    <3>1. \A k \in K : k[1] = req[p].org /\ k[2] = "policy_groups"
      BY DEF CollKeys
    <3> HIDE DEF K
    <3>2. pc'[p] = "loadGroups" /\ req'[p] = req[p] /\ pc[p] = "listGroups" /\ loc'[p] = [loc[p] EXCEPT !.todo = K]
      BY <1>0, <2>3 DEF Reads, Goes, Still, Takes, Typed, K
    <3>3. DOMAIN loc'[p] = LocFields /\ loc'[p].todo = K /\ loc'[p].snap = loc[p].snap
      BY <1>0, <3>2 DEF Typed, LocFields
    <3> QED
      BY <1>0, <3>1, <3>2, <3>3 DEF Own, Typed, Stage, Listed, IsIn, Steps, Ops, OrgOps, ReadOps, DeleteOps, PolicyOps, ObjectOps,
                                    ItemOps
  <2> QED
    BY <1>3, <2>1, <2>2, <2>3 DEF Lists
<1> QED
  BY <1>1, <1>2, <1>3

LEMMA OwnGroups ==
    ASSUME Control, NEW p \in Procs,
           (\E k : Skips(p, k) \/ Loads(p, k)) \/ Deploys(p) \/ Opens(p) \/ Undeploys(p) \/ Snaps(p)
    PROVE  Own(p)
<1>0. Typed /\ Stage(p) /\ Listed(p) /\ req[p].op \in Ops
  BY RequestFacts DEF Control
<1>1. CASE \E k : Skips(p, k)
  <2>1. PICK k : Skips(p, k)
    BY <1>1
  <2>2. /\ loc'[p] = [loc[p] EXCEPT !.todo = loc[p].todo \ {k}] /\ req'[p] = req[p]
        /\ pc[p] = "loadGroups" /\ pc'[p] = "loadGroups"
    BY <1>0, <2>1 DEF Skips, Reads, Goes, Still, Takes, Typed
  <2>3. DOMAIN loc'[p] = LocFields /\ loc'[p].todo = loc[p].todo \ {k} /\ loc'[p].snap = loc[p].snap
    BY <1>0, <2>2 DEF Typed, LocFields
  <2> QED
    BY <1>0, <2>2, <2>3 DEF Own, Typed, Stage, Listed, IsIn, Steps, Ops, OrgOps, ReadOps, DeleteOps, PolicyOps, ObjectOps, ItemOps
<1>2. CASE \E k : Loads(p, k)
  <2>1. PICK k : Loads(p, k)
    BY <1>2
  <2> DEFINE g == Undeployed(db.docs[k], req[p].name)
  <2>2. /\ loc'[p] = [loc[p] EXCEPT !.group = g, !.todo = loc[p].todo \ {k}, !.key = k] /\ req'[p] = req[p]
        /\ pc[p] = "loadGroups" /\ pc'[p] = "saveGroups" /\ k \in loc[p].todo
    BY <1>0, <2>1 DEF Loads, Reads, Goes, Still, Takes, Typed
  <2> HIDE DEF g
  <2>3. DOMAIN loc'[p] = LocFields /\ loc'[p].todo = loc[p].todo \ {k} /\ loc'[p].key = k /\ loc'[p].snap = loc[p].snap
    BY <1>0, <2>2 DEF Typed, LocFields
  <2> QED
    BY <1>0, <2>2, <2>3 DEF Own, Typed, Stage, Listed, IsIn, Steps, Ops, OrgOps, ReadOps, DeleteOps, PolicyOps, ObjectOps, ItemOps
<1>3. CASE Deploys(p) \/ Opens(p) \/ Undeploys(p)
  <2>1. \E g : /\ loc'[p] = [loc[p] EXCEPT !.group = g] /\ req'[p] = req[p]
               /\ \/ pc[p] = "deployLoad" /\ pc'[p] = "saveGroup"
                  \/ pc[p] \in {"getGroupPolicy", "undeployPolicy"} /\ pc'[p] = "getDeployed"
                  \/ req[p].op = "undeployPolicy" /\ pc'[p] = "saveGroup"
    BY <1>0, <1>3 DEF Deploys, Opens, Undeploys, Reads, Goes, Still, Takes, Typed
  <2>2. PICK g : /\ loc'[p] = [loc[p] EXCEPT !.group = g] /\ req'[p] = req[p]
                 /\ \/ pc[p] = "deployLoad" /\ pc'[p] = "saveGroup"
                    \/ pc[p] \in {"getGroupPolicy", "undeployPolicy"} /\ pc'[p] = "getDeployed"
                    \/ req[p].op = "undeployPolicy" /\ pc'[p] = "saveGroup"
    BY <2>1
  <2>3. DOMAIN loc'[p] = LocFields /\ loc'[p].snap = loc[p].snap
    BY <1>0, <2>2 DEF Typed, LocFields
  <2> QED
    BY <1>0, <2>2, <2>3 DEF Own, Typed, Stage, Listed, IsIn, Steps, Ops, OrgOps, ReadOps, DeleteOps, PolicyOps, ObjectOps, ItemOps
<1>4. CASE Snaps(p)
  <2>1. /\ loc'[p] = [loc[p] EXCEPT !.snap = db] /\ req'[p] = req[p]
        /\ pc[p] = "createOrganization" /\ pc'[p] = "found"
    BY <1>0, <1>4 DEF Snaps, Reads, Goes, Still, Takes, Typed
  <2>2. DOMAIN loc'[p] = LocFields /\ loc'[p].snap = db
    BY <1>0, <2>1 DEF Typed, LocFields
  <2> QED
    BY <1>0, <2>1, <2>2 DEF Own, Typed, Stage, Listed, IsIn, Steps, Ops, OrgOps, ReadOps, DeleteOps, PolicyOps, ObjectOps, ItemOps
<1> QED
  BY <1>1, <1>2, <1>3, <1>4

LEMMA OwnWrites ==
    ASSUME Control, NEW p \in Procs, WriteEffect(p) \/ RollsBack(p)
    PROVE  Own(p)
<1>0. Typed /\ Stage(p) /\ Listed(p) /\ req[p].op \in Ops
  BY RequestFacts DEF Control
<1>1. ASSUME NEW from, NEW to, Goes(p, from, to), UNCHANGED loc,
             \/ to = "idle"
             \/ from = "createObject" /\ to = "grantCreator"
             \/ from = "deployPolicy" /\ to = "deployLoad"
             \/ from = "saveGroups" /\ to = "loadGroups"
             \/ from \in {"deleteObject", "deleteGroup"} /\ to = "deleteACL"
             \/ from = "deleteDataBag" /\ to = "listBag"
             \/ from = "deleteOrganization" /\ to = "deleteOrg"
             \/ from = "deleteRevision" /\ to = "listGroups"
      PROVE  Own(p)
  <2>1. pc'[p] = to /\ pc[p] = from /\ loc'[p] = loc[p] /\ req'[p] = req[p]
    BY <1>0, <1>1 DEF Goes, Still, Typed
  <2> QED
    BY <1>0, <1>1, <2>1 DEF Own, Typed, Stage, Listed, Steps, Ops, OrgOps, ReadOps, DeleteOps, PolicyOps, ObjectOps, ItemOps
<1>2. CASE PutsOne(p) \/ Saves(p)
  BY <1>1, <1>2, Zenon DEF PutsOne, Saves, Puts
<1>3. CASE DeletesOne(p) \/ DeletesRevision(p)
  <2>1. CASE DeletesRevision(p)
    BY <1>1, <2>1, Zenon DEF DeletesRevision
  <2>2. CASE DeletesOne(p)
    BY <1>1, <2>2 DEF DeletesOne, Deletes
  <2> QED
    BY <1>3, <2>1, <2>2
<1>4. CASE Founds(p) \/ DropsOrg(p) \/ RollsBack(p)
  BY <1>1, <1>4, Zenon DEF Founds, DropsOrg, RollsBack
<1>5. CASE \E k : DeletesEach(p, k)
  <2>1. PICK k : DeletesEach(p, k)
    BY <1>5
  <2>2. /\ loc'[p] = [loc[p] EXCEPT !.todo = loc[p].todo \ {k}] /\ req'[p] = req[p]
        /\ pc'[p] = pc[p] /\ pc[p] \in {"deleteItems", "deleteRevisions"}
    BY <1>0, <2>1 DEF DeletesEach, Goes, Still, Takes, Typed
  <2>3. DOMAIN loc'[p] = LocFields /\ loc'[p].todo = loc[p].todo \ {k} /\ loc'[p].snap = loc[p].snap
    BY <1>0, <2>2 DEF Typed, LocFields
  <2> QED
    BY <1>0, <2>2, <2>3 DEF Own, Typed, Stage, Listed, IsIn, Steps, Ops, OrgOps, ReadOps, DeleteOps, PolicyOps, ObjectOps, ItemOps
<1>6. CASE Creates(p) \/ Provides(p)
  <2>1. \E n : /\ loc'[p] = [loc[p] EXCEPT !.step = n] /\ req'[p] = req[p] /\ pc[p] \in {"found", "provision"}
               /\ \/ pc'[p] = "idle"
                  \/ pc'[p] = "provision" /\ n \in 1 .. 5
    <3>1. CASE Creates(p)
      <4>1. /\ loc'[p] = [loc[p] EXCEPT !.step = 1] /\ req'[p] = req[p] /\ pc[p] = "found" /\ pc'[p] = "provision"
            /\ 1 \in 1 .. 5
        BY <1>0, <3>1 DEF Creates, Goes, Still, Takes, Typed
      <4> QED
        BY <4>1
    <3>2. CASE Provides(p)
      <4>1. /\ loc'[p] = [loc[p] EXCEPT !.step = loc[p].step + 1] /\ req'[p] = req[p] /\ pc[p] = "provision"
            /\ pc'[p] = IF loc[p].step = 5 THEN "idle" ELSE "provision"
        BY <1>0, <3>2 DEF Provides, Goes, Still, Takes, Typed
      <4>2. loc[p].step \in 1 .. 5
        BY <1>0, <4>1 DEF Listed
      <4>3. loc[p].step # 5 => loc[p].step + 1 \in 1 .. 5
        BY <4>2
      <4> QED
        BY <4>1, <4>3
    <3> QED
      BY <1>6, <3>1, <3>2
  <2>2. PICK n : /\ loc'[p] = [loc[p] EXCEPT !.step = n] /\ req'[p] = req[p] /\ pc[p] \in {"found", "provision"}
                 /\ \/ pc'[p] = "idle"
                    \/ pc'[p] = "provision" /\ n \in 1 .. 5
    BY <2>1
  <2>3. DOMAIN loc'[p] = LocFields /\ loc'[p].step = n /\ loc'[p].snap = loc[p].snap
    BY <1>0, <2>2 DEF Typed, LocFields
  <2> QED
    BY <1>0, <2>2, <2>3 DEF Own, Typed, Stage, Listed, IsIn, Steps, Ops, OrgOps, ReadOps, DeleteOps, PolicyOps, ObjectOps, ItemOps
<1> QED
  BY <1>2, <1>3, <1>4, <1>5, <1>6 DEF WriteEffect

\* A step keeps the control state in order.
LEMMA ControlStep ==
    ASSUME Control, NEW p \in Procs, Effect(p)
    PROVE  Control'
<1>1. Typed /\ Frame(p)
  BY EffectFrame DEF Control
<1>2. Own(p)
  BY OwnReads, OwnGroups, OwnWrites, Zenon DEF Effect, ReadEffect
<1>3. IsStore(db')
  <2>1. CASE ReadEffect(p)
    <3>1. UNCHANGED db
      BY <2>1, Zenon DEF ReadEffect, Answers, Sees, Lists, Skips, Loads, Deploys, Opens, Undeploys, Snaps, Reads
    <3> QED
      BY <1>1, <3>1 DEF Typed
  <2>2. CASE WriteEffect(p)
    BY <2>2, WriteChanges DEF Settles, Changes
  <2>3. CASE RollsBack(p)
    BY <1>1, <2>3 DEF RollsBack, Typed
  <2> QED
    BY <2>1, <2>2, <2>3 DEF Effect
<1>4. Typed'
  BY <1>1, <1>2, <1>3 DEF Typed, Frame, Own
<1>5. ASSUME NEW q \in Procs
      PROVE  Stage(q)' /\ Listed(q)'
  <2>1. CASE q = p
    BY <1>2, <2>1 DEF Own
  <2>2. CASE q # p
    <3>1. pc'[q] = pc[q] /\ loc'[q] = loc[q] /\ req'[q] = req[q] /\ Stage(q) /\ Listed(q)
      BY <1>1, <2>2 DEF Frame, Control
    <3> QED
      BY <3>1 DEF Stage, Listed, IsIn
  <2> QED
    BY <2>1, <2>2
<1>6. Busy' \subseteq Busy
  BY <1>1 DEF Frame, Busy
<1>7. Aware' /\ Quiet'
  <2>1. near' = near /\ req' = req /\ boot' = boot /\ p \in Busy
    BY <1>1 DEF Frame, Busy
  <2> QED
    BY <1>6, <2>1 DEF Control, Aware, Quiet
<1> QED
  BY <1>4, <1>5, <1>7 DEF Control

LEMMA ControlBegin ==
    ASSUME Control, NEW p \in Procs, Begin(p)
    PROVE  Control'
<1>0. Typed /\ IsStore(NoLocals.snap) /\ DOMAIN NoLocals = LocFields
  BY DEF Control, NoLocals, LocFields, IsStore, EmptyStore
<1>1. PICK r \in offered :
        /\ req' = [req EXCEPT ![p] = r]
        /\ near' = [q \in Procs |-> IF q = p THEN {req[b] : b \in Busy}
                                    ELSE IF q \in Busy THEN near[q] \cup {r} ELSE near[q]]
        /\ pc' = [pc EXCEPT ![p] = IF r.op \in OrgOps \cup {"getOrganization"} THEN r.op ELSE "org"]
  BY DEF Begin
<1>2. r.op \in Ops
  BY <1>0, RoutedRequests DEF Typed
<1>3. loc' = [loc EXCEPT ![p] = NoLocals] /\ UNCHANGED <<db, boot, offered>> /\ pc[p] = "idle" /\ boot = "up"
  BY DEF Begin, Local, start
<1> HIDE DEF NoLocals
<1>4. /\ pc'[p] \in Steps /\ loc'[p] = NoLocals /\ req'[p] = r
      /\ \A q \in Procs : q # p => pc'[q] = pc[q] /\ loc'[q] = loc[q] /\ req'[q] = req[q]
      /\ pc'[p] = r.op \/ pc'[p] = "org"
  BY <1>0, <1>1, <1>2, <1>3 DEF Typed, Steps
<1>5. Typed'
  BY <1>0, <1>1, <1>3, <1>4 DEF Typed
<1>6. ASSUME NEW q \in Procs
      PROVE  Stage(q)' /\ Listed(q)'
  <2>1. CASE q = p
    BY <1>2, <1>4, <2>1 DEF Stage, Listed, Ops, OrgOps, ReadOps, DeleteOps, PolicyOps, ObjectOps, ItemOps
  <2>2. CASE q # p
    <3>1. pc'[q] = pc[q] /\ loc'[q] = loc[q] /\ req'[q] = req[q] /\ Stage(q) /\ Listed(q)
      BY <1>4, <2>2 DEF Control
    <3> QED
      BY <3>1 DEF Stage, Listed, IsIn
  <2> QED
    BY <2>1, <2>2
<1>7. Aware'
  <2>1. SUFFICES ASSUME NEW q \in Busy', NEW c \in Busy', q # c
                 PROVE  req'[q] \in near'[c]
    BY DEF Aware
  <2>2. q \in Procs /\ c \in Procs /\ (q # p => q \in Busy) /\ (c # p => c \in Busy)
    BY <1>4 DEF Busy
  <2>3. near'[c] = IF c = p THEN {req[b] : b \in Busy} ELSE IF c \in Busy THEN near[c] \cup {r} ELSE near[c]
    BY <1>1, <2>2
  <2>4. CASE c = p
    BY <1>4, <2>1, <2>2, <2>3, <2>4
  <2>5. CASE c # p
    BY <1>4, <2>1, <2>2, <2>3, <2>5 DEF Control, Aware
  <2> QED
    BY <2>4, <2>5
<1> QED
  BY <1>3, <1>5, <1>6, <1>7 DEF Control, Quiet

\* Nothing is in flight while the server starts.
Starts == LoadKeys \/ BootAdmin \/ BootAdminKey \/ BootOrganization \/ BootOrgKey \/ UpgradeOrgACLs

LEMMA StartStores ==
    ASSUME Typed, Starts
    PROVE  IsStore(db') /\ NoRequests /\ boot # "up"
<1>0. IsStore(db)
  BY DEF Typed
<1>1. NoRequests /\ boot # "up"
  BY DEF Starts, LoadKeys, BootAdmin, BootAdminKey, BootOrganization, BootOrgKey, UpgradeOrgACLs, Boot
<1>2. CASE db' = db
  BY <1>0, <1>1, <1>2
<1>3. CASE \E k, v : db' = set(db, k, v)
  <2>1. IsStore(db')
    BY <1>0, <1>3, SetFacts
  <2> QED
    BY <1>1, <2>1
<1>4. CASE db' = Founded(db, BootOrg, boots)
  <2>1. IsStore(db')
    BY <1>0, <1>4, FoundedFacts
  <2> QED
    BY <1>1, <2>1
<1>5. db' = db \/ (\E k, v : db' = set(db, k, v)) \/ db' = Founded(db, BootOrg, boots)
  BY Zenon DEF Starts, LoadKeys, BootAdmin, BootAdminKey, BootOrganization, BootOrgKey, UpgradeOrgACLs
<1> QED
  BY <1>1, <1>2, <1>3, <1>4, <1>5

LEMMA ControlNext ==
    ASSUME Control, [Next]_vars
    PROVE  Control'
<1>0. Typed
  BY DEF Control
<1>1. ASSUME NEW p \in Procs, Begin(p)
      PROVE  Control'
  BY <1>1, ControlBegin
<1>2. ASSUME NEW p \in Procs, Step(p)
      PROVE  Control'
  BY <1>0, <1>2, StepEffects, ControlStep
<1>3. ASSUME NEW p \in Procs, StoreError(p)
      PROVE  Control'
  <2>1. /\ UNCHANGED <<db, boot, req, loc, offered, near>>
        /\ pc' = [pc EXCEPT ![p] = "idle"]
    BY <1>3 DEF StoreError, Reply, start
  <2>2. Typed' /\ Busy' \subseteq Busy
    BY <1>0, <2>1 DEF Typed, Steps, Busy
  <2>3. ASSUME NEW q \in Procs
        PROVE  Stage(q)' /\ Listed(q)'
    <3>1. Stage(q) /\ Listed(q) /\ (pc'[q] = pc[q] \/ pc'[q] = "idle")
      BY <1>0, <2>1 DEF Control, Typed
    <3> QED
      BY <2>1, <3>1 DEF Stage, Listed, IsIn, Ops, OrgOps, ReadOps, DeleteOps, PolicyOps, ObjectOps, ItemOps
  <2> QED
    BY <2>1, <2>2, <2>3 DEF Control, Aware, Quiet
<1>4. CASE Starts
  <2>1. IsStore(db') /\ UNCHANGED <<pc, req, loc, offered, near>> /\ boot # "up"
    BY <1>0, <1>4, StartStores DEF NoRequests
  <2> QED
    BY <2>1 DEF Control, Typed, Stage, Listed, IsIn, Aware, Quiet, Busy
<1>5. CASE Crash
  <2>1. UNCHANGED <<db, req, loc, offered, near>> /\ pc' = [p \in Procs |-> "idle"]
    BY <1>5 DEF Crash
  <2>2. Typed' /\ Busy' = {}
    BY <1>0, <2>1 DEF Typed, Steps, Busy
  <2>3. \A q \in Procs : Stage(q)' /\ Listed(q)'
    BY <2>1 DEF Stage, Listed, Ops, OrgOps, ReadOps, DeleteOps, PolicyOps, ObjectOps, ItemOps
  <2> QED
    BY <2>2, <2>3 DEF Control, Aware, Quiet
<1>6. CASE UNCHANGED vars
  BY <1>6 DEF vars, Control, Typed, Stage, Listed, IsIn, Aware, Quiet, Busy
<1> QED
  BY <1>1, <1>2, <1>3, <1>4, <1>5, <1>6, Zenon DEF Next, Done, Starts

LEMMA ControlInit ==
    ASSUME Init
    PROVE  Control
<1>0. IsStore(NoLocals.snap) /\ DOMAIN NoLocals = LocFields
  BY DEF NoLocals, LocFields, IsStore, EmptyStore
<1> HIDE DEF NoLocals
<1>1. PICK s \in Scenarios : /\ db = s.db /\ boot = s.boot /\ offered = s.requests
                             /\ req \in [Procs -> {CHOOSE r \in s.requests : TRUE}]
  BY DEF Init
<1>2. (CHOOSE r \in s.requests : TRUE) \in offered /\ IsStore(db)
  BY <1>1, RoutedRequests, SoundScenarios DEF IsStore
<1>3. pc = [p \in Procs |-> "idle"] /\ loc = [p \in Procs |-> NoLocals] /\ near = [p \in Procs |-> {}]
  BY DEF Init
<1>4. Typed /\ Busy = {}
  BY <1>0, <1>1, <1>2, <1>3 DEF Typed, Steps, Busy
<1>5. \A q \in Procs : Stage(q) /\ Listed(q)
  BY <1>3 DEF Stage, Listed, Ops, OrgOps, ReadOps, DeleteOps, PolicyOps, ObjectOps, ItemOps
<1> QED
  BY <1>4, <1>5 DEF Control, Aware, Quiet

-----------------------------------------------------------------------------
(* What requests leave alone, and what they hold.                           *)

LEMMA ReadsLeave ==
    ASSUME NEW p, ReadEffect(p)
    PROVE  UNCHANGED db
BY Zenon DEF ReadEffect, Answers, Sees, Lists, Skips, Loads, Deploys, Opens, Undeploys, Snaps, Reads

\* While requests are served the keys of the start stay, the configured
\* organization and its validator too where no request is about it, and no
\* ACL of an older version appears.
Protects ==
    /\ \A k : Guarded(k) => Same(db, db', k)
    /\ Sheltered => (BootOrg \in db.orgs <=> BootOrg \in db'.orgs) /\ Same(db, db', Validator(BootOrg))
    /\ Current(db')

LEMMA EffectProtects ==
    ASSUME Control, NEW p \in Procs, Effect(p), Current(db), SnapKeys(p)
    PROVE  Protects
<1>0. Typed
  BY DEF Control
<1>1. CASE ReadEffect(p)
  BY <1>1, ReadsLeave DEF Protects, Same
<1>2. CASE WriteEffect(p)
  <2>1. Settles(p)
    BY <1>2, WriteChanges
  <2>2. \A k : Guarded(k) => Same(db, db', k)
    BY <1>0, <2>1, NeverWritten DEF Settles, Changes, Guarded
  <2>3. ASSUME Sheltered
        PROVE  (BootOrg \in db.orgs <=> BootOrg \in db'.orgs) /\ Same(db, db', Validator(BootOrg))
    <3>1. req[p].op \notin OrgOps \/ req[p].org # BootOrg
      BY <1>0, <2>3, RequestFacts DEF Sheltered
    <3>2. ~Writes(req[p], Validator(BootOrg))
      BY <1>0, <3>1, NeverWritten
    <3>3. BootOrg \in db.orgs <=> BootOrg \in db'.orgs
      BY <2>1, <3>1 DEF Settles
    <3> QED
      BY <2>1, <3>2, <3>3 DEF Settles, Changes
  <2>4. Current(db')
    <3>1. SUFFICES ASSUME NEW k \in DOMAIN db'.docs, IsLegacy(db', k)
                   PROVE  FALSE
      BY DEF Current
    <3>2. IsLegacy(db, k)
      BY <2>1, <3>1 DEF Settles, Changes
    <3> QED
      BY <3>2 DEF Current, IsLegacy
  <2> QED
    BY <2>2, <2>3, <2>4 DEF Protects
<1>3. CASE RollsBack(p)
  <2>1. db' = loc[p].snap /\ pc[p] = "rollback"
    BY <1>3 DEF RollsBack, Goes
  <2>2. /\ Current(db')
        /\ \A k \in DOMAIN db.docs \cup DOMAIN db'.docs : Guarded(k) => Same(db, db', k)
        /\ Sheltered => (BootOrg \in db.orgs <=> BootOrg \in db'.orgs) /\ Same(db, db', Validator(BootOrg))
    BY <2>1 DEF SnapKeys
  <2> QED
    BY <2>2 DEF Protects, Same
<1> QED
  BY <1>1, <1>2, <1>3 DEF Effect

\* To be where a group or a snapshot is held is to have just read it.
LEMMA Arrives ==
    ASSUME Control, NEW p \in Procs, Effect(p)
    PROVE  /\ pc'[p] = "getDeployed" => Opens(p)
           /\ pc'[p] = "saveGroup" => Deploys(p) \/ Undeploys(p)
           /\ pc'[p] = "saveGroups" => \E k : Loads(p, k)
           /\ pc'[p] = "found" => Snaps(p)
           /\ pc'[p] = "rollback" => Reads(p, "found", "rollback") /\ UNCHANGED loc
<1>0. p \in DOMAIN pc /\ req[p].op \in Ops
  BY RequestFacts DEF Control, Typed
<1> DEFINE Holding == {"getDeployed", "saveGroup", "saveGroups", "found", "rollback"}
<1>1. ASSUME NEW from, NEW to, Goes(p, from, to)
      PROVE  pc'[p] = to
  BY <1>0, <1>1 DEF Goes
<1>2. CASE Answers(p) \/ Lists(p) \/ (\E k : Skips(p, k))
  <2>1. pc'[p] \notin Holding
    BY <1>1, <1>2 DEF Answers, Lists, Skips, Reads
  <2> QED
    BY <2>1
<1>3. CASE Sees(p)
  <2>1. CASE Reads(p, "org", req[p].op)
    <3>1. pc'[p] \in Ops
      BY <1>0, <1>1, <2>1 DEF Reads
    <3> QED
      BY <3>1 DEF Ops, OrgOps, ReadOps, DeleteOps, PolicyOps, ObjectOps, ItemOps
  <2>2. CASE Reads(p, "found", "rollback")
    <3>1. pc'[p] = "rollback"
      BY <1>1, <2>2 DEF Reads
    <3> QED
      BY <1>3, <2>2, <3>1 DEF Sees
  <2>3. CASE ~Reads(p, "org", req[p].op) /\ ~Reads(p, "found", "rollback")
    <3>1. pc'[p] \notin Holding
      BY <1>1, <1>3, <2>3 DEF Sees, Reads
    <3> QED
      BY <3>1
  <2> QED
    BY <2>1, <2>2, <2>3
<1>4. CASE \E k : Loads(p, k)
  <2>1. pc'[p] = "saveGroups"
    BY <1>1, <1>4 DEF Loads, Reads
  <2> QED
    BY <1>4, <2>1
<1>5. CASE Deploys(p) \/ Undeploys(p)
  <2>1. pc'[p] = "saveGroup"
    BY <1>1, <1>5 DEF Deploys, Undeploys, Reads
  <2> QED
    BY <1>5, <2>1
<1>6. CASE Opens(p)
  <2>1. pc'[p] = "getDeployed"
    BY <1>1, <1>6 DEF Opens, Reads
  <2> QED
    BY <1>6, <2>1
<1>7. CASE Snaps(p)
  <2>1. pc'[p] = "found"
    BY <1>1, <1>7 DEF Snaps, Reads
  <2> QED
    BY <1>7, <2>1
<1>8. CASE WriteEffect(p) \/ RollsBack(p)
  <2>1. CASE PutsOne(p) \/ Saves(p)
    BY <1>1, <2>1 DEF PutsOne, Saves, Puts
  <2>2. CASE DeletesOne(p) \/ DeletesRevision(p)
    <3>1. CASE DeletesOne(p)
      BY <1>1, <3>1 DEF DeletesOne, Deletes
    <3>2. CASE DeletesRevision(p)
      <4>1. pc'[p] = "listGroups"
        BY <1>1, <3>2 DEF DeletesRevision
      <4> QED
        BY <4>1
    <3> QED
      BY <2>2, <3>1, <3>2
  <2>3. CASE \E k : DeletesEach(p, k)
    <3>1. pc'[p] \in {"deleteItems", "deleteRevisions"}
      BY <1>1, <2>3 DEF DeletesEach
    <3> QED
      BY <3>1
  <2>4. CASE Founds(p) \/ Creates(p) \/ Provides(p) \/ DropsOrg(p) \/ RollsBack(p)
    <3>1. pc'[p] \in {"idle", "provision"}
      BY <1>1, <2>4 DEF Founds, Creates, Provides, DropsOrg, RollsBack
    <3> QED
      BY <3>1
  <2> QED
    BY <1>8, <2>1, <2>2, <2>3, <2>4 DEF WriteEffect
<1> QED
  BY <1>2, <1>3, <1>4, <1>5, <1>6, <1>7, <1>8 DEF Effect, ReadEffect

\* Another's step leaves a document as it is, or has crossed.
LEMMA OthersCross ==
    ASSUME Control, NEW p \in Procs, Effect(p), NEW q \in Procs, q # p, pc[q] # "idle", NEW k
    PROVE  Same(db, db', k) \/ Crossed(q, k)
<1>1. req[p] \in near[q]
  <2>1. Frame(p)
    BY EffectFrame DEF Control
  <2>2. p \in Busy /\ q \in Busy
    BY <2>1 DEF Frame, Busy
  <2> QED
    BY <2>2 DEF Control, Aware
<1>2. CASE ReadEffect(p)
  BY <1>2, ReadsLeave DEF Same
<1>3. CASE WriteEffect(p)
  BY <1>1, <1>3, WriteChanges DEF Settles, Changes, Crossed
<1>4. CASE RollsBack(p)
  <2>1. req[p].op = "createOrganization"
    BY <1>4 DEF RollsBack, Goes, Control, Stage
  <2> QED
    BY <1>1, <2>1 DEF Crossed
<1> QED
  BY <1>2, <1>3, <1>4 DEF Effect

LEMMA GroupKept ==
    ASSUME Control, ReadInv, NEW p \in Procs, Effect(p), NEW q \in Procs, q # p
    PROVE  GroupRead(q)' /\ SnapRead(q)'
<1>0. Frame(p) /\ GroupRead(q) /\ SnapRead(q)
  BY EffectFrame DEF Control, ReadInv
<1>1. pc'[q] = pc[q] /\ loc'[q] = loc[q] /\ req'[q] = req[q] /\ near'[q] = near[q]
  BY <1>0 DEF Frame
<1>2. GroupRead(q)'
  <2>1. SUFFICES ASSUME pc[q] \in {"getDeployed", "saveGroup", "saveGroups"}
                 PROVE  GroupRead(q)'
    BY <1>1 DEF GroupRead
  <2>2. PICK k : k = Group(q)
    OBVIOUS
  <2>3. k = Group(q)'
    BY <1>1, <2>2 DEF Group, GroupKey
  <2>4. Same(db, db', k) \/ Crossed(q, k)
    BY <2>1, OthersCross
  <2>5. Crossed(q, k) \/ Carries(loc[q].group, k, req[q].name)
    BY <1>0, <2>1, <2>2 DEF GroupRead
  <2>6. CASE Crossed(q, k)
    BY <1>1, <2>3, <2>6 DEF GroupRead, Crossed
  <2>7. CASE Same(db, db', k) /\ Carries(loc[q].group, k, req[q].name)
    BY <1>1, <2>3, <2>7 DEF GroupRead, Carries, Same
  <2> QED
    BY <2>4, <2>5, <2>6, <2>7
<1>3. SnapRead(q)'
  <2>1. SUFFICES ASSUME pc[q] \in {"found", "rollback"}, NEW k \in DOMAIN db'.docs
                 PROVE  \/ k \in DOMAIN loc[q].snap.docs /\ loc[q].snap.docs[k] = db'.docs[k]
                        \/ Crossed(q, k)
    BY <1>1 DEF SnapRead, Crossed
  <2>2. Same(db, db', k) \/ Crossed(q, k)
    BY <2>1, OthersCross
  <2>3. k \in DOMAIN db.docs =>
          \/ k \in DOMAIN loc[q].snap.docs /\ loc[q].snap.docs[k] = db.docs[k]
          \/ Crossed(q, k)
    BY <1>0, <2>1 DEF SnapRead
  <2> QED
    BY <2>2, <2>3 DEF Same
<1> QED
  BY <1>2, <1>3

LEMMA GroupOwn ==
    ASSUME Control, ReadInv, NEW p \in Procs, Effect(p)
    PROVE  GroupRead(p)' /\ SnapRead(p)'
<1>0. Typed /\ GroupRead(p) /\ SnapRead(p) /\ Frame(p)
  BY EffectFrame DEF Control, ReadInv
<1>1. req'[p] = req[p] /\ near'[p] = near[p] /\ DOMAIN loc[p] = LocFields
  BY <1>0 DEF Frame, Typed
<1>2. CASE pc'[p] \in {"getDeployed", "saveGroup"}
  <2>1. Group(p)' = GroupKey(req[p])
    BY <1>1, <1>2 DEF Group, GroupKey
  <2>2. PICK k : k = GroupKey(req[p])
    OBVIOUS
  <2>3. UNCHANGED db /\ (Crossed(p, k)' \/ Carries(loc[p].group, k, req[p].name)')
    <3>1. CASE Opens(p)
      <4>1. loc'[p] = [loc[p] EXCEPT !.group = db.docs[k]] /\ UNCHANGED db
        BY <1>0, <2>2, <3>1 DEF Opens, Reads, Takes, Typed
      <4>2. loc'[p].group = db.docs[k]
        BY <1>1, <4>1 DEF LocFields
      <4> QED
        BY <4>1, <4>2 DEF Carries
    <3>2. CASE Deploys(p)
      <4> DEFINE g == IF k \in DOMAIN db.docs THEN db.docs[k] ELSE NoLocals.group
                 h == [x \in DOMAIN g \cup {req[p].name} |-> IF x = req[p].name THEN req[p].item ELSE g[x]]
      <4>1. loc'[p] = [loc[p] EXCEPT !.group = h] /\ UNCHANGED db
        BY <1>0, <2>2, <3>2, Zenon DEF Deploys, Deployed, Reads, Takes, Typed, Has
      <4>2. k \in DOMAIN db.docs => \A x \in DOMAIN db.docs[k] \ {req[p].name} : x \in DOMAIN h /\ h[x] = db.docs[k][x]
        OBVIOUS
      <4> HIDE DEF h
      <4>3. loc'[p].group = h
        BY <1>1, <4>1 DEF LocFields
      <4> QED
        BY <1>1, <4>1, <4>2, <4>3 DEF Carries
    <3>3. CASE Undeploys(p)
      <4> DEFINE g == loc[p].group
                 h == Undeployed(g, req[p].name)
      <4>1. loc'[p] = [loc[p] EXCEPT !.group = h] /\ UNCHANGED db /\ pc[p] = "getDeployed"
        BY <1>0, <3>3 DEF Undeploys, Reads, Goes, Takes, Typed
      <4>2. \A x \in DOMAIN g \ {req[p].name} : x \in DOMAIN h /\ h[x] = g[x]
        BY DEF Undeployed
      <4>3. Crossed(p, k) \/ Carries(g, k, req[p].name)
        BY <1>0, <2>2, <4>1 DEF GroupRead, Group
      <4> HIDE DEF h
      <4>4. loc'[p].group = h
        BY <1>1, <4>1 DEF LocFields
      <4>5. CASE Crossed(p, k)
        BY <1>1, <4>1, <4>5 DEF Crossed
      <4>6. CASE Carries(g, k, req[p].name)
        BY <1>1, <4>1, <4>2, <4>4, <4>6 DEF Carries
      <4> QED
        BY <4>1, <4>3, <4>5, <4>6
    <3> QED
      BY <1>2, <3>1, <3>2, <3>3, Arrives
  <2>4. GroupRead(p)'
    BY <1>1, <2>1, <2>2, <2>3 DEF GroupRead, Crossed, Carries
  <2> QED
    BY <1>2, <2>4 DEF SnapRead
<1>3. CASE pc'[p] = "saveGroups"
  <2>1. PICK k : Loads(p, k)
    BY <1>3, Arrives
  <2> DEFINE h == Undeployed(db.docs[k], req[p].name)
  <2>2. loc'[p] = [loc[p] EXCEPT !.group = h, !.todo = loc[p].todo \ {k}, !.key = k] /\ UNCHANGED db
    BY <1>0, <2>1 DEF Loads, Reads, Takes, Typed
  <2>3. \A x \in DOMAIN db.docs[k] \ {req[p].name} : x \in DOMAIN h /\ h[x] = db.docs[k][x]
    BY DEF Undeployed
  <2> HIDE DEF h
  <2>4. loc'[p].group = h /\ loc'[p].key = k
    BY <1>1, <2>2 DEF LocFields
  <2>5. GroupRead(p)'
    BY <1>1, <1>3, <2>2, <2>3, <2>4 DEF GroupRead, Group, Carries
  <2> QED
    BY <1>3, <2>5 DEF SnapRead
<1>4. CASE pc'[p] = "found"
  <2>1. loc'[p] = [loc[p] EXCEPT !.snap = db] /\ UNCHANGED db
    BY <1>0, <1>4, Arrives DEF Snaps, Reads, Takes, Typed
  <2>2. loc'[p].snap = db
    BY <1>1, <2>1 DEF LocFields
  <2> QED
    BY <1>4, <2>1, <2>2 DEF GroupRead, SnapRead
<1>5. CASE pc'[p] = "rollback"
  <2>1. pc[p] = "found" /\ UNCHANGED <<db, loc>>
    BY <1>5, Arrives DEF Reads, Goes
  <2>2. SnapRead(p)'
    BY <1>0, <1>1, <1>5, <2>1 DEF SnapRead, Crossed
  <2> QED
    BY <1>5, <2>2 DEF GroupRead
<1>6. CASE pc'[p] \notin {"getDeployed", "saveGroup", "saveGroups", "found", "rollback"}
  BY <1>6 DEF GroupRead, SnapRead
<1> QED
  BY <1>2, <1>3, <1>4, <1>5, <1>6

-----------------------------------------------------------------------------
(* The invariant.                                                           *)

Inv == Control /\ ReadInv /\ KeysInv

LEMMA BootKeyFacts ==
    /\ Guarded(AdminKey) /\ Guarded(AdminUser) /\ Guarded(ValidatorKey)
    /\ AdminKey # AdminUser /\ AdminKey # ValidatorKey /\ AdminUser # ValidatorKey
    /\ \A k \in PlanKeys(BootOrg) : ~Guarded(k)
    /\ \A o : ClientsACL(o) \notin {AdminKey, AdminUser, ValidatorKey, Validator(BootOrg)} /\ ClientsACL(o)[1] = o
    /\ Validator(BootOrg) \in PlanKeys(BootOrg)
<1>1. /\ AdminKey[1] = "" /\ AdminKey[2] = "server_keys" /\ AdminUser[1] = "" /\ AdminUser[2] = "users"
      /\ ValidatorKey[1] = "" /\ ValidatorKey[2] = "server_keys" /\ ValidatorKey[3] = "validator" /\ AdminKey[3] = ""
      /\ Validator(BootOrg)[2] = "clients" /\ OrgMeta(BootOrg)[2] = "organizations"
      /\ \A o : ClientsACL(o)[2] = "acls" /\ ClientsACL(o)[1] = o
  BY DEF AdminKey, AdminUser, ValidatorKey, Validator, OrgMeta, ClientsACL
<1>2. /\ Guarded(AdminKey) /\ Guarded(AdminUser) /\ Guarded(ValidatorKey)
      /\ AdminKey # AdminUser /\ AdminKey # ValidatorKey /\ AdminUser # ValidatorKey
  BY <1>1 DEF Guarded
<1>3. \A k \in PlanKeys(BootOrg) : ~Guarded(k)
  <2>1. BootOrg # ""
    BY RoutedRequests
  <2>2. \A k \in PlanKeys(BootOrg) : k = OrgMeta(BootOrg) \/ k[1] = BootOrg
    BY PlanFacts
  <2> QED
    BY <1>1, <2>1, <2>2 DEF Guarded
<1>4. \A o : ClientsACL(o) \notin {AdminKey, AdminUser, ValidatorKey, Validator(BootOrg)}
  BY <1>1
<1> QED
  BY <1>1, <1>2, <1>3, <1>4 DEF PlanKeys

LEMMA InvStep ==
    ASSUME Inv, NEW p \in Procs, Effect(p)
    PROVE  Inv'
<1>0. Control /\ ReadInv /\ KeysInv /\ Frame(p) /\ StartInv
  BY EffectFrame DEF Inv, Control, ReadInv
<1>1. boot = "up" /\ UNCHANGED <<boot, fresh, boots, offered, near, req>>
  <2>1. p \in Busy
    BY <1>0 DEF Frame, Busy
  <2> QED
    BY <1>0, <2>1 DEF Frame, Control, Quiet
<1>2. Current(db) /\ SnapKeys(p) /\ KeysOf(db)
  BY <1>0, <1>1 DEF KeysInv
<1>3. Protects
  BY <1>0, <1>2, EffectProtects
<1>4. AdminKey \in DOMAIN db'.docs /\ ValidatorKey \in DOMAIN db'.docs
  <2>1. AdminKey \in DOMAIN db.docs /\ ValidatorKey \in DOMAIN db.docs
    BY <1>0, <1>1 DEF StartInv
  <2> QED
    BY <1>3, <2>1, BootKeyFacts DEF Protects, Same
<1>5. StartInv'
  BY <1>1, <1>4 DEF StartInv
<1>6. \A q \in Procs : GroupRead(q)' /\ SnapRead(q)'
  BY <1>0, GroupOwn, GroupKept
<1>7. KeysOf(db')
  <2>1. AdminKey \in DOMAIN db.docs /\ AdminUser \in DOMAIN db.docs /\ db.docs[AdminUser] = db.docs[AdminKey]
    BY <1>0, <1>1, <1>2 DEF StartInv, KeysOf, Paired
  <2>2. Paired(db', AdminKey, AdminUser)
    BY <1>3, <2>1, BootKeyFacts DEF Protects, Same, Paired
  <2>3. ASSUME Sheltered
        PROVE  BootOrg \in db'.orgs /\ Paired(db', ValidatorKey, Validator(BootOrg))
    <3>1. ValidatorKey \in DOMAIN db.docs
      BY <1>0, <1>1 DEF StartInv
    <3>2. BootOrg \in db.orgs /\ Paired(db, ValidatorKey, Validator(BootOrg))
      BY <1>2, <2>3, <3>1 DEF KeysOf
    <3>3. Same(db, db', ValidatorKey) /\ Same(db, db', Validator(BootOrg))
      BY <1>3, <2>3, BootKeyFacts DEF Protects
    <3> QED
      BY <1>3, <2>3, <3>1, <3>2, <3>3 DEF Protects, Same, Paired
  <2> QED
    BY <1>3, <2>2, <2>3 DEF KeysOf, Protects, Current
<1>8. ASSUME NEW q \in Procs
      PROVE  SnapKeys(q)'
  <2>1. SUFFICES ASSUME pc'[q] \in {"found", "rollback"}
                 PROVE  /\ Current(loc'[q].snap)
                        /\ \A k : Guarded(k) => Same(db', loc'[q].snap, k)
                        /\ Sheltered => /\ BootOrg \in db'.orgs <=> BootOrg \in loc'[q].snap.orgs
                                        /\ Same(db', loc'[q].snap, Validator(BootOrg))
    BY <1>1 DEF SnapKeys, Current, Sheltered, Guarded, Same
  <2>2. CASE q = p /\ pc'[p] = "found"
    <3>1. loc'[p] = [loc[p] EXCEPT !.snap = db] /\ UNCHANGED db /\ DOMAIN loc[p] = LocFields
      BY <1>0, <2>2, Arrives DEF Snaps, Reads, Takes, Control, Typed
    <3>2. loc'[p].snap = db
      BY <3>1 DEF LocFields
    <3> QED
      BY <1>2, <2>2, <3>1, <3>2 DEF Same
  <2>3. CASE q # p \/ pc'[p] = "rollback"
    <3>1. loc'[q].snap = loc[q].snap /\ pc[q] \in {"found", "rollback"}
      <4>1. CASE q # p
        BY <1>0, <2>1, <4>1 DEF Frame
      <4>2. CASE q = p
        BY <1>0, <2>3, <4>2, Arrives DEF Reads, Goes
      <4> QED
        BY <4>1, <4>2
    <3>2. /\ Current(loc[q].snap)
          /\ \A k \in DOMAIN db.docs \cup DOMAIN loc[q].snap.docs : Guarded(k) => Same(db, loc[q].snap, k)
          /\ Sheltered => /\ BootOrg \in db.orgs <=> BootOrg \in loc[q].snap.orgs
                          /\ Same(db, loc[q].snap, Validator(BootOrg))
      BY <1>0, <3>1 DEF KeysInv, SnapKeys
    <3>3. \A k : Guarded(k) => Same(db', loc[q].snap, k)
      BY <1>3, <3>2 DEF Protects, Same
    <3>4. Sheltered => /\ BootOrg \in db'.orgs <=> BootOrg \in loc[q].snap.orgs
                       /\ Same(db', loc[q].snap, Validator(BootOrg))
      BY <1>3, <3>2 DEF Protects, Same
    <3> QED
      BY <3>1, <3>2, <3>3, <3>4
  <2> QED
    BY <2>1, <2>2, <2>3
<1>9. KeysInv'
  <2>1. KeysOf(db)' /\ Current(db)'
    BY <1>1, <1>3, <1>7 DEF KeysOf, Sheltered, Protects
  <2> QED
    BY <1>1, <1>4, <1>8, <2>1 DEF KeysInv, Pending
<1>10. ReadInv'
  BY <1>5, <1>6 DEF ReadInv
<1> QED
  BY <1>0, <1>9, <1>10, ControlStep DEF Inv

LEMMA InvBegin ==
    ASSUME Inv, NEW p \in Procs, Begin(p)
    PROVE  Inv'
<1>0. Control /\ ReadInv /\ KeysInv /\ Typed
  BY DEF Inv, Control
<1>1. PICK r \in offered :
        /\ req' = [req EXCEPT ![p] = r]
        /\ near' = [q \in Procs |-> IF q = p THEN {req[b] : b \in Busy}
                                    ELSE IF q \in Busy THEN near[q] \cup {r} ELSE near[q]]
        /\ pc' = [pc EXCEPT ![p] = IF r.op \in OrgOps \cup {"getOrganization"} THEN r.op ELSE "org"]
  BY DEF Begin
<1>2. loc' = [loc EXCEPT ![p] = NoLocals] /\ UNCHANGED <<db, boot, fresh, boots, offered, cut>>
  BY DEF Begin, Local, start
<1> HIDE DEF NoLocals
<1>3. pc'[p] \notin {"getDeployed", "saveGroup", "saveGroups", "found", "rollback"}
  BY <1>0, <1>1 DEF Typed, OrgOps
<1>4. \A q \in Procs : q # p => /\ pc'[q] = pc[q] /\ loc'[q] = loc[q] /\ req'[q] = req[q]
                                /\ near[q] \subseteq near'[q]
  BY <1>0, <1>1, <1>2 DEF Typed
<1>5. ASSUME NEW q \in Procs, q # p, NEW k, Crossed(q, k)
      PROVE  Crossed(q, k)'
  BY <1>4, <1>5 DEF Crossed
<1>6. ASSUME NEW q \in Procs
      PROVE  GroupRead(q)' /\ SnapRead(q)' /\ SnapKeys(q)'
  <2>1. CASE q = p
    BY <1>3, <2>1 DEF GroupRead, SnapRead, SnapKeys
  <2>2. CASE q # p
    <3>1. pc'[q] = pc[q] /\ loc'[q] = loc[q] /\ req'[q] = req[q]
      BY <1>4, <2>2
    <3>2. GroupRead(q) /\ SnapRead(q) /\ SnapKeys(q)
      BY <1>0 DEF ReadInv, KeysInv
    <3>3. GroupRead(q)'
      <4>1. PICK k : k = Group(q)
        OBVIOUS
      <4>2. Group(q)' = k
        BY <3>1, <4>1 DEF Group, GroupKey
      <4> QED
        BY <1>2, <1>5, <2>2, <3>1, <3>2, <4>1, <4>2 DEF GroupRead, Crossed, Carries
    <3>4. SnapRead(q)'
      BY <1>2, <1>5, <2>2, <3>1, <3>2 DEF SnapRead
    <3>5. SnapKeys(q)'
      BY <1>2, <3>1, <3>2 DEF SnapKeys, Current, Sheltered, Same
    <3> QED
      BY <3>3, <3>4, <3>5
  <2> QED
    BY <2>1, <2>2
<1>7. StartInv'
  BY <1>0, <1>2 DEF ReadInv, StartInv
<1>8. KeysInv'
  BY <1>0, <1>2, <1>6 DEF KeysInv, KeysOf, Pending, Current, Marked, Sheltered
<1> QED
  BY <1>0, <1>6, <1>7, <1>8, ControlBegin DEF Inv, ReadInv

\* With nothing in flight only the start counts.
LEMMA Resting ==
    ASSUME \A q \in Procs : pc'[q] = "idle"
    PROVE  \A q \in Procs : GroupRead(q)' /\ SnapRead(q)' /\ SnapKeys(q)'
BY DEF GroupRead, SnapRead, SnapKeys

LEMMA InvStart ==
    ASSUME Inv, Starts
    PROVE  StartInv' /\ KeysInv'
<1>0. Control /\ StartInv /\ KeysOf(db) /\ Pending /\ Typed /\ IsStore(db)
  BY DEF Inv, Control, Typed, ReadInv, KeysInv
<1>1. boot # "up" /\ UNCHANGED <<pc, offered, cut>>
  BY DEF Starts, LoadKeys, BootAdmin, BootAdminKey, BootOrganization, BootOrgKey, UpgradeOrgACLs, Boot, NoRequests
<1>2. \A q \in Procs : SnapKeys(q)'
  <2>1. \A q \in Procs : pc'[q] = "idle"
    BY <1>0, <1>1 DEF Control, Quiet, Busy
  <2> QED
    BY <2>1, Resting
<1>3. /\ boot = "failed" => Marked
      /\ BootOrg \in db.orgs => ValidatorKey \in DOMAIN db.docs \/ boot = "orgKey" \/ Marked
  BY DEF Inv, KeysInv
<1>4. Sheltered' <=> Sheltered
  BY <1>1 DEF Sheltered
<1>5. Marked' <=> Marked
  BY <1>1 DEF Marked
<1>6. ASSUME NEW k, NEW v, db' = set(db, k, v)
      PROVE  /\ db'.orgs = db.orgs /\ DOMAIN db'.docs = DOMAIN db.docs \cup {k} /\ db'.docs[k] = v
             /\ \A x : x # k => Same(db, db', x)
             /\ (\A o : k # ClientsACL(o)) \/ v = "seeded" => \A x : IsLegacy(db', x) => IsLegacy(db, x)
  <2>1. /\ db'.orgs = db.orgs /\ DOMAIN db'.docs = DOMAIN db.docs \cup {k} /\ db'.docs[k] = v
        /\ \A x : x # k => Same(db, db', x)
    BY <1>0, <1>6, SetFacts
  <2> QED
    BY <2>1 DEF IsLegacy, Same
<1>7. CASE LoadKeys
  <2>1. /\ UNCHANGED db /\ boot = "load" /\ boot' = "admin"
        /\ fresh' = {k \in {AdminKey, ValidatorKey} : k \notin DOMAIN db.docs}
    BY <1>7 DEF LoadKeys, Boot, Has
  <2>2. StartInv'
    BY <2>1 DEF StartInv
  <2>3. KeysOf(db)' /\ Pending'
    BY <1>0, <1>4, <2>1 DEF KeysOf, Pending
  <2> QED
    BY <1>2, <1>3, <1>5, <2>1, <2>2, <2>3 DEF KeysInv
<1>8. CASE BootAdmin
  <2>1. /\ boot = "admin" /\ boot' = "adminKey" /\ UNCHANGED <<fresh, boots>>
        /\ db' = IF AdminKey \in fresh THEN set(db, AdminUser, boots) ELSE db
    BY <1>8 DEF BootAdmin, Boot, AdminWrites
  <2>2. CASE AdminKey \in fresh
    <3>1. /\ db'.orgs = db.orgs /\ DOMAIN db'.docs = DOMAIN db.docs \cup {AdminUser} /\ db'.docs[AdminUser] = boots
          /\ \A x : x # AdminUser => Same(db, db', x)
          /\ \A x : IsLegacy(db', x) => IsLegacy(db, x)
      BY <1>6, <2>1, <2>2, BootKeyFacts
    <3>2. StartInv'
      BY <1>0, <2>1, <3>1, BootKeyFacts DEF StartInv
    <3>3. Pending'
      BY <2>1, <3>1 DEF Pending
    <3>4. AdminKey \notin DOMAIN db'.docs
      BY <1>0, <2>1, <2>2, <3>1, BootKeyFacts DEF StartInv
    <3>5. KeysOf(db)'
      <4>1. AdminUser # Validator(BootOrg)
        BY BootKeyFacts
      <4>2. ValidatorKey \in DOMAIN db'.docs /\ Sheltered =>
              BootOrg \in db'.orgs /\ Paired(db', ValidatorKey, Validator(BootOrg))
        BY <1>0, <3>1, <4>1, BootKeyFacts DEF KeysOf, Paired, Same
      <4>3. \A k \in DOMAIN db'.docs : IsLegacy(db', k) => k[1] \in db'.orgs
        BY <1>0, <3>1 DEF KeysOf, IsLegacy
      <4> QED
        BY <1>4, <3>4, <4>2, <4>3 DEF KeysOf
    <3>6. ValidatorKey \in DOMAIN db.docs => ValidatorKey \in DOMAIN db'.docs
      BY <3>1
    <3> QED
      BY <1>2, <1>3, <1>5, <2>1, <3>1, <3>2, <3>3, <3>5, <3>6 DEF KeysInv
  <2>3. CASE AdminKey \notin fresh
    <3>1. db' = db
      BY <2>1, <2>3
    <3>2. StartInv' /\ Pending' /\ KeysOf(db)'
      BY <1>0, <1>4, <2>1, <2>3, <3>1 DEF StartInv, Pending, KeysOf
    <3> QED
      BY <1>2, <1>3, <1>5, <2>1, <3>1, <3>2 DEF KeysInv
  <2> QED
    BY <2>2, <2>3
<1>9. CASE BootAdminKey
  <2>1. /\ boot = "adminKey" /\ boot' = "org" /\ UNCHANGED <<fresh, boots>>
        /\ db' = IF AdminKey \in fresh THEN set(db, AdminKey, boots) ELSE db
    BY <1>9 DEF BootAdminKey, Boot, AdminWrites
  <2>2. CASE AdminKey \in fresh
    <3>1. /\ db'.orgs = db.orgs /\ DOMAIN db'.docs = DOMAIN db.docs \cup {AdminKey} /\ db'.docs[AdminKey] = boots
          /\ \A x : x # AdminKey => Same(db, db', x)
          /\ \A x : IsLegacy(db', x) => IsLegacy(db, x)
      BY <1>6, <2>1, <2>2, BootKeyFacts
    <3>2. StartInv' /\ Pending'
      BY <1>0, <2>1, <3>1, BootKeyFacts DEF StartInv, Pending
    <3>3. KeysOf(db)'
      <4>0. AdminKey # Validator(BootOrg)
        BY BootKeyFacts
      <4>1. Paired(db', AdminKey, AdminUser)
        BY <1>0, <2>1, <2>2, <3>1, BootKeyFacts DEF Pending, Paired, Same
      <4>2. ValidatorKey \in DOMAIN db'.docs /\ Sheltered =>
              BootOrg \in db'.orgs /\ Paired(db', ValidatorKey, Validator(BootOrg))
        BY <1>0, <3>1, <4>0, BootKeyFacts DEF KeysOf, Paired, Same
      <4>3. \A k \in DOMAIN db'.docs : IsLegacy(db', k) => k[1] \in db'.orgs
        BY <1>0, <3>1 DEF KeysOf, IsLegacy
      <4> QED
        BY <1>4, <4>1, <4>2, <4>3 DEF KeysOf
    <3>4. ValidatorKey \in DOMAIN db.docs => ValidatorKey \in DOMAIN db'.docs
      BY <3>1
    <3> QED
      BY <1>2, <1>3, <1>5, <2>1, <3>1, <3>2, <3>3, <3>4 DEF KeysInv
  <2>3. CASE AdminKey \notin fresh
    <3>1. db' = db
      BY <2>1, <2>3
    <3>2. StartInv' /\ Pending' /\ KeysOf(db)'
      BY <1>0, <1>4, <2>1, <2>3, <3>1 DEF StartInv, Pending, KeysOf
    <3> QED
      BY <1>2, <1>3, <1>5, <2>1, <3>1, <3>2 DEF KeysInv
  <2> QED
    BY <2>2, <2>3
<1>10. CASE BootOrganization
  <2>1. CASE ValidatorKey \notin fresh /\ Boot("org", "upgrade") /\ UNCHANGED <<db, fresh, boots>>
    <3>1. boot = "org" /\ boot' = "upgrade"
      BY <2>1 DEF Boot
    <3>2. StartInv' /\ Pending' /\ KeysOf(db)'
      BY <1>0, <1>4, <2>1, <3>1 DEF StartInv, Pending, KeysOf
    <3> QED
      BY <1>2, <1>3, <1>5, <2>1, <3>1, <3>2 DEF KeysInv
  <2>2. CASE ValidatorKey \in fresh /\ BootOrg \in db.orgs /\ Boot("org", "failed") /\ UNCHANGED <<db, fresh, boots>>
    <3>1. boot = "org" /\ boot' = "failed"
      BY <2>2 DEF Boot
    <3>2. StartInv' /\ Pending' /\ KeysOf(db)'
      BY <1>0, <1>4, <2>2, <3>1 DEF StartInv, Pending, KeysOf
    <3>3. Marked
      BY <1>0, <1>3, <2>2, <3>1 DEF StartInv
    <3> QED
      BY <1>2, <1>3, <1>5, <2>2, <3>1, <3>2, <3>3 DEF KeysInv
  <2>3. CASE /\ ValidatorKey \in fresh /\ BootOrg \notin db.orgs /\ Boot("org", "orgKey")
             /\ db' = Founded(db, BootOrg, boots) /\ UNCHANGED <<fresh, boots>>
    <3>0. boot = "org" /\ boot' = "orgKey" /\ ValidatorKey \notin DOMAIN db.docs
      BY <1>0, <2>3 DEF Boot, StartInv
    <3>1. db'.orgs = db.orgs \cup {BootOrg} /\ DOMAIN db'.docs = DOMAIN db.docs \cup PlanKeys(BootOrg)
      BY <1>0, <2>3, FoundedFacts
    <3>2. db'.docs[Validator(BootOrg)] = boots /\ db'.docs[ClientsACL(BootOrg)] = "seeded"
      BY <1>0, <2>3, FoundedFacts
    <3>3. \A x : x \notin PlanKeys(BootOrg) => Same(db, db', x)
      BY <1>0, <2>3, FoundedFacts
    <3>4. \A k : Guarded(k) => Same(db, db', k)
      BY <3>3, BootKeyFacts
    <3>5. ValidatorKey \notin DOMAIN db'.docs /\ (AdminKey \in DOMAIN db.docs => AdminKey \in DOMAIN db'.docs)
      BY <3>0, <3>4, BootKeyFacts DEF Same
    <3>6. StartInv'
      BY <1>0, <2>3, <3>0, <3>5 DEF StartInv
    <3>7. Pending'
      BY <2>3, <3>0, <3>1, <3>2, BootKeyFacts DEF Pending
    <3>8. ASSUME NEW k \in DOMAIN db'.docs, IsLegacy(db', k)
          PROVE  k[1] \in db'.orgs
      <4>1. CASE k[1] = BootOrg
        BY <3>1, <4>1
      <4>2. CASE k[1] # BootOrg
        <5>1. k = ClientsACL(k[1])
          BY <3>8 DEF IsLegacy
        <5>2. k # OrgMeta(BootOrg)
          <6>1. ClientsACL(k[1])[2] = "acls" /\ OrgMeta(BootOrg)[2] = "organizations"
            BY DEF ClientsACL, OrgMeta
          <6> QED
            BY <5>1, <6>1
        <5>3. k \notin PlanKeys(BootOrg)
          BY <4>2, <5>2, PlanFacts
        <5>4. k \in DOMAIN db.docs /\ IsLegacy(db, k)
          BY <3>3, <3>8, <5>3 DEF IsLegacy, Same
        <5> QED
          BY <1>0, <3>1, <5>4 DEF KeysOf
      <4> QED
        BY <4>1, <4>2
    <3>9. AdminKey \in DOMAIN db'.docs => Paired(db', AdminKey, AdminUser)
      BY <1>0, <3>4, BootKeyFacts DEF KeysOf, Paired, Same
    <3>10. KeysOf(db)'
      BY <3>5, <3>8, <3>9 DEF KeysOf
    <3> QED
      BY <1>2, <3>0, <3>6, <3>7, <3>10 DEF KeysInv
  <2> QED
    BY <1>10, <2>1, <2>2, <2>3 DEF BootOrganization
<1>11. CASE BootOrgKey
  <2>1. boot = "orgKey" /\ boot' = "upgrade" /\ UNCHANGED <<fresh, boots>> /\ db' = set(db, ValidatorKey, boots)
    BY <1>11 DEF BootOrgKey, Boot
  <2>2. /\ db'.orgs = db.orgs /\ DOMAIN db'.docs = DOMAIN db.docs \cup {ValidatorKey} /\ db'.docs[ValidatorKey] = boots
        /\ \A x : x # ValidatorKey => Same(db, db', x)
        /\ \A x : IsLegacy(db', x) => IsLegacy(db, x)
    BY <1>6, <2>1, BootKeyFacts
  <2>3. StartInv' /\ Pending'
    BY <1>0, <2>1, <2>2 DEF StartInv, Pending
  <2>4. KeysOf(db)'
    <3>0. ValidatorKey # Validator(BootOrg)
      BY BootKeyFacts
    <3>1. AdminKey \in DOMAIN db'.docs => Paired(db', AdminKey, AdminUser)
      BY <1>0, <2>2, BootKeyFacts DEF KeysOf, Paired, Same
    <3>2. BootOrg \in db'.orgs /\ Paired(db', ValidatorKey, Validator(BootOrg))
      BY <1>0, <2>1, <2>2, <3>0 DEF Pending, Paired, Same
    <3>3. \A k \in DOMAIN db'.docs : IsLegacy(db', k) => k[1] \in db'.orgs
      BY <1>0, <2>2 DEF KeysOf, IsLegacy
    <3> QED
      BY <3>1, <3>2, <3>3 DEF KeysOf
  <2> QED
    BY <1>2, <2>1, <2>2, <2>3, <2>4 DEF KeysInv
<1>12. CASE UpgradeOrgACLs
  <2>1. CASE LegacyOrgs = {} /\ Boot("upgrade", "up") /\ UNCHANGED <<db, fresh, boots>>
    <3>1. boot = "upgrade" /\ boot' = "up"
      BY <2>1 DEF Boot
    <3>2. StartInv' /\ Pending' /\ KeysOf(db)'
      BY <1>0, <1>4, <2>1, <3>1 DEF StartInv, Pending, KeysOf
    <3>3. Current(db)
      <4>1. SUFFICES ASSUME NEW k \in DOMAIN db.docs, IsLegacy(db, k)
                     PROVE  FALSE
        BY DEF Current
      <4>2. k = ClientsACL(k[1]) /\ db.docs[k] = "legacy" /\ k[1] \in db.orgs
        BY <1>0, <4>1 DEF KeysOf, IsLegacy
      <4>3. k[1] \in LegacyOrgs
        BY <4>1, <4>2 DEF LegacyOrgs, Has
      <4> QED
        BY <2>1, <4>3
    <3> QED
      BY <1>2, <1>3, <1>5, <2>1, <3>1, <3>2, <3>3 DEF KeysInv, Current
  <2>2. CASE /\ \E o \in LegacyOrgs : Boot("upgrade", "upgrade") /\ db' = set(db, ClientsACL(o), "seeded")
             /\ UNCHANGED <<fresh, boots>>
    <3>1. PICK o \in LegacyOrgs : Boot("upgrade", "upgrade") /\ db' = set(db, ClientsACL(o), "seeded")
      BY <2>2
    <3>2. boot = "upgrade" /\ boot' = "upgrade"
      BY <3>1 DEF Boot
    <3>3. PICK k : k = ClientsACL(o)
      OBVIOUS
    <3>4. /\ db'.orgs = db.orgs /\ DOMAIN db'.docs = DOMAIN db.docs \cup {k}
          /\ \A x : x # k => Same(db, db', x)
          /\ \A x : IsLegacy(db', x) => IsLegacy(db, x)
      BY <1>6, <3>1, <3>3
    <3>5. k # AdminKey /\ k # AdminUser /\ k # ValidatorKey /\ k # Validator(BootOrg)
      BY <3>3, BootKeyFacts
    <3>6. StartInv' /\ Pending'
      BY <1>0, <2>2, <3>2, <3>4 DEF StartInv, Pending
    <3>7. AdminKey \in DOMAIN db'.docs => Paired(db', AdminKey, AdminUser)
      BY <1>0, <3>4, <3>5 DEF KeysOf, Paired, Same
    <3>8. ValidatorKey \in DOMAIN db'.docs /\ Sheltered =>
            BootOrg \in db'.orgs /\ Paired(db', ValidatorKey, Validator(BootOrg))
      BY <1>0, <3>4, <3>5 DEF KeysOf, Paired, Same
    <3>9. \A x \in DOMAIN db'.docs : IsLegacy(db', x) => x[1] \in db'.orgs
      BY <1>0, <3>4 DEF KeysOf, IsLegacy
    <3>10. KeysOf(db)'
      BY <1>4, <3>7, <3>8, <3>9 DEF KeysOf
    <3> QED
      BY <1>2, <1>3, <1>5, <3>2, <3>4, <3>6, <3>10 DEF KeysInv
  <2> QED
    BY <1>12, <2>1, <2>2, Zenon DEF UpgradeOrgACLs
<1> QED
  BY <1>7, <1>8, <1>9, <1>10, <1>11, <1>12 DEF Starts

LEMMA InvInit ==
    ASSUME Init
    PROVE  Inv
<1>1. PICK s \in Scenarios : db = s.db /\ boot = s.boot /\ offered = s.requests
  BY DEF Init
<1>2. fresh = {} /\ pc = [p \in Procs |-> "idle"]
  BY DEF Init
<1>3. /\ boot \in {"load", "up"}
      /\ \A k \in DOMAIN db.docs : k = ClientsACL(k[1]) /\ db.docs[k] = "legacy" => boot = "load" /\ k[1] \in db.orgs
      /\ boot = "up" => {AdminKey, ValidatorKey} \subseteq DOMAIN db.docs
      /\ AdminKey \in DOMAIN db.docs => AdminUser \in DOMAIN db.docs /\ db.docs[AdminUser] = db.docs[AdminKey]
      /\ ValidatorKey \in DOMAIN db.docs \/ BootOrg \in db.orgs =>
           /\ BootOrg \in db.orgs /\ {ValidatorKey, Validator(BootOrg)} \subseteq DOMAIN db.docs
           /\ db.docs[Validator(BootOrg)] = db.docs[ValidatorKey]
  BY <1>1, SoundScenarios
<1>4. \A q \in Procs : GroupRead(q) /\ SnapRead(q) /\ SnapKeys(q)
  BY <1>2 DEF GroupRead, SnapRead, SnapKeys
<1>5. StartInv
  BY <1>3 DEF StartInv
<1>6. KeysOf(db)
  BY <1>3 DEF KeysOf, Paired, IsLegacy
<1>7. KeysInv
  BY <1>3, <1>4, <1>6 DEF KeysInv, Pending, Current, IsLegacy
<1> QED
  BY <1>4, <1>5, <1>7, ControlInit DEF Inv, ReadInv

LEMMA InvNext ==
    ASSUME Inv, [Next]_vars
    PROVE  Inv'
<1>0. Control /\ ReadInv /\ KeysInv /\ Typed
  BY DEF Inv, Control
<1>1. Control'
  BY <1>0, ControlNext
<1>2. ASSUME NEW p \in Procs, Begin(p)
      PROVE  Inv'
  BY <1>2, InvBegin
<1>3. ASSUME NEW p \in Procs, Step(p)
      PROVE  Inv'
  BY <1>0, <1>3, StepEffects, InvStep
<1>4. ASSUME NEW p \in Procs, StoreError(p)
      PROVE  Inv'
  <2>1. /\ UNCHANGED <<db, boot, fresh, boots, req, loc, offered, near>>
        /\ pc' = [pc EXCEPT ![p] = "idle"] /\ cut \subseteq cut'
    BY <1>4 DEF StoreError, Reply, start
  <2>2. ASSUME NEW q \in Procs
        PROVE  GroupRead(q)' /\ SnapRead(q)' /\ SnapKeys(q)'
    <3>1. GroupRead(q) /\ SnapRead(q) /\ SnapKeys(q) /\ (pc'[q] = pc[q] \/ pc'[q] = "idle")
      BY <1>0, <2>1 DEF ReadInv, KeysInv, Typed
    <3>2. CASE pc'[q] = "idle"
      BY <3>2 DEF GroupRead, SnapRead, SnapKeys
    <3>3. CASE pc'[q] = pc[q]
      BY <2>1, <3>1, <3>3 DEF GroupRead, Group, GroupKey, Carries, Crossed, SnapRead, SnapKeys, Current, Sheltered
    <3> QED
      BY <3>1, <3>2, <3>3
  <2>3. StartInv'
    BY <1>0, <2>1 DEF ReadInv, StartInv
  <2>4. Marked => Marked'
    BY <2>1 DEF Marked
  <2>5. KeysInv'
    BY <1>0, <2>1, <2>2, <2>4 DEF KeysInv, KeysOf, Pending, Current, Sheltered
  <2> QED
    BY <1>1, <2>2, <2>3, <2>5 DEF Inv, ReadInv
<1>5. CASE Starts
  <2>1. \A q \in Procs : pc'[q] = "idle"
    <3>1. UNCHANGED pc /\ boot # "up"
      BY <1>0, <1>5, StartStores DEF NoRequests
    <3> QED
      BY <1>0, <3>1 DEF Control, Quiet, Busy
  <2>2. StartInv' /\ KeysInv'
    BY <1>5, InvStart
  <2> QED
    BY <1>1, <2>1, <2>2, Resting DEF Inv, ReadInv
<1>6. CASE Crash
  <2>1. /\ UNCHANGED <<db, offered>> /\ pc' = [p \in Procs |-> "idle"] /\ boot' = "load"
        /\ cut \subseteq cut' /\ boot # "failed"
        /\ boot = "orgKey" => <<"organizations", BootOrg>> \in cut'
    <3>1. UNCHANGED <<db, offered>> /\ pc' = [p \in Procs |-> "idle"] /\ boot' = "load" /\ boot # "failed"
      BY <1>6 DEF Crash
    <3>2. cut' = cut \cup HalfServed \cup HalfMade
      BY <1>6 DEF Crash
    <3>4. boot = "orgKey" => <<"organizations", BootOrg>> \in HalfMade
      BY DEF HalfMade
    <3>3. cut \subseteq cut' /\ (boot = "orgKey" => <<"organizations", BootOrg>> \in cut')
      BY <3>2, <3>4
    <3> QED
      BY <3>1, <3>3
  <2>2. \A q \in Procs : GroupRead(q)' /\ SnapRead(q)' /\ SnapKeys(q)'
    BY <2>1, Resting
  <2>3. StartInv'
    BY <2>1 DEF StartInv
  <2>4. (Marked => Marked') /\ (boot = "orgKey" => Marked')
    BY <2>1 DEF Marked
  <2>5. KeysInv'
    BY <1>0, <2>1, <2>2, <2>4 DEF KeysInv, KeysOf, Pending, Sheltered
  <2> QED
    BY <1>1, <2>2, <2>3, <2>5 DEF Inv, ReadInv
<1>7. CASE UNCHANGED vars
  <2>1. \A q \in Procs : GroupRead(q)' /\ SnapRead(q)' /\ SnapKeys(q)'
    BY <1>0, <1>7 DEF vars, ReadInv, KeysInv, GroupRead, Group, GroupKey, Carries, Crossed, SnapRead, SnapKeys, Current, Sheltered
  <2>2. StartInv'
    BY <1>0, <1>7 DEF vars, ReadInv, StartInv
  <2>3. KeysInv'
    BY <1>0, <1>7, <2>1 DEF vars, KeysInv, KeysOf, Pending, Current, Marked, Sheltered
  <2> QED
    BY <1>1, <2>1, <2>2, <2>3 DEF Inv, ReadInv
<1> QED
  BY <1>2, <1>3, <1>4, <1>5, <1>6, <1>7, Zenon DEF Next, Done, Starts

LEMMA Invariant == Spec => []Inv
<1>1. Init => Inv
  BY InvInit
<1>2. Inv /\ [Next]_vars => Inv'
  BY InvNext
<1> QED
  BY <1>1, <1>2, PTL DEF Spec

\* A server that is up has its private keys (server.New), whatever crashed
\* before it and whatever requests, failed transactions among them, came after;
\* that its organization exists and that the validator's public key is the one
\* of the key held is claimed where no request of the run creates, updates or
\* deletes that organization.
THEOREM StartsKeepKeys == Spec => []BootKeys
<1>1. Inv => BootKeys
  <2>1. SUFFICES ASSUME Inv
                 PROVE  BootKeys
    OBVIOUS
  <2>2. StartInv /\ KeysOf(db) /\ (boot = "failed" => Marked) /\ (boot = "up" => Current(db))
    BY <2>1 DEF Inv, ReadInv, KeysInv
  <2>3. ASSUME boot = "up"
        PROVE  /\ {AdminUser, AdminKey, ValidatorKey} \subseteq DOMAIN db.docs
               /\ db.docs[AdminUser] = db.docs[AdminKey]
               /\ Sheltered => /\ BootOrg \in db.orgs /\ Has(db, Validator(BootOrg))
                               /\ db.docs[Validator(BootOrg)] = db.docs[ValidatorKey]
    <3>1. AdminKey \in DOMAIN db.docs /\ ValidatorKey \in DOMAIN db.docs
      BY <2>2, <2>3 DEF StartInv
    <3> QED
      BY <2>2, <3>1 DEF KeysOf, Paired, Has
  <2>4. boot = "up" => LegacyOrgs = {}
    <3>1. SUFFICES ASSUME boot = "up", NEW o \in LegacyOrgs
                   PROVE  FALSE
      OBVIOUS
    <3>2. PICK k : k = ClientsACL(o)
      OBVIOUS
    <3>3. k[1] = o
      BY <3>2, BootKeyFacts
    <3>4. k \in DOMAIN db.docs /\ IsLegacy(db, k)
      BY <3>1, <3>2, <3>3 DEF LegacyOrgs, Has, IsLegacy
    <3> QED
      BY <2>2, <3>1, <3>4 DEF Current
  <2> QED
    BY <2>2, <2>3, <2>4 DEF BootKeys, Marked, Sheltered
<1> QED
  BY <1>1, Invariant, PTL

-----------------------------------------------------------------------------
(* Who writes what.                                                         *)

\* A policy group that is written is the one that was read; any other write
\* is of something else, or takes the document away.
LEMMA GroupWrites ==
    ASSUME Control, NEW p \in Procs, WriteEffect(p), NEW k
    PROVE  \/ Same(db, db', k) \/ k \notin DOMAIN db'.docs \/ k[2] # "policy_groups"
           \/ /\ pc[p] \in {"saveGroup", "saveGroups"} /\ k = Group(p) /\ db'.docs[k] = loc[p].group
<1> DEFINE r == req[p]
<1>0. Typed /\ IsStore(db) /\ Stage(p) /\ Listed(p)
  BY DEF Control, Typed
<1>1. CASE PutsOne(p)
  <2>1. /\ BagKey(r)[2] = "data_bags" /\ ItemKey(r)[2] = "databag_items" /\ ObjectKey(r)[2] = r.typ
        /\ RevisionKey(r)[2] = "policy_revisions" /\ OrgMeta(r.org)[2] = "organizations" /\ ACLKey(r)[2] = "acls"
    BY DEF ObjectKey, BagKey, ItemKey, RevisionKey, OrgMeta, ACLKey
  <2>2. pc[p] \in {"createObject", "storeObject", "createContainer"} => r.typ # "policy_groups"
    BY <1>0, RequestFacts DEF Stage, Ops, ObjectOps, ObjectTypes
  <2>3. \E x, v : db' = set(db, x, v) /\ x[2] # "policy_groups"
    BY <1>1, <2>1, <2>2 DEF PutsOne, Puts, Goes
  <2>4. PICK x, v : db' = set(db, x, v) /\ x[2] # "policy_groups"
    BY <2>3
  <2> QED
    BY <1>0, <2>4, SetFacts
<1>2. CASE Saves(p)
  <2>1. PICK x : x = Group(p)
    OBVIOUS
  <2>2. pc[p] \in {"saveGroup", "saveGroups"} /\ db' = set(db, x, loc[p].group)
    BY <1>2, <2>1 DEF Saves, Puts, Goes, Group
  <2> QED
    BY <1>0, <2>1, <2>2, SetFacts
<1>3. CASE DeletesOne(p) \/ (\E x : DeletesEach(p, x)) \/ DeletesRevision(p)
  <2>1. \E x : db' = Delete(db, {x})
    BY <1>3, Zenon DEF DeletesOne, Deletes, DeletesEach, DeletesRevision
  <2>2. PICK x : db' = Delete(db, {x})
    BY <2>1
  <2>3. /\ DOMAIN db'.docs = DOMAIN db.docs \ {x}
        /\ \A y : y \notin {x} => Same(db, db', y)
    BY <1>0, <2>2, DeleteFacts
  <2> QED
    BY <2>3
<1>4. CASE Founds(p) \/ Provides(p)
  <2>1. \A x : Same(db, db', x) \/ Writes(r, x)
    BY <1>4, OrgChanges DEF Settles, Changes
  <2>2. r.op = "createOrganization"
    BY <1>0, <1>4 DEF Founds, Provides, Goes, Stage, Ops, OrgOps
  <2> QED
    BY <2>1, <2>2, WritesCases, PlanFacts
<1>5. CASE Creates(p)
  <2>1. db'.docs = db.docs
    BY <1>0, <1>5, OrgFacts DEF Creates
  <2> QED
    BY <2>1 DEF Same
<1>6. CASE DropsOrg(p)
  BY <1>0, <1>6, OrgFacts DEF DropsOrg
<1> QED
  BY <1>1, <1>2, <1>3, <1>4, <1>5, <1>6 DEF WriteEffect

\* A stored document changes only by a request about it, by the rollback of a
\* transaction that such a request overlapped, or by a start that makes what
\* is missing (memoryBackend.Tx, server.New).
THEOREM WritersLast == Spec => WritesLast
<1>1. Inv /\ [Next]_vars =>
        [\A k \in DOMAIN db.docs :
            \/ Has(db', k) /\ db'.docs[k] = db.docs[k]
            \/ \E p \in Busy : /\ <<pc[p], loc[p]>>' # <<pc[p], loc[p]>>
                               /\ \/ Writes(req[p], k) /\ OthersKept(p, k)
                                  \/ pc[p] = "rollback" /\ \E r \in near[p] : Writes(r, k) \/ r.op = "createOrganization"
            \/ /\ boot # "up"
               /\ \/ k = AdminUser /\ ~Has(db, AdminKey)
                  \/ k[2] = "acls" /\ db.docs[k] = "legacy"
                  \/ BootOrg \notin db.orgs /\ (k[1] = BootOrg \/ k = OrgMeta(BootOrg))]_vars
  <2>1. SUFFICES ASSUME Inv, [Next]_vars, NEW k \in DOMAIN db.docs
                 PROVE  \/ Same(db, db', k)
                        \/ \E p \in Busy : /\ <<pc[p], loc[p]>>' # <<pc[p], loc[p]>>
                                           /\ \/ Writes(req[p], k) /\ OthersKept(p, k)
                                              \/ pc[p] = "rollback" /\ Crossed(p, k)
                        \/ /\ boot # "up"
                           /\ \/ k = AdminUser /\ ~Has(db, AdminKey)
                              \/ k[2] = "acls" /\ db.docs[k] = "legacy"
                              \/ BootOrg \notin db.orgs /\ (k[1] = BootOrg \/ k = OrgMeta(BootOrg))
    BY Zenon DEF Same, Has, Crossed
  <2>2. Control /\ Typed /\ ReadInv /\ StartInv /\ IsStore(db)
    BY <2>1 DEF Inv, Control, ReadInv, Typed
  <2>3. ASSUME NEW p \in Procs, Effect(p)
        PROVE  \/ Same(db, db', k)
               \/ /\ p \in Busy /\ <<pc[p], loc[p]>>' # <<pc[p], loc[p]>>
                  /\ \/ Writes(req[p], k) /\ OthersKept(p, k)
                     \/ pc[p] = "rollback" /\ Crossed(p, k)
    <3>1. p \in Busy
      BY <2>2, <2>3, EffectFrame DEF Frame, Busy
    <3>2. CASE ReadEffect(p)
      BY <3>2, ReadsLeave DEF Same
    <3>3. CASE WriteEffect(p)
      <4>1. SUFFICES ASSUME ~Same(db, db', k)
                     PROVE  <<pc[p], loc[p]>>' # <<pc[p], loc[p]>> /\ Writes(req[p], k) /\ OthersKept(p, k)
        BY <3>1
      <4>2. <<pc[p], loc[p]>>' # <<pc[p], loc[p]>> /\ Writes(req[p], k)
        BY <2>2, <3>3, <4>1, WriteChanges DEF Settles, Changes
      <4>3. CASE k \notin DOMAIN db'.docs \/ k[2] # "policy_groups"
        BY <4>2, <4>3 DEF OthersKept, Has
      <4>4. CASE pc[p] \in {"saveGroup", "saveGroups"} /\ k = Group(p) /\ db'.docs[k] = loc[p].group
        <5>1. Crossed(p, k) \/ Carries(loc[p].group, k, req[p].name)
          BY <2>2, <4>4 DEF ReadInv, GroupRead
        <5>2. CASE Crossed(p, k)
          BY <4>2, <5>2 DEF OthersKept, Crossed
        <5>3. CASE Carries(loc[p].group, k, req[p].name)
          BY <4>2, <4>4, <5>3 DEF OthersKept, Carries
        <5> QED
          BY <5>1, <5>2, <5>3
      <4> QED
        BY <2>2, <3>3, <4>1, <4>3, <4>4, GroupWrites
    <3>4. CASE RollsBack(p)
      <4>1. pc[p] = "rollback" /\ db' = loc[p].snap /\ pc' = [pc EXCEPT ![p] = "idle"]
        BY <3>4 DEF RollsBack, Goes
      <4>2. <<pc[p], loc[p]>>' # <<pc[p], loc[p]>>
        <5>1. pc'[p] # pc[p]
          BY <2>2, <4>1 DEF Typed
        <5> QED
          BY <5>1
      <4>3. Same(db, db', k) \/ Crossed(p, k)
        BY <2>2, <4>1 DEF ReadInv, SnapRead, Same
      <4> QED
        BY <3>1, <4>1, <4>2, <4>3
    <3> QED
      BY <2>3, <3>2, <3>3, <3>4 DEF Effect
  <2>4. CASE \E p \in Procs : Step(p)
    BY <2>2, <2>3, <2>4, StepEffects
  <2>5. CASE (\E p \in Procs : Begin(p) \/ StoreError(p)) \/ LoadKeys \/ Crash \/ UNCHANGED vars
    <3>1. UNCHANGED db
      BY <2>5 DEF Begin, StoreError, LoadKeys, Crash, vars
    <3> QED
      BY <3>1 DEF Same
  <2>6. CASE BootAdmin
    <3>1. boot = "admin" /\ (db' = db \/ (AdminKey \in fresh /\ db' = set(db, AdminUser, boots)))
      BY <2>6 DEF BootAdmin, Boot, AdminWrites
    <3>2. CASE db' = db
      BY <3>2 DEF Same
    <3>3. CASE AdminKey \in fresh /\ db' = set(db, AdminUser, boots)
      <4>1. ~Has(db, AdminKey)
        BY <2>2, <3>1, <3>3 DEF StartInv, Has
      <4>2. k # AdminUser => Same(db, db', k)
        BY <2>2, <3>3, SetFacts
      <4> QED
        BY <3>1, <4>1, <4>2
    <3> QED
      BY <3>1, <3>2, <3>3
  <2>7. CASE BootAdminKey \/ BootOrgKey
    <3>1. db' = db \/ \E x : x \notin DOMAIN db.docs /\ db' = set(db, x, boots)
      <4>1. CASE BootAdminKey
        BY <2>2, <4>1 DEF BootAdminKey, Boot, AdminWrites, StartInv
      <4>2. CASE BootOrgKey
        BY <2>2, <4>2 DEF BootOrgKey, Boot, StartInv
      <4> QED
        BY <2>7, <4>1, <4>2
    <3>2. Same(db, db', k)
      BY <2>2, <3>1, SetFacts DEF Same
    <3> QED
      BY <3>2
  <2>8. CASE BootOrganization
    <3>1. boot = "org" /\ (db' = db \/ (BootOrg \notin db.orgs /\ db' = Founded(db, BootOrg, boots)))
      BY <2>8 DEF BootOrganization, Boot
    <3>2. CASE db' = db
      BY <3>2 DEF Same
    <3>3. CASE BootOrg \notin db.orgs /\ db' = Founded(db, BootOrg, boots)
      <4>1. k \notin PlanKeys(BootOrg) => Same(db, db', k)
        BY <2>2, <3>3, FoundedFacts
      <4>2. k \in PlanKeys(BootOrg) => k = OrgMeta(BootOrg) \/ k[1] = BootOrg
        BY PlanFacts
      <4> QED
        BY <3>1, <3>3, <4>1, <4>2
    <3> QED
      BY <3>1, <3>2, <3>3
  <2>9. CASE UpgradeOrgACLs
    <3>1. boot = "upgrade" /\ (db' = db \/ \E o \in LegacyOrgs : db' = set(db, ClientsACL(o), "seeded"))
      BY <2>9 DEF UpgradeOrgACLs, Boot
    <3>2. CASE db' = db
      BY <3>2 DEF Same
    <3>3. CASE \E o \in LegacyOrgs : db' = set(db, ClientsACL(o), "seeded")
      <4>1. PICK o \in LegacyOrgs : db' = set(db, ClientsACL(o), "seeded")
        BY <3>3
      <4>2. k # ClientsACL(o) => Same(db, db', k)
        <5>1. PICK x : x = ClientsACL(o)
          OBVIOUS
        <5> QED
          BY <2>2, <4>1, <5>1, SetFacts
      <4>3. ClientsACL(o)[2] = "acls" /\ db.docs[ClientsACL(o)] = "legacy"
        BY <4>1 DEF LegacyOrgs, ClientsACL
      <4> QED
        BY <3>1, <4>2, <4>3
    <3> QED
      BY <3>1, <3>2, <3>3
  <2> QED
    BY <2>1, <2>4, <2>5, <2>6, <2>7, <2>8, <2>9, Zenon DEF Next, Done
<1> QED
  BY <1>1, Invariant, PTL DEF WritesLast, Spec

=============================================================================
