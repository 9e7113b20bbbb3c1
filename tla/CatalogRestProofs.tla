-------------------------- MODULE CatalogRestProofs -------------------------
(***************************************************************************)
(* Proofs that Catalog leaves a store in order when it comes to rest: a      *)
(* policy group deploys revisions that exist, and no item, ACL, document or  *)
(* organization is orphaned.                                                 *)
(*                                                                          *)
(* In flight, what is not in order is on the way of some goroutine (Sweeps,  *)
(* Empties, Clears, Making), what a goroutine is about to store is in order  *)
(* (Claims), and what an overlapping request spoiled is excused because the   *)
(* overlap was counted when the later one began (Frays).                     *)
(***************************************************************************)
EXTENDS CatalogProofs

-----------------------------------------------------------------------------
(* A store in order.                                                        *)

Gone(o) == Excused(<<"organizations", o>>)

\* The documents that make an object, a bag, a group or a policy exist.
Coll(t) == IF t = "data" THEN "data_bags" ELSE t
Stands(j, o, t, n) ==
    \/ t = "policies" /\ j[1] = o /\ j[2] = "policy_revisions" /\ j[3] = n
    \/ t # "policies" /\ j = <<o, Coll(t), "", n>>
Exists(d, o, t, n) == \E j \in DOMAIN d.docs : Stands(j, o, t, n)
Spared(o, t, n) == Excused(<<t, n>>) \/ Gone(o) \/ (t = "policies" /\ n \in emptied)
Kept(d, o, t, n) == Exists(d, o, t, n) \/ Spared(o, t, n)

Revision(o, x, v) == <<o, "policy_revisions", x, v>>
Loose(k, x) == Excused(<<"policy_groups", k[4]>>) \/ Excused(<<"policies", x>>) \/ Gone(k[1])
Deployable(d, k, x, v) == Revision(k[1], x, v) \in DOMAIN d.docs \/ Loose(k, x)

Registered(d, o) == o \in d.orgs <=> OrgMeta(o) \in DOMAIN d.docs

Shape(d) ==
    \A k \in DOMAIN d.docs :
        /\ k[2] = "policy_groups" => k[3] = "" /\ k[4] \in Groups
        /\ k[2] = "acls" => k = <<k[1], "acls", k[3], k[4]>> /\ k[3] \in ACLTypes
Homes(d) == \A k \in DOMAIN d.docs : k[1] = "" \/ k[1] \in d.orgs \/ Gone(k[1])

Rested(d) ==
    /\ Shape(d) /\ Homes(d)
    /\ \A k \in DOMAIN d.docs : k[2] = "policy_groups" => \A x \in DOMAIN d.docs[k] : Deployable(d, k, x, d.docs[k][x])
    /\ \A k \in DOMAIN d.docs : k[2] = "databag_items" => Kept(d, k[1], "data", k[3])
    /\ \A k \in DOMAIN d.docs : k[2] = "acls" => Kept(d, k[1], k[3], k[4])
    /\ \A o : Registered(d, o) \/ Gone(o)

-----------------------------------------------------------------------------
(* What goroutines in flight have yet to put in order.                      *)

\* A delete of a policy or a revision has yet to take out a deployment,
Sweeps(p, k, x, v) ==
    /\ req[p].org = k[1] /\ req[p].name = x /\ (req[p].op = "deleteRevision" => req[p].item = v)
    /\ \/ pc[p] \in {"deleteRevisions", "listGroups"}
       \/ pc[p] \in {"loadGroups", "saveGroups"} /\ k \in loc[p].todo
       \/ pc[p] = "saveGroups" /\ k = loc[p].key

\* a delete of a bag an item,
Empties(p, k) ==
    /\ req[p].org = k[1] /\ req[p].name = k[3]
    /\ pc[p] = "listBag" \/ (pc[p] = "deleteItems" /\ k \in loc[p].todo)

\* a delete of an object its ACL;
Clears(p, k) ==
    /\ req[p].org = k[1] /\ req[p].typ = k[3] /\ req[p].name = k[4]
    /\ pc[p] \in {"listBag", "deleteItems", "deleteRevisions", "listGroups", "loadGroups", "saveGroups", "deleteACL"}
    /\ req[p].op # "deleteRevision"

\* and an organization is between its metadata and itself.
Making(p, o) ==
    req[p].org = o /\ (pc[p] = "deleteOrg" \/ (pc[p] = "provision" /\ loc[p].step <= 3))

GroupsFine ==
    \A k \in DOMAIN db.docs : k[2] = "policy_groups" =>
        \A x \in DOMAIN db.docs[k] :
            Deployable(db, k, x, db.docs[k][x]) \/ \E q \in Procs : Sweeps(q, k, x, db.docs[k][x])
ItemsFine ==
    \A k \in DOMAIN db.docs : k[2] = "databag_items" =>
        Kept(db, k[1], "data", k[3]) \/ \E q \in Procs : Empties(q, k)
ACLsFine ==
    \A k \in DOMAIN db.docs : k[2] = "acls" =>
        Kept(db, k[1], k[3], k[4]) \/ \E q \in Procs : Clears(q, k)
MetasFine == \A o : Registered(db, o) \/ Gone(o) \/ \E q \in Procs : Making(q, o)

Tidy == Shape(db) /\ Homes(db) /\ GroupsFine /\ ItemsFine /\ ACLsFine /\ MetasFine

-----------------------------------------------------------------------------
(* What a goroutine relies on.                                              *)

\* The overlap of two requests was counted.
Frays == \A p, q \in Busy : p # q => Clash(req[p], req[q]) \subseteq frayed

\* It writes into an organization that exists,
Unplaced == {"idle", "org", "getOrganization", "createOrganization", "found", "rollback",
             "putOrganization", "deleteOrganization", "deleteOrg"}
Placed(p) == pc[p] \notin Unplaced => req[p].org \in db.orgs \/ Gone(req[p].org)

\* its list is of groups,
Sorted(p) ==
    /\ pc[p] \in {"loadGroups", "saveGroups"} => \A k \in loc[p].todo : k[3] = "" /\ k[4] \in Groups
    /\ pc[p] = "saveGroups" => loc[p].key[3] = "" /\ loc[p].key[4] \in Groups

\* the group it holds deploys what exists, and so will the revision it stored,
Held(p) ==
    pc[p] \in {"saveGroup", "saveGroups"} \/ (pc[p] = "getDeployed" /\ req[p].op = "undeployPolicy") =>
        \A x \in DOMAIN loc[p].group : Deployable(db, Group(p), x, loc[p].group[x])
Stored(p) ==
    pc[p] = "deployLoad" => \/ RevisionKey(req[p]) \in DOMAIN db.docs
                            \/ Excused(<<"policies", req[p].name>>) \/ Gone(req[p].org)

\* what it makes an ACL for, or puts an item into, exists,
Grants(p) ==
    \/ pc[p] \in {"grantCreator", "storeACL", "storeItem"}
    \/ pc[p] = "inBag" /\ req[p].op \in {"createItem", "putItem"}
Granted(p) == Grants(p) => Kept(db, req[p].org, req[p].typ, req[p].name)

\* so does the container of a new organization before its ACL, and an
\* organization that is being deleted has no metadata.
Seeded(p) == pc[p] = "provision" /\ loc[p].step > 2 => Clients(req[p].org) \in DOMAIN db.docs \/ Gone(req[p].org)
Unlisted(p) == pc[p] = "deleteOrg" => OrgMeta(req[p].org) \notin DOMAIN db.docs \/ Gone(req[p].org)

\* A snapshot is in order, and of the same organizations.
SnapRested(p) ==
    pc[p] \in {"found", "rollback"} =>
        /\ Rested(loc[p].snap)
        /\ \A o : (o \in db.orgs <=> o \in loc[p].snap.orgs) \/ Gone(o)

Claims(p) == /\ Placed(p) /\ Sorted(p) /\ Held(p) /\ Stored(p) /\ Granted(p)
             /\ Seeded(p) /\ Unlisted(p) /\ SnapRested(p)

Rest == Tidy /\ Frays /\ \A p \in Procs : Claims(p)

-----------------------------------------------------------------------------
(* What overlapping requests are both about.                                *)

LEMMA TouchFacts ==
    ASSUME NEW r
    PROVE  /\ r.op \in OrgOps => Org(r) \in Touches(r)
           /\ r.op = "deleteGroup" => <<"policy_groups", r.group>> \in Touches(r)
           /\ r.op \in PolicyOps => <<"policies", r.name>> \in Touches(r)
           /\ r.op \in {"deletePolicy", "deleteRevision"} => \A g \in Groups : <<"policy_groups", g>> \in Touches(r)
           /\ r.op \in {"deployPolicy", "undeployPolicy"} => <<"policy_groups", r.group>> \in Touches(r)
           /\ r.op \in {"createObject", "putACL", "createItem", "putItem", "deleteObject", "deleteDataBag"} =>
                <<r.typ, r.name>> \in Touches(r)
<1>1. r.op \in OrgOps => Org(r) \in Touches(r)
  BY DEF Touches, OrgOps, ReadOps, PolicyOps
<1>2. r.op = "deleteGroup" => <<"policy_groups", r.group>> \in Touches(r)
  BY DEF Touches, OrgOps, ReadOps
<1>3. r.op \in PolicyOps => <<"policies", r.name>> \in Touches(r)
  BY DEF Touches, OrgOps, ReadOps, PolicyOps
<1>4. r.op \in {"deletePolicy", "deleteRevision"} => \A g \in Groups : <<"policy_groups", g>> \in Touches(r)
  BY DEF Touches, OrgOps, ReadOps, PolicyOps
<1>5. r.op \in {"deployPolicy", "undeployPolicy"} => <<"policy_groups", r.group>> \in Touches(r)
  BY DEF Touches, OrgOps, ReadOps, PolicyOps
<1>6. r.op \in {"createObject", "putACL", "createItem", "putItem", "deleteObject", "deleteDataBag"} =>
                <<r.typ, r.name>> \in Touches(r)
  BY DEF Touches, OrgOps, ReadOps, PolicyOps
<1> QED
  BY <1>1, <1>2, <1>3, <1>4, <1>5, <1>6

LEMMA ClashFacts ==
    ASSUME NEW r, NEW s
    PROVE  /\ Clash(r, s) = Clash(s, r)
           /\ r.org = s.org /\ r.op \in OrgOps => Org(r) \in Clash(r, s)
           /\ r.op \in DeleteOps => Touches(r) \cap Touches(s) \subseteq Clash(r, s)
           /\ r.op = "createOrganization" => Touches(s) \subseteq Clash(r, s)
<1>1. {r, s} = {s, r} /\ {r.op, s.op} = {s.op, r.op} /\ Touches(r) \cap Touches(s) = Touches(s) \cap Touches(r)
  OBVIOUS
<1>2. Clash(r, s) = Clash(s, r)
  BY <1>1, Zenon DEF Clash
<1>3. ASSUME r.org = s.org, r.op \in OrgOps
      PROVE  Org(r) \in Clash(r, s)
  <2>1. r \in {x \in {r, s} : r.org = s.org /\ OrgOps \cap {r.op, s.op} # {}}
    BY <1>3
  <2> QED
    BY <2>1, Zenon DEF Clash
<1>4. ASSUME r.op \in DeleteOps
      PROVE  Touches(r) \cap Touches(s) \subseteq Clash(r, s)
  <2>1. DeleteOps \cap {r.op, s.op} # {}
    BY <1>4
  <2> QED
    BY <2>1 DEF Clash
<1>5. ASSUME r.op = "createOrganization"
      PROVE  Touches(s) \subseteq Clash(r, s)
  <2>1. s \in {x \in {r, s} : "createOrganization" \in {r.op, s.op}}
    BY <1>5
  <2> QED
    BY <2>1, Zenon DEF Clash
<1> QED
  BY <1>2, <1>3, <1>4, <1>5

\* A request about one object touches it.
LEMMA TouchThing ==
    ASSUME Typed, NEW p \in Procs,
           req[p].op \in {"createObject", "putACL", "createItem", "putItem", "deleteObject", "deleteDataBag",
                          "deletePolicy", "deleteRevision", "deleteGroup"}
    PROVE  <<req[p].typ, req[p].name>> \in Touches(req[p])
<1>1. CASE req[p].op \in {"deletePolicy", "deleteRevision"}
  <2>1. req[p].typ = "policies" /\ req[p].op \in PolicyOps
    BY <1>1, RequestFacts DEF PolicyOps
  <2>2. <<"policies", req[p].name>> \in Touches(req[p])
    BY <2>1, TouchFacts
  <2> QED
    BY <2>1, <2>2
<1>2. CASE req[p].op = "deleteGroup"
  <2>1. req[p].typ = "policy_groups" /\ req[p].name = req[p].group
    BY <1>2, RequestFacts
  <2>2. <<"policy_groups", req[p].group>> \in Touches(req[p])
    BY <1>2, TouchFacts
  <2> QED
    BY <2>1, <2>2
<1>3. CASE req[p].op \in {"createObject", "putACL", "createItem", "putItem", "deleteObject", "deleteDataBag"}
  BY <1>3, TouchFacts
<1> QED
  BY <1>1, <1>2, <1>3

LEMMA Overlaps ==
    ASSUME Frays, NEW p \in Busy, NEW q \in Busy, p # q
    PROVE  /\ req[p].org = req[q].org /\ req[p].op \in OrgOps => Gone(req[p].org)
           /\ req[p].op \in DeleteOps => \A x \in Touches(req[p]) \cap Touches(req[q]) : Excused(x)
           /\ req[p].op = "createOrganization" => \A x \in Touches(req[q]) : Excused(x)
<1>1. Clash(req[p], req[q]) \subseteq frayed
  BY DEF Frays
<1>2. \A x \in Clash(req[p], req[q]) : Excused(x)
  BY <1>1 DEF Excused
<1>3. req[p].org = req[q].org /\ req[p].op \in OrgOps => Org(req[p]) \in Clash(req[p], req[q])
  BY ClashFacts
<1>4. Org(req[p]) = <<"organizations", req[p].org>>
  BY DEF Org
<1> QED
  BY <1>2, <1>3, <1>4, ClashFacts DEF Gone

-----------------------------------------------------------------------------
(* What a step adds to the store, what it takes from it, and what it does to *)
(* the organizations.                                                        *)

Adds(p, j) ==
    LET r == req[p]
    IN \/ pc[p] \in {"createObject", "createContainer", "storeObject"} /\ j = ObjectKey(r)
       \/ pc[p] \in {"grantCreator", "storeACL"} /\ j = ACLKey(r)
       \/ pc[p] = "createDataBag" /\ j = BagKey(r)
       \/ pc[p] = "inBag" /\ r.op = "createItem" /\ j = ItemKey(r)
       \/ pc[p] = "storeItem" /\ j = ItemKey(r)
       \/ pc[p] \in {"createRevision", "deployPolicy"} /\ j = RevisionKey(r)
       \/ pc[p] = "storeMeta" /\ j = OrgMeta(r.org)
       \/ pc[p] \in {"saveGroup", "saveGroups"} /\ j = Group(p) /\ db'.docs[j] = loc[p].group
       \/ pc[p] = "createOrganization" /\ j \in PlanKeys(r.org)
       \/ pc[p] = "provision" /\ j = Plan(r.org, -1)[loc[p].step][1]

Removes(p, j) ==
    LET r == req[p]
    IN \/ pc[p] = "deleteObject" /\ j = ObjectKey(r) /\ pc'[p] = "deleteACL"
       \/ pc[p] = "deleteACL" /\ j = ACLKey(r)
       \/ pc[p] = "deleteDataBag" /\ j = BagKey(r) /\ pc'[p] = "listBag"
       \/ pc[p] = "inBag" /\ r.op = "deleteItem" /\ j = ItemKey(r)
       \/ pc[p] = "deleteGroup" /\ j = GroupKey(r) /\ pc'[p] = "deleteACL"
       \/ pc[p] = "deleteOrganization" /\ j = OrgMeta(r.org)
       \/ pc[p] \in {"deleteItems", "deleteRevisions"} /\ j \in loc[p].todo /\ pc'[p] = pc[p]
       \/ /\ pc[p] = "deleteRevision" /\ j = RevisionKey(r) /\ pc'[p] = "listGroups"
          /\ CollKeys(db, r.org, "policy_revisions", r.name) = {j} => r.name \in emptied'
       \/ pc[p] = "deleteOrg" /\ j[1] = r.org

\* A step that stores, one that deletes, and one that drops an organization.
AddStages == {"createObject", "createContainer", "storeObject", "grantCreator", "storeACL", "createDataBag",
              "storeItem", "createRevision", "deployPolicy", "storeMeta", "saveGroup", "saveGroups",
              "createOrganization", "found", "provision"}
Delta(p) ==
    LET r == req[p]
    IN \/ /\ pc[p] \in AddStages \/ (pc[p] = "inBag" /\ r.op = "createItem")
          /\ DOMAIN db.docs \subseteq DOMAIN db'.docs
          /\ \A j \in DOMAIN db'.docs : (j \in DOMAIN db.docs /\ db'.docs[j] = db.docs[j]) \/ Adds(p, j)
          /\ \A j : Adds(p, j) => j \in DOMAIN db'.docs
          /\ IF pc[p] \in {"createOrganization", "found"} THEN db'.orgs = db.orgs \cup {r.org} ELSE db'.orgs = db.orgs
       \/ /\ pc[p] \in {"deleteObject", "deleteACL", "deleteDataBag", "deleteGroup", "deleteOrganization", "deleteItems",
                        "deleteRevisions", "deleteRevision"} \/ (pc[p] = "inBag" /\ r.op = "deleteItem")
          /\ \A j \in DOMAIN db'.docs : j \in DOMAIN db.docs /\ db'.docs[j] = db.docs[j]
          /\ \A j \in DOMAIN db.docs : j \in DOMAIN db'.docs \/ Removes(p, j)
          /\ db'.orgs = db.orgs
       \/ /\ pc[p] = "deleteOrg" /\ db'.orgs = db.orgs \ {r.org}
          /\ \A j \in DOMAIN db'.docs : j \in DOMAIN db.docs /\ db'.docs[j] = db.docs[j]
          /\ \A j \in DOMAIN db.docs : j \in DOMAIN db'.docs \/ j[1] = r.org
          /\ r.org \in db.orgs => \A j \in DOMAIN db'.docs : j[1] # r.org

LEMMA DeltaPut ==
    ASSUME Typed, NEW p \in Procs, NEW k, NEW v, db' = set(db, k, v), 
           pc[p] \in AddStages \/ (pc[p] = "inBag" /\ req[p].op = "createItem"),
           pc[p] \notin {"createOrganization", "found"}, db'.docs[k] = v => Adds(p, k), \A j : Adds(p, j) => j = k
    PROVE  Delta(p)
<1>1. /\ db'.orgs = db.orgs /\ DOMAIN db'.docs = DOMAIN db.docs \cup {k} /\ db'.docs[k] = v
      /\ \A x : x # k => Same(db, db', x)
  BY SetFacts DEF Typed
<1>2. \A j \in DOMAIN db'.docs : (j \in DOMAIN db.docs /\ db'.docs[j] = db.docs[j]) \/ Adds(p, j)
  BY <1>1 DEF Same
<1>3. \A j : Adds(p, j) => j \in DOMAIN db'.docs
  BY <1>1
<1> QED
  BY <1>1, <1>2, <1>3 DEF Delta

LEMMA DeltaPutsOne ==
    ASSUME Typed, NEW p \in Procs, PutsOne(p)
    PROVE  Delta(p)
<1> DEFINE r == req[p]
<1>1. CASE Puts(p, "createObject", ObjectKey(r), "doc", "grantCreator")
  BY <1>1, DeltaPut DEF Puts, Goes, AddStages, Adds
<1>2. CASE Puts(p, "grantCreator", ACLKey(r), "creator", "idle")
  BY <1>2, DeltaPut DEF Puts, Goes, AddStages, Adds
<1>3. CASE Puts(p, "createContainer", ObjectKey(r), "doc", "idle")
  BY <1>3, DeltaPut DEF Puts, Goes, AddStages, Adds
<1>4. CASE Puts(p, "storeObject", ObjectKey(r), "put", "idle")
  BY <1>4, DeltaPut DEF Puts, Goes, AddStages, Adds
<1>5. CASE Puts(p, "storeACL", ACLKey(r), "custom", "idle")
  BY <1>5, DeltaPut DEF Puts, Goes, AddStages, Adds
<1>6. CASE Puts(p, "createDataBag", BagKey(r), "doc", "idle")
  BY <1>6, DeltaPut DEF Puts, Goes, AddStages, Adds
<1>7. CASE Puts(p, "inBag", ItemKey(r), "doc", "idle") /\ r.op = "createItem"
  BY <1>7, DeltaPut DEF Puts, Goes, AddStages, Adds
<1>8. CASE Puts(p, "storeItem", ItemKey(r), "put", "idle")
  BY <1>8, DeltaPut DEF Puts, Goes, AddStages, Adds
<1>9. CASE Puts(p, "createRevision", RevisionKey(r), "doc", "idle")
  BY <1>9, DeltaPut DEF Puts, Goes, AddStages, Adds
<1>10. CASE Puts(p, "deployPolicy", RevisionKey(r), "doc", "deployLoad")
  BY <1>10, DeltaPut DEF Puts, Goes, AddStages, Adds
<1>11. CASE Puts(p, "storeMeta", OrgMeta(r.org), "doc", "idle")
  BY <1>11, DeltaPut DEF Puts, Goes, AddStages, Adds
<1> QED
  BY <1>1, <1>2, <1>3, <1>4, <1>5, <1>6, <1>7, <1>8, <1>9, <1>10, <1>11 DEF PutsOne

LEMMA DeltaSaves ==
    ASSUME Typed, NEW p \in Procs, Saves(p)
    PROVE  Delta(p)
<1>1. CASE Puts(p, "saveGroup", GroupKey(req[p]), loc[p].group, "idle")
  <2>1. pc[p] = "saveGroup" /\ Group(p) = GroupKey(req[p]) /\ db' = set(db, Group(p), loc[p].group)
    BY <1>1 DEF Puts, Goes, Group
  <2>2. /\ db'.docs[Group(p)] = loc[p].group => Adds(p, Group(p))
        /\ \A j : Adds(p, j) => j = Group(p)
    BY <2>1 DEF Adds
  <2> QED
    BY <2>1, <2>2, DeltaPut DEF AddStages
<1>2. CASE Puts(p, "saveGroups", loc[p].key, loc[p].group, "loadGroups")
  <2>1. pc[p] = "saveGroups" /\ Group(p) = loc[p].key /\ db' = set(db, Group(p), loc[p].group)
    BY <1>2 DEF Puts, Goes, Group
  <2>2. /\ db'.docs[Group(p)] = loc[p].group => Adds(p, Group(p))
        /\ \A j : Adds(p, j) => j = Group(p)
    BY <2>1 DEF Adds
  <2> QED
    BY <2>1, <2>2, DeltaPut DEF AddStages
<1> QED
  BY <1>1, <1>2 DEF Saves


LEMMA DeltaDelete ==
    ASSUME Typed, NEW p \in Procs, NEW k, db' = Delete(db, {k}), Removes(p, k),
           \/ pc[p] \in {"deleteObject", "deleteACL", "deleteDataBag", "deleteGroup", "deleteOrganization", "deleteItems",
                         "deleteRevisions", "deleteRevision"}
           \/ pc[p] = "inBag" /\ req[p].op = "deleteItem"
    PROVE  Delta(p)
<1>0. IsStore(db)
  BY DEF Typed
<1>1. /\ db'.orgs = db.orgs /\ DOMAIN db'.docs = DOMAIN db.docs \ {k}
      /\ \A x : x \notin {k} => Same(db, db', x)
  BY <1>0, DeleteFacts
<1>2. \A j \in DOMAIN db'.docs : j \in DOMAIN db.docs /\ db'.docs[j] = db.docs[j]
  BY <1>1 DEF Same
<1>3. \A j \in DOMAIN db.docs : j \in DOMAIN db'.docs \/ Removes(p, j)
  BY <1>1
<1> QED
  BY <1>1, <1>2, <1>3 DEF Delta

LEMMA DeltaDeletes ==
    ASSUME Typed, NEW p \in Procs, DeletesOne(p) \/ (\E k : DeletesEach(p, k)) \/ DeletesRevision(p)
    PROVE  Delta(p)
<1> DEFINE r == req[p]
<1>0. ASSUME NEW from, NEW to, Goes(p, from, to)
      PROVE  pc[p] = from /\ pc'[p] = to
  BY <1>0 DEF Goes, Typed
<1>1. CASE Deletes(p, "deleteObject", ObjectKey(r), "deleteACL")
  BY <1>0, <1>1, DeltaDelete DEF Deletes, Removes
<1>2. CASE Deletes(p, "deleteACL", ACLKey(r), "idle")
  BY <1>0, <1>2, DeltaDelete DEF Deletes, Removes
<1>3. CASE Deletes(p, "deleteDataBag", BagKey(r), "listBag")
  BY <1>0, <1>3, DeltaDelete DEF Deletes, Removes
<1>4. CASE Deletes(p, "inBag", ItemKey(r), "idle") /\ r.op = "deleteItem"
  BY <1>0, <1>4, DeltaDelete DEF Deletes, Removes
<1>5. CASE Deletes(p, "deleteGroup", GroupKey(r), "deleteACL")
  BY <1>0, <1>5, DeltaDelete DEF Deletes, Removes
<1>6. CASE Deletes(p, "deleteOrganization", OrgMeta(r.org), "deleteOrg")
  BY <1>0, <1>6, DeltaDelete DEF Deletes, Removes
<1>7. ASSUME NEW k, DeletesEach(p, k)
      PROVE  Delta(p)
  <2>1. /\ pc[p] \in {"deleteItems", "deleteRevisions"} /\ k \in loc[p].todo /\ db' = Delete(db, {k})
        /\ Goes(p, pc[p], pc[p])
    BY <1>7 DEF DeletesEach
  <2>2. Removes(p, k)
    BY <1>0, <2>1 DEF Removes
  <2> QED
    BY <2>1, <2>2, DeltaDelete
<1>8. CASE DeletesRevision(p)
  <2>1. /\ Goes(p, "deleteRevision", "listGroups") /\ db' = Delete(db, {RevisionKey(r)})
        /\ CollKeys(db, r.org, "policy_revisions", r.name) = {RevisionKey(r)} => r.name \in emptied'
    BY <1>8 DEF DeletesRevision
  <2>2. Removes(p, RevisionKey(r))
    BY <1>0, <2>1 DEF Removes
  <2>3. pc[p] = "deleteRevision"
    BY <1>0, <2>1
  <2> QED
    BY <2>1, <2>2, <2>3, DeltaDelete
<1> QED
  BY <1>1, <1>2, <1>3, <1>4, <1>5, <1>6, <1>7, <1>8 DEF DeletesOne

LEMMA DeltaOrgs ==
    ASSUME Control, NEW p \in Procs, Founds(p) \/ Creates(p) \/ Provides(p) \/ DropsOrg(p)
    PROVE  Delta(p)
<1> DEFINE r == req[p]
<1>0. Typed /\ Listed(p) /\ IsStore(db)
  BY DEF Control, Typed
<1>1. CASE Founds(p)
  <2>1. pc[p] = "createOrganization" /\ db' = Founded(db, r.org, -1)
    BY <1>1 DEF Founds, Goes
  <2>2. /\ db'.orgs = db.orgs \cup {r.org} /\ DOMAIN db'.docs = DOMAIN db.docs \cup PlanKeys(r.org)
        /\ \A x : x \notin PlanKeys(r.org) => Same(db, db', x)
    BY <1>0, <2>1, FoundedFacts
  <2>3. \A j \in DOMAIN db'.docs : (j \in DOMAIN db.docs /\ db'.docs[j] = db.docs[j]) \/ Adds(p, j)
    BY <2>1, <2>2 DEF Adds, Same
  <2>4. \A j : Adds(p, j) => j \in DOMAIN db'.docs
    BY <2>1, <2>2 DEF Adds
  <2> QED
    BY <2>1, <2>2, <2>3, <2>4 DEF Delta, AddStages
<1>2. CASE Creates(p)
  <2>1. pc[p] = "found" /\ db' = CreateOrg(db, r.org)
    BY <1>2 DEF Creates, Goes
  <2>2. db'.orgs = db.orgs \cup {r.org} /\ db'.docs = db.docs
    BY <1>0, <2>1, OrgFacts
  <2>3. \A j : ~Adds(p, j)
    BY <2>1 DEF Adds
  <2> QED
    BY <2>1, <2>2, <2>3 DEF Delta, AddStages
<1>3. CASE Provides(p)
  <2> DEFINE w == Plan(r.org, -1)[loc[p].step]
  <2>1. pc[p] = "provision" /\ db' = Provide(db, w)
    BY <1>3 DEF Provides, Goes
  <2> HIDE DEF w
  <2>2. /\ db'.orgs = db.orgs /\ DOMAIN db'.docs = DOMAIN db.docs \cup {w[1]}
        /\ \A x : x # w[1] => Same(db, db', x)
    BY <1>0, <2>1, ProvideFacts
  <2>3. Adds(p, w[1])
    BY <2>1 DEF Adds, w
  <2>4. \A j \in DOMAIN db'.docs : (j \in DOMAIN db.docs /\ db'.docs[j] = db.docs[j]) \/ Adds(p, j)
    BY <2>2, <2>3 DEF Same
  <2>5. \A j : Adds(p, j) => j = w[1]
    BY <2>1 DEF Adds, w
  <2> QED
    BY <2>1, <2>2, <2>4, <2>5 DEF Delta, AddStages
<1>4. CASE DropsOrg(p)
  <2>1. pc[p] = "deleteOrg" /\ db' = DeleteOrg(db, r.org)
    BY <1>4 DEF DropsOrg, Goes
  <2>2. /\ db'.orgs = db.orgs \ {r.org}
        /\ \A x : x[1] # r.org => Same(db, db', x)
        /\ DOMAIN db'.docs \subseteq DOMAIN db.docs
        /\ \A x \in DOMAIN db'.docs : Same(db, db', x)
        /\ r.org \in db.orgs => \A x \in DOMAIN db'.docs : x[1] # r.org
    BY <1>0, <2>1, OrgFacts
  <2> QED
    BY <2>1, <2>2 DEF Delta, Same
<1> QED
  BY <1>1, <1>2, <1>3, <1>4

LEMMA WriteDelta ==
    ASSUME Control, NEW p \in Procs, WriteEffect(p)
    PROVE  Delta(p)
BY DeltaPutsOne, DeltaSaves, DeltaDeletes, DeltaOrgs DEF WriteEffect, Control


-----------------------------------------------------------------------------
(* Who can take away a revision, or an object.                              *)

LEMMA KeyFacts ==
    ASSUME NEW r
    PROVE  /\ ObjectKey(r)[1] = r.org /\ ObjectKey(r)[2] = r.typ /\ ObjectKey(r)[4] = r.name
           /\ BagKey(r)[1] = r.org /\ BagKey(r)[2] = "data_bags" /\ BagKey(r)[4] = r.name
           /\ ItemKey(r)[1] = r.org /\ ItemKey(r)[2] = "databag_items" /\ ItemKey(r)[3] = r.name
           /\ RevisionKey(r)[1] = r.org /\ RevisionKey(r)[2] = "policy_revisions" /\ RevisionKey(r)[3] = r.name
           /\ RevisionKey(r)[4] = r.item
           /\ GroupKey(r)[1] = r.org /\ GroupKey(r)[2] = "policy_groups" /\ GroupKey(r)[4] = r.group
           /\ ACLKey(r)[1] = r.org /\ ACLKey(r)[2] = "acls" /\ ACLKey(r)[3] = r.typ /\ ACLKey(r)[4] = r.name
           /\ OrgMeta(r.org)[2] = "organizations" /\ OrgMeta(r.org)[4] = r.org
BY DEF ObjectKey, BagKey, ItemKey, RevisionKey, GroupKey, ACLKey, OrgMeta

LEMMA StandFacts ==
    ASSUME NEW j, NEW o, NEW t \in ACLTypes, NEW n, Stands(j, o, t, n)
    PROVE  /\ j[1] = o
           /\ t = "policies" => j[2] = "policy_revisions" /\ j[3] = n
           /\ t = "data" => j[2] = "data_bags"
           /\ t \notin {"policies", "data"} => j[2] = t /\ t \in ObjectTypes \cup {"policy_groups"}
           /\ t # "policies" => j[4] = n
<1>1. CASE t = "policies"
  BY <1>1 DEF Stands
<1>2. CASE t # "policies"
  <2>1. j = <<o, Coll(t), "", n>>
    BY <1>2 DEF Stands
  <2>2. j[1] = o /\ j[2] = Coll(t) /\ j[4] = n
    BY <2>1
  <2>3. /\ t = "data" => Coll(t) = "data_bags"
        /\ t # "data" => Coll(t) = t
        /\ t \notin {"policies", "data"} => t \in ObjectTypes \cup {"policy_groups"}
    BY DEF Coll, ACLTypes
  <2> QED
    BY <1>2, <2>2, <2>3
<1> QED
  BY <1>1, <1>2

ClearStages == {"listBag", "deleteItems", "deleteRevisions", "listGroups", "loadGroups", "saveGroups", "deleteACL"}

LEMMA RevisionLost ==
    ASSUME Control, NEW p \in Procs, Delta(p), NEW o, NEW x, NEW v,
           Revision(o, x, v) \in DOMAIN db.docs, Revision(o, x, v) \notin DOMAIN db'.docs
    PROVE  /\ req[p].org = o
           /\ \/ pc[p] = "deleteOrg" /\ req[p].op = "deleteOrganization"
              \/ /\ pc[p] = "deleteRevisions" /\ req[p].name = x /\ req[p].op = "deletePolicy"
                 /\ pc'[p] = "deleteRevisions"
              \/ /\ pc[p] = "deleteRevision" /\ req[p].name = x /\ req[p].op = "deleteRevision"
                 /\ req[p].item = v /\ pc'[p] = "listGroups"
<1> DEFINE j == Revision(o, x, v)
           r == req[p]
<1>0. Typed /\ Stage(p) /\ Listed(p)
  BY DEF Control
<1>1. j[1] = o /\ j[2] = "policy_revisions" /\ j[3] = x /\ j[4] = v
  BY DEF Revision
<1> HIDE DEF j
<1>2. Removes(p, j) \/ (pc[p] = "deleteOrg" /\ j[1] = r.org)
  BY DEF Delta, j
<1>3. r.op = "deleteObject" => r.typ \in ObjectTypes
  BY <1>0, RequestFacts DEF ObjectOps
<1>4. /\ pc[p] = "deleteObject" => r.op = "deleteObject"
      /\ pc[p] = "deleteRevision" => r.op = "deleteRevision"
      /\ pc[p] = "deleteOrg" => r.op = "deleteOrganization"
      /\ pc[p] = "deleteRevisions" => r.op = "deletePolicy"
  BY <1>0 DEF Stage, Ops, DeleteOps
<1>5. CASE pc[p] = "deleteOrg" /\ j[1] = r.org
  BY <1>1, <1>4, <1>5
<1>6. CASE Removes(p, j)
  <2>1. CASE pc[p] = "deleteObject" /\ j = ObjectKey(r)
    BY <1>1, <1>3, <1>4, <2>1, KeyFacts DEF ObjectTypes
  <2>2. CASE pc[p] \in {"deleteItems", "deleteRevisions"} /\ j \in loc[p].todo /\ pc'[p] = pc[p]
    BY <1>0, <1>1, <1>4, <2>2 DEF Listed, IsIn
  <2>3. CASE pc[p] = "deleteRevision" /\ j = RevisionKey(r) /\ pc'[p] = "listGroups"
    BY <1>1, <1>4, <2>3, KeyFacts
  <2>4. CASE j \in {ACLKey(r), BagKey(r), ItemKey(r), GroupKey(r), OrgMeta(r.org)}
    BY <1>1, <2>4, KeyFacts
  <2> QED
    BY <1>5, <1>6, <2>1, <2>2, <2>3, <2>4 DEF Removes
<1> QED
  BY <1>2, <1>5, <1>6

LEMMA ThingLost ==
    ASSUME Control, NEW p \in Procs, Delta(p), NEW o, NEW t \in ACLTypes, NEW n,
           Exists(db, o, t, n), ~Exists(db', o, t, n)
    PROVE  /\ req[p].org = o
           /\ \/ pc[p] = "deleteOrg" /\ req[p].op = "deleteOrganization"
              \/ /\ req[p].typ = t /\ req[p].name = n
                 /\ \/ /\ req[p].op \in {"deleteObject", "deleteDataBag", "deletePolicy", "deleteGroup"}
                       /\ pc'[p] \in ClearStages /\ (t = "data" => pc'[p] = "listBag")
                    \/ req[p].op = "deleteRevision" /\ t = "policies" /\ n \in emptied'
<1> DEFINE r == req[p]
<1>0. Typed /\ Stage(p) /\ Listed(p)
  BY DEF Control
<1>1. PICK j \in DOMAIN db.docs : Stands(j, o, t, n)
  BY DEF Exists
<1>2. \A i \in DOMAIN db.docs : Stands(i, o, t, n) => i \notin DOMAIN db'.docs
  BY DEF Exists
<1>3. \A i \in DOMAIN db.docs : Stands(i, o, t, n) => Removes(p, i) \/ (pc[p] = "deleteOrg" /\ i[1] = r.org)
  BY <1>2 DEF Delta
<1>4. /\ pc[p] = "deleteObject" => r.op = "deleteObject" /\ r.typ \in ObjectTypes
      /\ pc[p] = "deleteDataBag" => r.op = "deleteDataBag" /\ r.typ = "data"
      /\ pc[p] = "deleteGroup" => r.op = "deleteGroup" /\ r.typ = "policy_groups" /\ r.name = r.group
      /\ pc[p] = "deleteRevisions" => r.op = "deletePolicy" /\ r.typ = "policies"
      /\ pc[p] = "deleteRevision" => r.op = "deleteRevision" /\ r.typ = "policies"
      /\ pc[p] = "deleteOrg" => r.op = "deleteOrganization"
  BY <1>0, RequestFacts DEF Stage, Ops, DeleteOps, ObjectOps, PolicyOps
<1>5. /\ j[1] = o
      /\ t = "policies" => j[2] = "policy_revisions" /\ j[3] = n
      /\ t = "data" => j[2] = "data_bags"
      /\ t \notin {"policies", "data"} => j[2] = t /\ t \in ObjectTypes \cup {"policy_groups"}
      /\ t # "policies" => j[4] = n
  BY <1>1, StandFacts
<1>6. CASE pc[p] = "deleteOrg"
  BY <1>1, <1>3, <1>4, <1>5, <1>6 DEF Removes
<1>7. CASE pc[p] # "deleteOrg"
  <2>0. Removes(p, j)
    BY <1>1, <1>3, <1>7
  <2>1. CASE pc[p] = "deleteObject" /\ j = ObjectKey(r) /\ pc'[p] = "deleteACL"
    BY <1>4, <1>5, <2>1, KeyFacts DEF ObjectTypes, ClearStages
  <2>2. CASE pc[p] = "deleteDataBag" /\ j = BagKey(r) /\ pc'[p] = "listBag"
    BY <1>4, <1>5, <2>2, KeyFacts DEF ObjectTypes, ClearStages
  <2>3. CASE pc[p] = "deleteGroup" /\ j = GroupKey(r) /\ pc'[p] = "deleteACL"
    BY <1>4, <1>5, <2>3, KeyFacts DEF ObjectTypes, ClearStages
  <2>4. CASE pc[p] = "deleteItems" /\ j \in loc[p].todo
    BY <1>0, <1>5, <2>4 DEF Listed, IsIn, ObjectTypes
  <2>5. CASE pc[p] = "deleteRevisions" /\ j \in loc[p].todo /\ pc'[p] = pc[p]
    <3>1. j[1] = r.org /\ j[2] = "policy_revisions" /\ j[3] = r.name
      BY <1>0, <2>5 DEF Listed, IsIn
    <3> QED
      BY <1>4, <1>5, <2>5, <3>1 DEF ObjectTypes, ClearStages
  <2>6. CASE pc[p] = "deleteRevision" /\ j = RevisionKey(r)
    <3>1. t = "policies" /\ n = r.name /\ o = r.org
      BY <1>5, <2>6, KeyFacts DEF ObjectTypes
    <3>2. CollKeys(db, r.org, "policy_revisions", r.name) = {j}
      <4>1. \A i \in CollKeys(db, r.org, "policy_revisions", r.name) : i \in DOMAIN db.docs /\ Stands(i, o, t, n)
        BY <3>1 DEF CollKeys, Stands
      <4>2. \A i \in CollKeys(db, r.org, "policy_revisions", r.name) : Removes(p, i)
        BY <1>3, <1>7, <4>1
      <4>3. \A i \in CollKeys(db, r.org, "policy_revisions", r.name) : i = RevisionKey(r)
        BY <2>6, <4>2 DEF Removes
      <4>4. j \in CollKeys(db, r.org, "policy_revisions", r.name)
        BY <1>5, <3>1 DEF CollKeys
      <4> QED
        BY <2>6, <4>3, <4>4
    <3>3. r.name \in emptied'
      BY <2>0, <2>6, <3>2 DEF Removes
    <3> QED
      BY <1>4, <2>6, <3>1, <3>3
  <2>7. CASE j \in {ACLKey(r), ItemKey(r), OrgMeta(r.org)}
    <3>0. ACLKey(r)[2] = "acls" /\ ItemKey(r)[2] = "databag_items" /\ OrgMeta(r.org)[2] = "organizations"
      BY KeyFacts
    <3>1. j[2] \in {"acls", "databag_items", "organizations"}
      BY <2>7, <3>0
    <3> QED
      BY <1>5, <3>1 DEF ObjectTypes
  <2> QED
    BY <1>7, <2>0, <2>1, <2>2, <2>3, <2>4, <2>5, <2>6, <2>7 DEF Removes
<1> QED
  BY <1>6, <1>7


-----------------------------------------------------------------------------
(* Where a step comes from.                                                  *)

LEMMA Departs ==
    ASSUME Typed, NEW p \in Procs, ReadEffect(p) \/ WriteEffect(p)
    PROVE  /\ pc[p] \in {"listBag", "listGroups"} => Lists(p)
           /\ pc[p] \in {"deleteItems", "deleteRevisions"} => Sees(p) \/ (\E k : DeletesEach(p, k))
           /\ pc[p] = "loadGroups" => Sees(p) \/ Answers(p) \/ \E k : Skips(p, k) \/ Loads(p, k)
           /\ pc[p] = "saveGroups" => Puts(p, "saveGroups", loc[p].key, loc[p].group, "loadGroups")
           /\ pc[p] = "deleteACL" => Deletes(p, "deleteACL", ACLKey(req[p]), "idle")
           /\ pc[p] = "provision" => Provides(p)
           /\ pc[p] = "deleteOrg" => DropsOrg(p)
<1> DEFINE At == {"listBag", "listGroups", "deleteItems", "deleteRevisions", "loadGroups", "saveGroups", "deleteACL",
                  "provision", "deleteOrg"}
<1>0. \A from, to : Goes(p, from, to) => pc[p] = from
  BY DEF Goes
<1>1. CASE pc[p] \notin At
  BY <1>1
<1>2. CASE Answers(p)
  BY <1>2 DEF Answers, Undone
<1>3. CASE Sees(p)
  <2>1. pc[p] \in At => pc[p] \in {"deleteItems", "deleteRevisions", "loadGroups"}
    BY <1>0, <1>3 DEF Sees, Reads, ItemOps
  <2> QED
    BY <1>3, <2>1
<1>4. CASE Lists(p)
  BY <1>0, <1>4 DEF Lists, Reads
<1>5. CASE \E k : Skips(p, k) \/ Loads(p, k)
  <2>1. pc[p] = "loadGroups"
    BY <1>0, <1>5 DEF Skips, Loads, Reads
  <2> QED
    BY <1>5, <2>1
<1>6. CASE Deploys(p) \/ Opens(p) \/ Undeploys(p) \/ Snaps(p)
  <2>1. pc[p] \notin At
    BY <1>0, <1>6 DEF Deploys, Opens, Undeploys, Snaps, Reads
  <2> QED
    BY <2>1
<1>7. CASE PutsOne(p)
  <2>1. pc[p] \notin At
    BY <1>0, <1>7 DEF PutsOne, Puts
  <2> QED
    BY <2>1
<1>8. CASE Saves(p)
  BY <1>0, <1>8 DEF Saves, Puts
<1>9. CASE DeletesOne(p)
  BY <1>0, <1>9 DEF DeletesOne, Deletes
<1>10. CASE \E k : DeletesEach(p, k)
  <2>1. pc[p] \in {"deleteItems", "deleteRevisions"}
    BY <1>10 DEF DeletesEach
  <2> QED
    BY <1>10, <2>1
<1>11. CASE DeletesRevision(p) \/ Founds(p) \/ Creates(p)
  <2>1. pc[p] \notin At
    BY <1>0, <1>11, Zenon DEF DeletesRevision, Founds, Creates
  <2> QED
    BY <2>1
<1>12. CASE Provides(p) \/ DropsOrg(p)
  <2>1. /\ Provides(p) => pc[p] = "provision"
        /\ DropsOrg(p) => pc[p] = "deleteOrg"
    BY <1>0, Zenon DEF Provides, DropsOrg
  <2> QED
    BY <1>12, <2>1
<1> QED
  BY <1>2, <1>3, <1>4, <1>5, <1>6, <1>7, <1>8, <1>9, <1>10, <1>11, <1>12 DEF ReadEffect, WriteEffect

\* A step of a request, but for the end of a failed transaction.
Moves(p) == Frame(p) /\ cut \subseteq cut' /\ emptied \subseteq emptied' /\ (UNCHANGED db \/ Delta(p))

LEMMA EffectMoves ==
    ASSUME Control, NEW p \in Procs, ReadEffect(p) \/ WriteEffect(p)
    PROVE  Moves(p)
<1>0. Typed
  BY DEF Control
<1>1. Frame(p)
  BY <1>0, EffectFrame DEF Effect
<1>2. UNCHANGED db \/ Delta(p)
  BY ReadsLeave, WriteDelta
<1>3. cut \subseteq cut' /\ emptied \subseteq emptied'
  <2>1. CASE ReadEffect(p)
    BY <2>1, Zenon DEF ReadEffect, Answers, Sees, Lists, Skips, Loads, Deploys, Opens, Undeploys, Snaps, Reads
  <2>2. CASE PutsOne(p) \/ Saves(p) \/ DeletesOne(p)
    BY <2>2 DEF PutsOne, Saves, DeletesOne, Puts, Deletes
  <2>3. CASE (\E k : DeletesEach(p, k)) \/ Founds(p) \/ Creates(p) \/ Provides(p) \/ DropsOrg(p)
    BY <2>3, Zenon DEF DeletesEach, Founds, Creates, Provides, DropsOrg
  <2>4. CASE DeletesRevision(p)
    BY <2>4 DEF DeletesRevision
  <2> QED
    BY <2>1, <2>2, <2>3, <2>4 DEF WriteEffect
<1> QED
  BY <1>1, <1>2, <1>3 DEF Moves

\* What is excused stays excused.
LEMMA Grows ==
    ASSUME frayed \subseteq frayed', cut \subseteq cut', emptied \subseteq emptied'
    PROVE  /\ \A x : Excused(x) => Excused(x)'
           /\ \A o : Gone(o) => Gone(o)'
           /\ \A o, t, n : Spared(o, t, n) => Spared(o, t, n)'
           /\ \A k, x : Loose(k, x) => Loose(k, x)'
BY DEF Excused, Gone, Spared, Loose

Loses(p, o, t, n) ==
    /\ req[p].org = o /\ Delta(p)
    /\ \/ pc[p] = "deleteOrg" /\ req[p].op = "deleteOrganization"
       \/ /\ req[p].typ = t /\ req[p].name = n
          /\ req[p].op \in {"deleteObject", "deleteDataBag", "deletePolicy", "deleteGroup"}
          /\ pc'[p] \in ClearStages /\ (t = "data" => pc'[p] = "listBag")

LEMMA KeptStep ==
    ASSUME Control, NEW p \in Procs, Moves(p), NEW o, NEW t \in ACLTypes, NEW n, Kept(db, o, t, n)
    PROVE  Kept(db, o, t, n)' \/ Loses(p, o, t, n)
<1>1. CASE Spared(o, t, n)
  BY <1>1, Grows DEF Moves, Frame, Kept
<1>2. CASE Exists(db, o, t, n)
  <2>1. CASE Exists(db', o, t, n)
    BY <2>1 DEF Kept
  <2>2. CASE ~Exists(db', o, t, n)
    <3>1. Delta(p)
      BY <1>2, <2>2 DEF Moves
    <3>2. Loses(p, o, t, n) \/ (t = "policies" /\ n \in emptied')
      BY <1>2, <2>2, <3>1, ThingLost, Zenon DEF Loses
    <3> QED
      BY <3>2 DEF Kept, Spared
  <2> QED
    BY <2>1, <2>2
<1> QED
  BY <1>1, <1>2 DEF Kept

\* A goroutine in flight does not lose what it touches to another.
LEMMA KeptOther ==
    ASSUME Control, Frays, NEW p \in Procs, Moves(p), NEW q \in Busy, q # p,
           NEW t \in ACLTypes, NEW n, Kept(db, req[q].org, t, n), <<t, n>> \in Touches(req[q])
    PROVE  Kept(db, req[q].org, t, n)'
<1>1. PICK o : o = req[q].org
  OBVIOUS
<1>0. p \in Busy /\ UNCHANGED <<req, frayed>> /\ cut \subseteq cut' /\ emptied \subseteq emptied' /\ Typed
  BY DEF Moves, Frame, Busy, Control
<1>2. ASSUME Loses(p, o, t, n)
      PROVE  Spared(o, t, n)
  <2>1. CASE req[p].op = "deleteOrganization"
    BY <1>0, <1>1, <1>2, <2>1, Overlaps DEF Loses, OrgOps, Spared
  <2>2. CASE req[p].op # "deleteOrganization"
    <3>1. /\ req[p].op \in {"deleteObject", "deleteDataBag", "deletePolicy", "deleteGroup"}
          /\ req[p].typ = t /\ req[p].name = n
      BY <1>2, <2>2 DEF Loses
    <3>2. <<t, n>> \in Touches(req[p])
      BY <1>0, <3>1, TouchThing
    <3>3. req[p].op \in DeleteOps
      BY <3>1 DEF DeleteOps
    <3> QED
      BY <1>0, <3>2, <3>3, Overlaps DEF Spared
  <2> QED
    BY <2>1, <2>2
<1>3. Kept(db, o, t, n)'
  <2>1. CASE Spared(o, t, n)
    BY <1>0, <2>1, Grows DEF Kept
  <2>2. CASE ~Spared(o, t, n)
    BY <1>1, <1>2, <2>2, KeptStep
  <2> QED
    BY <2>1, <2>2
<1> QED
  BY <1>0, <1>1, <1>3


-----------------------------------------------------------------------------
(* What a step stores.                                                       *)

LEMMA PlanKeyFacts ==
    ASSUME NEW o
    PROVE  /\ Default(o)[1] = o /\ Default(o)[2] = "environments"
           /\ Clients(o)[1] = o /\ Clients(o)[2] = "containers"
           /\ OrgMeta(o)[1] = "" /\ OrgMeta(o)[2] = "organizations" /\ OrgMeta(o)[4] = o
           /\ Validator(o)[1] = o /\ Validator(o)[2] = "clients"
           /\ ClientsACL(o)[1] = o /\ ClientsACL(o)[2] = "acls" /\ ClientsACL(o)[3] = "containers"
           /\ ClientsACL(o)[4] = "clients"
BY DEF Default, Clients, OrgMeta, Validator, ClientsACL

LEMMA AddsFacts ==
    ASSUME Control, NEW p \in Procs, NEW j, Adds(p, j)
    PROVE  /\ j[1] = req[p].org \/ j = OrgMeta(req[p].org)
           /\ j[2] = "policy_groups" =>
                pc[p] \in {"saveGroup", "saveGroups"} /\ j = Group(p) /\ db'.docs[j] = loc[p].group
           /\ j[2] = "databag_items" => Grants(p) /\ req[p].typ = "data" /\ j[1] = req[p].org /\ j[3] = req[p].name
           /\ j[2] = "acls" =>
                \/ pc[p] \in {"grantCreator", "storeACL"} /\ j = ACLKey(req[p])
                \/ /\ j = ClientsACL(req[p].org)
                   /\ pc[p] = "createOrganization" \/ (pc[p] = "provision" /\ loc[p].step = 5)
           /\ j[2] = "organizations" =>
                /\ j = OrgMeta(req[p].org)
                /\ pc[p] \in {"storeMeta", "createOrganization"} \/ (pc[p] = "provision" /\ loc[p].step = 3)
<1> DEFINE r == req[p]
<1>0. Typed /\ Stage(p) /\ Listed(p)
  BY DEF Control
<1>a. /\ BagKey(r)[1] = r.org /\ BagKey(r)[2] = "data_bags"
      /\ RevisionKey(r)[1] = r.org /\ RevisionKey(r)[2] = "policy_revisions"
  BY KeyFacts
<1>b. PICK o : o = r.org
  OBVIOUS
<1>c. /\ Default(o)[1] = o /\ Default(o)[2] = "environments"
      /\ Clients(o)[1] = o /\ Clients(o)[2] = "containers" /\ OrgMeta(o)[2] = "organizations"
      /\ Validator(o)[1] = o /\ Validator(o)[2] = "clients"
      /\ ClientsACL(o)[1] = o /\ ClientsACL(o)[2] = "acls"
  BY PlanKeyFacts
<1>1. CASE pc[p] \in {"createObject", "createContainer", "storeObject"} /\ j = ObjectKey(r)
  <2>1. r.op \in {"createObject", "putObject", "createContainer"}
    BY <1>0, <1>1 DEF Stage, Ops, ObjectOps
  <2>2. r.typ \in ObjectTypes
    BY <1>0, <2>1, RequestFacts DEF ObjectOps, ObjectTypes
  <2>3. j[1] = r.org /\ j[2] = r.typ
    BY <1>1, KeyFacts
  <2> QED
    BY <2>2, <2>3 DEF ObjectTypes
<1>2. CASE pc[p] \in {"grantCreator", "storeACL"} /\ j = ACLKey(r)
  <2>1. j[1] = r.org /\ j[2] = "acls"
    BY <1>2, KeyFacts
  <2> QED
    BY <1>2, <2>1
<1>3. CASE j \in {BagKey(r), RevisionKey(r)}
  <2>1. j[1] = r.org /\ j[2] \in {"data_bags", "policy_revisions"}
    BY <1>3, <1>a
  <2> QED
    BY <2>1
<1>4. CASE ((pc[p] = "inBag" /\ r.op = "createItem") \/ pc[p] = "storeItem") /\ j = ItemKey(r)
  <2>1. j[1] = r.org /\ j[2] = "databag_items" /\ j[3] = r.name
    BY <1>4, KeyFacts
  <2>2. r.op \in ItemOps
    BY <1>0, <1>4 DEF Stage, ItemOps
  <2>3. r.typ = "data"
    BY <1>0, <2>2, RequestFacts
  <2> QED
    BY <1>4, <2>1, <2>3 DEF Grants
<1>5. CASE pc[p] = "storeMeta" /\ j = OrgMeta(r.org)
  <2>1. j[2] = "organizations"
    BY <1>5, PlanKeyFacts
  <2> QED
    BY <1>5, <2>1
<1>6. CASE pc[p] \in {"saveGroup", "saveGroups"} /\ j = Group(p) /\ db'.docs[j] = loc[p].group
  <2>1. j[1] = r.org /\ j[2] = "policy_groups"
    BY <1>0, <1>6, KeyFacts DEF Group, Listed, IsIn
  <2> QED
    BY <1>6, <2>1
<1>7. CASE pc[p] = "createOrganization" /\ j \in PlanKeys(r.org)
  <2>1. j \in {Default(r.org), Clients(r.org), OrgMeta(r.org), Validator(r.org), ClientsACL(r.org)}
    BY <1>7 DEF PlanKeys
  <2>2. j[1] = r.org \/ j = OrgMeta(r.org)
    BY <1>b, <1>c, <2>1
  <2>3. j[2] \notin {"policy_groups", "databag_items"}
    BY <1>b, <1>c, <2>1
  <2>4. j[2] = "acls" => j = ClientsACL(r.org)
    BY <1>b, <1>c, <2>1
  <2>5. j[2] = "organizations" => j = OrgMeta(r.org)
    BY <1>b, <1>c, <2>1
  <2> QED
    BY <1>7, <2>2, <2>3, <2>4, <2>5
<1>8. CASE pc[p] = "provision" /\ j = Plan(r.org, -1)[loc[p].step][1]
  <2> DEFINE i == loc[p].step
  <2>0. i \in 1 .. 5 /\ j = Plan(r.org, -1)[i][1]
    BY <1>0, <1>8 DEF Listed
  <2> HIDE DEF i
  <2>1. /\ i = 1 => j = Default(r.org)
        /\ i = 2 => j = Clients(r.org)
        /\ i = 3 => j = OrgMeta(r.org)
        /\ i = 4 => j = Validator(r.org)
        /\ i = 5 => j = ClientsACL(r.org)
    <3>1. PICK v : v = -1
      OBVIOUS
    <3>2. PICK w : w = Plan(o, v)
      OBVIOUS
    <3>a. /\ Plan(o, v)[1][1] = Default(o) /\ Plan(o, v)[2][1] = Clients(o) /\ Plan(o, v)[3][1] = OrgMeta(o)
          /\ Plan(o, v)[4][1] = Validator(o) /\ Plan(o, v)[5][1] = ClientsACL(o)
      BY DEF Plan, Default, Clients, OrgMeta, Validator, ClientsACL
    <3>3. /\ w[1][1] = Default(o) /\ w[2][1] = Clients(o) /\ w[3][1] = OrgMeta(o)
          /\ w[4][1] = Validator(o) /\ w[5][1] = ClientsACL(o)
      BY <3>2, <3>a
    <3>4. j = w[i][1]
      BY <1>b, <2>0, <3>1, <3>2
    <3> QED
      BY <1>b, <3>3, <3>4
  <2>2. i \in {1, 2, 3, 4, 5}
    BY <2>0
  <2>3. j[1] = r.org \/ j = OrgMeta(r.org)
    BY <1>b, <1>c, <2>1, <2>2
  <2>4. j[2] \notin {"policy_groups", "databag_items"}
    BY <1>b, <1>c, <2>1, <2>2
  <2>5. j[2] = "acls" => j = ClientsACL(r.org) /\ i = 5
    BY <1>b, <1>c, <2>1, <2>2
  <2>6. j[2] = "organizations" => j = OrgMeta(r.org) /\ i = 3
    BY <1>b, <1>c, <2>1, <2>2
  <2> QED
    BY <1>8, <2>3, <2>4, <2>5, <2>6 DEF i
<1> QED
  BY <1>1, <1>2, <1>3, <1>4, <1>5, <1>6, <1>7, <1>8 DEF Adds


LEMMA ShapeStep ==
    ASSUME Control, NEW p \in Procs, Moves(p), Shape(db), Sorted(p)
    PROVE  Shape(db)'
<1>0. Typed /\ Stage(p)
  BY DEF Control
<1>1. SUFFICES ASSUME NEW k \in DOMAIN db'.docs
               PROVE  /\ k[2] = "policy_groups" => k[3] = "" /\ k[4] \in Groups
                      /\ k[2] = "acls" => k = <<k[1], "acls", k[3], k[4]>> /\ k[3] \in ACLTypes
  BY DEF Shape
<1>2. k \in DOMAIN db.docs \/ Adds(p, k)
  BY DEF Moves, Delta
<1>3. CASE k \in DOMAIN db.docs
  BY <1>3 DEF Shape
<1>4. CASE Adds(p, k)
  <2>1. ASSUME k[2] = "policy_groups"
        PROVE  k[3] = "" /\ k[4] \in Groups
    <3>1. pc[p] \in {"saveGroup", "saveGroups"} /\ k = Group(p)
      BY <1>4, <2>1, AddsFacts
    <3>2. CASE pc[p] = "saveGroup"
      <4>1. req[p].group \in Groups
        BY <1>0, <3>2, RequestFacts DEF Stage
      <4>2. k = GroupKey(req[p])
        BY <3>1, <3>2 DEF Group
      <4> QED
        BY <4>1, <4>2 DEF GroupKey
    <3>3. CASE pc[p] = "saveGroups"
      BY <3>1, <3>3 DEF Group, Sorted
    <3> QED
      BY <3>1, <3>2, <3>3
  <2>2. ASSUME k[2] = "acls"
        PROVE  k = <<k[1], "acls", k[3], k[4]>> /\ k[3] \in ACLTypes
    <3>1. CASE pc[p] \in {"grantCreator", "storeACL"} /\ k = ACLKey(req[p])
      <4>1. req[p].typ \in ACLTypes
        BY <1>0, <3>1, RequestFacts DEF Stage, ObjectOps, ACLTypes
      <4> QED
        BY <3>1, <4>1 DEF ACLKey
    <3>2. CASE k = ClientsACL(req[p].org)
      BY <3>2 DEF ClientsACL, ACLTypes, ObjectTypes
    <3> QED
      BY <1>4, <2>2, <3>1, <3>2, AddsFacts
  <2> QED
    BY <2>1, <2>2
<1> QED
  BY <1>2, <1>3, <1>4

LEMMA HomesStep ==
    ASSUME Control, NEW p \in Procs, Moves(p), Homes(db), Placed(p)
    PROVE  Homes(db)'
<1>0. frayed \subseteq frayed' /\ cut \subseteq cut' /\ emptied \subseteq emptied'
  BY DEF Moves, Frame
<1>1. SUFFICES ASSUME NEW k \in DOMAIN db'.docs, ~Gone(k[1])', k[1] # ""
               PROVE  k[1] \in db'.orgs
  BY DEF Homes
<1>2. k \in DOMAIN db.docs => k[1] \in db.orgs
  BY <1>0, <1>1, Grows DEF Homes
<1>3. CASE UNCHANGED db
  BY <1>2, <1>3
<1>4. CASE Delta(p) /\ k \notin DOMAIN db.docs
  <2>1. Adds(p, k) /\ (pc[p] \in AddStages \/ pc[p] = "inBag")
    BY <1>4 DEF Delta
  <2>2. k[1] = req[p].org
    <3>1. k[1] = req[p].org \/ k = OrgMeta(req[p].org)
      BY <2>1, AddsFacts
    <3>2. OrgMeta(req[p].org)[1] = ""
      BY DEF OrgMeta
    <3> QED
      BY <1>1, <3>1, <3>2
  <2>3. CASE pc[p] \in {"createOrganization", "found"}
    BY <1>4, <2>2, <2>3 DEF Delta
  <2>4. CASE pc[p] \notin {"createOrganization", "found"}
    <3>1. db'.orgs = db.orgs
      BY <1>4, <2>1, <2>4 DEF Delta, AddStages
    <3>2. req[p].org \in db.orgs \/ Gone(req[p].org)
      BY <2>1, <2>4 DEF Placed, Unplaced, AddStages
    <3> QED
      BY <1>0, <1>1, <2>2, <3>1, <3>2, Grows
  <2> QED
    BY <2>3, <2>4
<1>5. CASE Delta(p) /\ k \in DOMAIN db.docs
  BY <1>2, <1>5 DEF Delta
<1> QED
  BY <1>3, <1>4, <1>5 DEF Moves


-----------------------------------------------------------------------------
(* Items and ACLs.                                                          *)

\* What is left of an organization that is dropped was orphaned before.
LEMMA Dropped ==
    ASSUME Control, NEW p \in Procs, Moves(p), Homes(db), Delta(p), pc[p] = "deleteOrg",
           NEW k \in DOMAIN db'.docs, k \in DOMAIN db.docs, k[1] = req[p].org
    PROVE  Gone(k[1])'
<1>0. Typed /\ frayed \subseteq frayed' /\ cut \subseteq cut' /\ emptied \subseteq emptied'
  BY DEF Control, Moves, Frame
<1>1. k[1] # ""
  BY <1>0, RequestFacts
<1>2. req[p].org \notin db.orgs
  BY DEF Delta, AddStages
<1>3. Gone(k[1])
  BY <1>1, <1>2 DEF Homes
<1> QED
  BY <1>0, <1>3, Grows

LEMMA GrantOps ==
    ASSUME Control, NEW p \in Procs, Grants(p)
    PROVE  /\ req[p].op \in {"createObject", "putACL", "createItem", "putItem"} /\ req[p].typ \in ACLTypes
           /\ <<req[p].typ, req[p].name>> \in Touches(req[p])
<1>0. Typed /\ Stage(p)
  BY DEF Control
<1>1. req[p].op \in {"createObject", "putACL", "createItem", "putItem"}
  BY <1>0 DEF Stage, Grants
<1>2. req[p].typ \in ACLTypes
  BY <1>0, <1>1, RequestFacts DEF ACLTypes, ObjectOps, ItemOps
<1> QED
  BY <1>0, <1>1, <1>2, TouchThing

LEMMA GrantKept ==
    ASSUME Control, NEW p \in Procs, Moves(p), Grants(p), Granted(p)
    PROVE  Kept(db, req[p].org, req[p].typ, req[p].name)'
<1>1. PICK o, t, n : o = req[p].org /\ t = req[p].typ /\ n = req[p].name
  OBVIOUS
<1>2. UNCHANGED req
  BY DEF Moves, Frame
<1>3. t \in ACLTypes /\ ~Loses(p, o, t, n)
  BY <1>1, GrantOps DEF Loses
<1>4. Kept(db, o, t, n)
  BY <1>1 DEF Granted
<1>5. Kept(db, o, t, n)'
  BY <1>3, <1>4, KeptStep
<1> QED
  BY <1>1, <1>2, <1>5

LEMMA EmptiesOn ==
    ASSUME Control, NEW p \in Procs, ReadEffect(p) \/ WriteEffect(p), Moves(p), NEW k \in DOMAIN db.docs,
           k \in DOMAIN db'.docs, k[2] = "databag_items", Empties(p, k)
    PROVE  Empties(p, k)'
<1>0. Typed /\ UNCHANGED req /\ IsStore(db)
  BY DEF Control, Moves, Frame, Typed
<1>1. ASSUME NEW from, NEW to, Goes(p, from, to)
      PROVE  pc[p] = from /\ pc'[p] = to
  BY <1>0, <1>1 DEF Goes, Typed
<1>2. CASE pc[p] = "listBag"
  <2>1. Lists(p)
    BY <1>0, <1>2, Departs
  <2>2. /\ Reads(p, "listBag", "deleteItems")
        /\ Takes(p, [loc[p] EXCEPT !.todo = CollKeys(db, req[p].org, "databag_items", req[p].name)])
    <3>1. ~Reads(p, "deletePolicy", "deleteRevisions") /\ ~Reads(p, "listGroups", "loadGroups")
      BY <1>1, <1>2 DEF Reads
    <3> QED
      BY <2>1, <3>1, Zenon DEF Lists
  <2>3. pc'[p] = "deleteItems"
    BY <1>1, <2>2 DEF Reads
  <2>4. loc'[p].todo = CollKeys(db, req[p].org, "databag_items", req[p].name)
    <3> DEFINE K == CollKeys(db, req[p].org, "databag_items", req[p].name)
    <3> HIDE DEF K
    <3>1. loc' = [loc EXCEPT ![p] = [loc[p] EXCEPT !.todo = K]]
      BY <2>2, Zenon DEF Takes, K
    <3>2. loc'[p].todo = K
      BY <1>0, <3>1 DEF Typed, LocFields
    <3> QED
      BY <3>2 DEF K
  <2>5. k \in loc'[p].todo
    BY <2>4 DEF CollKeys, Empties
  <2> QED
    BY <1>0, <2>3, <2>5 DEF Empties
<1>3. CASE pc[p] = "deleteItems"
  <2>0. k \in loc[p].todo
    BY <1>3 DEF Empties
  <2>1. CASE Sees(p)
    BY <1>1, <1>3, <2>0, <2>1 DEF Sees, Reads, ItemOps
  <2>2. ASSUME NEW i, DeletesEach(p, i)
        PROVE  Empties(p, k)'
    <3>1. pc'[p] = "deleteItems" /\ db' = Delete(db, {i}) /\ Takes(p, [loc[p] EXCEPT !.todo = @ \ {i}])
      BY <1>1, <1>3, <2>2 DEF DeletesEach
    <3>2. k # i
      BY <1>0, <3>1, DeleteFacts
    <3>3. loc'[p].todo = loc[p].todo \ {i}
      BY <1>0, <3>1 DEF Takes, Typed, LocFields
    <3> QED
      BY <1>0, <2>0, <3>1, <3>2, <3>3 DEF Empties
  <2> QED
    BY <1>0, <1>3, <2>1, <2>2, Departs
<1> QED
  BY <1>2, <1>3 DEF Empties

LEMMA ItemsStep ==
    ASSUME Control, NEW p \in Procs, ReadEffect(p) \/ WriteEffect(p), Moves(p), Homes(db), ItemsFine, Granted(p)
    PROVE  ItemsFine'
<1>0. UNCHANGED req /\ \A q \in Procs : q # p => pc'[q] = pc[q] /\ loc'[q] = loc[q]
  BY DEF Moves, Frame
<1>1. SUFFICES ASSUME NEW k \in DOMAIN db'.docs, k[2] = "databag_items"
               PROVE  Kept(db, k[1], "data", k[3])' \/ \E q \in Procs : Empties(q, k)'
  BY DEF ItemsFine
<1>2. "data" \in ACLTypes
  BY DEF ACLTypes
<1>3. CASE k \notin DOMAIN db.docs
  <2>1. Adds(p, k)
    BY <1>3 DEF Moves, Delta
  <2>2. Grants(p) /\ req[p].typ = "data" /\ k[1] = req[p].org /\ k[3] = req[p].name
    BY <1>1, <2>1, AddsFacts
  <2>3. Kept(db, req[p].org, req[p].typ, req[p].name)'
    BY <2>2, GrantKept
  <2> QED
    BY <1>0, <2>2, <2>3
<1>4. CASE k \in DOMAIN db.docs /\ Kept(db, k[1], "data", k[3])
  <2>1. CASE Kept(db, k[1], "data", k[3])'
    BY <2>1
  <2>2. CASE Loses(p, k[1], "data", k[3])
    <3>1. CASE pc[p] = "deleteOrg"
      <4>1. Gone(k[1])'
        BY <1>4, <2>2, <3>1, Dropped DEF Loses
      <4> QED
        BY <4>1 DEF Kept, Spared
    <3>2. CASE pc[p] # "deleteOrg"
      <4>1. Empties(p, k)'
        BY <1>0, <2>2, <3>2 DEF Loses, Empties
      <4> QED
        BY <4>1
    <3> QED
      BY <3>1, <3>2
  <2> QED
    BY <1>2, <1>4, <2>1, <2>2, KeptStep
<1>5. ASSUME k \in DOMAIN db.docs, NEW q \in Procs, Empties(q, k)
      PROVE  Empties(q, k)'
  <2>1. CASE q = p
    BY <1>1, <1>5, <2>1, EmptiesOn
  <2>2. CASE q # p
    BY <1>0, <1>5, <2>2 DEF Empties
  <2> QED
    BY <2>1, <2>2
<1> QED
  BY <1>1, <1>3, <1>4, <1>5 DEF ItemsFine


LEMMA ClearsOn ==
    ASSUME Control, NEW p \in Procs, ReadEffect(p) \/ WriteEffect(p), Moves(p), Shape(db), NEW k \in DOMAIN db.docs,
           k \in DOMAIN db'.docs, k[2] = "acls", Clears(p, k)
    PROVE  Clears(p, k)'
<1>0. Typed /\ UNCHANGED req /\ IsStore(db) /\ Stage(p)
  BY DEF Control, Moves, Frame, Typed
<1>1. ASSUME NEW from, NEW to, Goes(p, from, to)
      PROVE  pc[p] = from /\ pc'[p] = to
  BY <1>0, <1>1 DEF Goes, Typed
<1>2. SUFFICES pc'[p] \in ClearStages
  BY <1>0 DEF Clears, ClearStages
<1>3. CASE pc[p] \in {"listBag", "listGroups"}
  <2>1. Lists(p)
    BY <1>0, <1>3, Departs
  <2> QED
    BY <1>1, <2>1 DEF Lists, Reads, ClearStages
<1>4. CASE pc[p] \in {"deleteItems", "deleteRevisions"}
  <2>1. CASE Sees(p)
    BY <1>1, <1>4, <2>1 DEF Sees, Reads, ItemOps, ClearStages
  <2>2. CASE \E i : DeletesEach(p, i)
    BY <1>1, <1>4, <2>2 DEF DeletesEach, ClearStages
  <2> QED
    BY <1>0, <1>4, <2>1, <2>2, Departs
<1>5. CASE pc[p] = "loadGroups"
  <2>0. req[p].op = "deletePolicy"
    BY <1>0, <1>5 DEF Stage, Clears
  <2>1. ~Answers(p)
    BY <1>5, <2>0 DEF Answers, Undone
  <2>2. CASE Sees(p)
    BY <1>1, <1>5, <2>2 DEF Sees, Reads, ItemOps, ClearStages
  <2>3. CASE \E i : Skips(p, i) \/ Loads(p, i)
    BY <1>1, <2>3 DEF Skips, Loads, Reads, ClearStages
  <2> QED
    BY <1>0, <1>5, <2>1, <2>2, <2>3, Departs
<1>6. CASE pc[p] = "saveGroups"
  <2>1. Puts(p, "saveGroups", loc[p].key, loc[p].group, "loadGroups")
    BY <1>0, <1>6, Departs
  <2> QED
    BY <1>1, <2>1 DEF Puts, ClearStages
<1>7. CASE pc[p] = "deleteACL"
  <2>1. Deletes(p, "deleteACL", ACLKey(req[p]), "idle")
    BY <1>0, <1>7, Departs
  <2>2. ACLKey(req[p]) \notin DOMAIN db'.docs
    BY <1>0, <2>1, DeleteFacts DEF Deletes
  <2>3. k = <<k[1], "acls", k[3], k[4]>>
    BY DEF Shape
  <2>4. k = ACLKey(req[p])
    BY <2>3 DEF Clears, ACLKey
  <2> QED
    BY <2>2, <2>4
<1> QED
  BY <1>3, <1>4, <1>5, <1>6, <1>7 DEF Clears

LEMMA ACLsStep ==
    ASSUME Control, NEW p \in Procs, ReadEffect(p) \/ WriteEffect(p), Moves(p), Shape(db), Homes(db), ACLsFine,
           Granted(p), Seeded(p)
    PROVE  ACLsFine'
<1>0. /\ UNCHANGED req /\ \A q \in Procs : q # p => pc'[q] = pc[q] /\ loc'[q] = loc[q]
      /\ frayed \subseteq frayed' /\ cut \subseteq cut' /\ emptied \subseteq emptied'
  BY DEF Moves, Frame
<1>1. SUFFICES ASSUME NEW k \in DOMAIN db'.docs, k[2] = "acls"
               PROVE  Kept(db, k[1], k[3], k[4])' \/ \E q \in Procs : Clears(q, k)'
  BY DEF ACLsFine
<1>3. CASE k \notin DOMAIN db.docs
  <2>1. Delta(p) /\ Adds(p, k)
    BY <1>3 DEF Moves, Delta
  <2>2. CASE pc[p] \in {"grantCreator", "storeACL"} /\ k = ACLKey(req[p])
    <3>1. k[1] = req[p].org /\ k[3] = req[p].typ /\ k[4] = req[p].name
      BY <2>2, KeyFacts
    <3>2. Grants(p)
      BY <2>2 DEF Grants
    <3>3. Kept(db, req[p].org, req[p].typ, req[p].name)'
      BY <3>2, GrantKept
    <3> QED
      BY <1>0, <3>1, <3>3
  <2>3. CASE /\ k = ClientsACL(req[p].org)
             /\ pc[p] = "createOrganization" \/ (pc[p] = "provision" /\ loc[p].step = 5)
    <3>0. PICK o : o = req[p].org
      OBVIOUS
    <3>1. k[1] = o /\ k[3] = "containers" /\ k[4] = "clients"
      BY <2>3, <3>0 DEF ClientsACL
    <3>2. Clients(o) \in DOMAIN db'.docs \/ Gone(o)'
      <4>1. CASE pc[p] = "createOrganization"
        <5>1. Adds(p, Clients(o))
          BY <3>0, <4>1 DEF Adds, PlanKeys
        <5> QED
          BY <2>1, <4>1, <5>1 DEF Delta
      <4>2. CASE pc[p] = "provision" /\ loc[p].step = 5
        <5>1. Clients(o) \in DOMAIN db.docs \/ Gone(o)
          BY <3>0, <4>2 DEF Seeded
        <5>2. DOMAIN db.docs \subseteq DOMAIN db'.docs
          BY <2>1, <4>2 DEF Delta
        <5> QED
          BY <1>0, <5>1, <5>2, Grows
      <4> QED
        BY <2>3, <4>1, <4>2
    <3>3. Stands(Clients(o), o, "containers", "clients")
      BY DEF Stands, Clients, Coll
    <3>4. Kept(db, o, "containers", "clients")'
      BY <3>2, <3>3 DEF Kept, Exists, Spared
    <3> QED
      BY <3>1, <3>4
  <2> QED
    BY <1>1, <2>1, <2>2, <2>3, AddsFacts
<1>4. CASE k \in DOMAIN db.docs /\ Kept(db, k[1], k[3], k[4])
  <2>0. k[3] \in ACLTypes
    BY <1>1, <1>4 DEF Shape
  <2>1. CASE Kept(db, k[1], k[3], k[4])'
    BY <2>1
  <2>2. CASE Loses(p, k[1], k[3], k[4])
    <3>1. CASE pc[p] = "deleteOrg"
      <4>1. Gone(k[1])'
        BY <1>4, <2>2, <3>1, Dropped DEF Loses
      <4> QED
        BY <4>1 DEF Kept, Spared
    <3>2. CASE pc[p] # "deleteOrg"
      <4>1. Clears(p, k)'
        BY <1>0, <2>2, <3>2 DEF Loses, Clears, ClearStages
      <4> QED
        BY <4>1
    <3> QED
      BY <3>1, <3>2
  <2> QED
    BY <1>4, <2>0, <2>1, <2>2, KeptStep
<1>5. ASSUME k \in DOMAIN db.docs, NEW q \in Procs, Clears(q, k)
      PROVE  Clears(q, k)'
  <2>1. CASE q = p
    BY <1>1, <1>5, <2>1, ClearsOn
  <2>2. CASE q # p
    BY <1>0, <1>5, <2>2 DEF Clears
  <2> QED
    BY <2>1, <2>2
<1> QED
  BY <1>1, <1>3, <1>4, <1>5 DEF ACLsFine


-----------------------------------------------------------------------------
(* Deployments.                                                              *)

LosesRevision(p, o, x, v) ==
    /\ req[p].org = o /\ Delta(p)
    /\ \/ pc[p] = "deleteOrg" /\ req[p].op = "deleteOrganization"
       \/ /\ pc[p] = "deleteRevisions" /\ req[p].name = x /\ req[p].op = "deletePolicy"
          /\ pc'[p] = "deleteRevisions"
       \/ /\ pc[p] = "deleteRevision" /\ req[p].name = x /\ req[p].op = "deleteRevision"
          /\ req[p].item = v /\ pc'[p] = "listGroups"

LEMMA RevisionStep ==
    ASSUME Control, NEW p \in Procs, Moves(p), NEW o, NEW x, NEW v, Revision(o, x, v) \in DOMAIN db.docs
    PROVE  Revision(o, x, v) \in DOMAIN db'.docs \/ LosesRevision(p, o, x, v)
<1>1. CASE UNCHANGED db
  BY <1>1
<1>2. CASE Delta(p)
  BY <1>2, RevisionLost, Zenon DEF LosesRevision
<1> QED
  BY <1>1, <1>2 DEF Moves

LEMMA DeployStep ==
    ASSUME Control, NEW p \in Procs, Moves(p), NEW k, NEW x, NEW v, Deployable(db, k, x, v)
    PROVE  Deployable(db, k, x, v)' \/ LosesRevision(p, k[1], x, v)
<1>1. CASE Loose(k, x)
  BY <1>1, Grows DEF Moves, Frame, Deployable
<1>2. CASE Revision(k[1], x, v) \in DOMAIN db.docs
  BY <1>2, RevisionStep DEF Deployable
<1> QED
  BY <1>1, <1>2 DEF Deployable

LEMMA SweepsOn ==
    ASSUME Control, NEW p \in Procs, ReadEffect(p) \/ WriteEffect(p), Moves(p), Shape(db), NEW k \in DOMAIN db.docs,
           k[2] = "policy_groups", NEW x \in DOMAIN db.docs[k], Sweeps(p, k, x, db.docs[k][x])
    PROVE  \/ \A v : v = db.docs[k][x] => Sweeps(p, k, x, v)'
           \/ pc[p] = "saveGroups" /\ k = loc[p].key
<1>0. Typed /\ UNCHANGED req /\ DOMAIN loc = Procs /\ DOMAIN loc[p] = LocFields
  BY DEF Control, Moves, Frame, Typed
<1>1. ASSUME NEW from, NEW to, Goes(p, from, to)
      PROVE  pc[p] = from /\ pc'[p] = to
  BY <1>0, <1>1 DEF Goes, Typed
<1>2. PICK v : v = db.docs[k][x]
  OBVIOUS
<1>3. /\ req[p].org = k[1] /\ req[p].name = x /\ (req[p].op = "deleteRevision" => req[p].item = v)
      /\ \/ pc[p] \in {"deleteRevisions", "listGroups"}
         \/ pc[p] \in {"loadGroups", "saveGroups"} /\ k \in loc[p].todo
         \/ pc[p] = "saveGroups" /\ k = loc[p].key
  BY <1>2 DEF Sweeps
<1>4. SUFFICES ASSUME ~(pc[p] = "saveGroups" /\ k = loc[p].key)
               PROVE  Sweeps(p, k, x, v)'
  BY <1>2
<1>5. CASE pc[p] = "deleteRevisions"
  <2>1. pc'[p] \in {"deleteRevisions", "listGroups"}
    <3>1. CASE Sees(p)
      BY <1>1, <1>5, <3>1 DEF Sees, Reads, ItemOps
    <3>2. CASE \E i : DeletesEach(p, i)
      BY <1>1, <1>5, <3>2 DEF DeletesEach
    <3> QED
      BY <1>0, <1>5, <3>1, <3>2, Departs
  <2> QED
    BY <1>0, <1>3, <2>1 DEF Sweeps
<1>6. CASE pc[p] = "listGroups"
  <2> DEFINE K == CollKeys(db, req[p].org, "policy_groups", "")
  <2>0. k \in K
    BY <1>3 DEF CollKeys, Shape
  <2>1. Lists(p)
    BY <1>0, <1>6, Departs
  <2>2. ~Reads(p, "deletePolicy", "deleteRevisions") /\ ~Reads(p, "listBag", "deleteItems")
    BY <1>1, <1>6 DEF Reads
  <2> HIDE DEF K
  <2>3. Reads(p, "listGroups", "loadGroups") /\ Takes(p, [loc[p] EXCEPT !.todo = K])
    BY <2>1, <2>2, Zenon DEF Lists, K
  <2>4. pc'[p] = "loadGroups" /\ loc'[p].todo = K
    BY <1>0, <1>1, <2>3 DEF Reads, Takes, LocFields
  <2> QED
    BY <1>0, <1>3, <2>0, <2>4 DEF Sweeps
<1>7. CASE pc[p] = "loadGroups"
  <2>0. k \in loc[p].todo
    BY <1>3, <1>7
  <2>1. ~Answers(p)
    BY <1>7, <2>0 DEF Answers, Undone
  <2>2. ~Sees(p)
    BY <1>1, <1>7, <2>0 DEF Sees, Reads, ItemOps
  <2>3. ASSUME NEW i, Skips(p, i)
        PROVE  Sweeps(p, k, x, v)'
    <3>1. /\ Reads(p, "loadGroups", "loadGroups") /\ ~(Has(db, i) /\ Affected(p, db.docs[i]))
          /\ Takes(p, [loc[p] EXCEPT !.todo = @ \ {i}])
      BY <2>3 DEF Skips
    <3>2. Has(db, k) /\ Affected(p, db.docs[k])
      BY <1>2, <1>3 DEF Has, Affected
    <3>3. pc'[p] = "loadGroups" /\ loc'[p].todo = loc[p].todo \ {i}
      BY <1>0, <1>1, <3>1 DEF Reads, Takes, LocFields
    <3>4. i # k
      BY <3>1, <3>2
    <3> QED
      BY <1>0, <1>3, <2>0, <3>3, <3>4 DEF Sweeps
  <2>4. ASSUME NEW i, Loads(p, i)
        PROVE  Sweeps(p, k, x, v)'
    <3> DEFINE g == Undeployed(db.docs[i], req[p].name)
    <3> HIDE DEF g
    <3>1. /\ Reads(p, "loadGroups", "saveGroups")
          /\ Takes(p, [loc[p] EXCEPT !.group = g, !.todo = @ \ {i}, !.key = i])
      BY <2>4, Zenon DEF Loads, g
    <3>2. pc'[p] = "saveGroups" /\ loc'[p].todo = loc[p].todo \ {i} /\ loc'[p].key = i
      BY <1>0, <1>1, <3>1 DEF Reads, Takes, LocFields
    <3> QED
      BY <1>0, <1>3, <2>0, <3>2 DEF Sweeps
  <2> QED
    BY <1>0, <1>7, <2>1, <2>2, <2>3, <2>4, Departs
<1>8. CASE pc[p] = "saveGroups"
  <2>1. Puts(p, "saveGroups", loc[p].key, loc[p].group, "loadGroups")
    BY <1>0, <1>8, Departs
  <2>2. pc'[p] = "loadGroups" /\ loc' = loc
    BY <1>1, <2>1 DEF Puts
  <2> QED
    BY <1>0, <1>3, <1>4, <1>8, <2>2 DEF Sweeps
<1> QED
  BY <1>3, <1>5, <1>6, <1>7, <1>8

LEMMA GroupsStep ==
    ASSUME Control, NEW p \in Procs, ReadEffect(p) \/ WriteEffect(p), Moves(p), Shape(db), Homes(db), GroupsFine, Held(p)
    PROVE  GroupsFine'
<1>0. /\ UNCHANGED req /\ \A q \in Procs : q # p => pc'[q] = pc[q] /\ loc'[q] = loc[q]
      /\ frayed \subseteq frayed' /\ cut \subseteq cut' /\ emptied \subseteq emptied' /\ Typed /\ IsStore(db)
  BY DEF Moves, Frame, Control, Typed
<1>1. SUFFICES ASSUME NEW k \in DOMAIN db'.docs, k[2] = "policy_groups", NEW x \in DOMAIN db'.docs[k]
               PROVE  \A v : v = db'.docs[k][x] => Deployable(db, k, x, v)' \/ \E q \in Procs : Sweeps(q, k, x, v)'
  BY DEF GroupsFine
<1>2. PICK v : v = db'.docs[k][x]
  OBVIOUS
<1>3. SUFFICES Deployable(db, k, x, v)' \/ \E q \in Procs : Sweeps(q, k, x, v)'
  BY <1>2
<1>4. CASE pc[p] \in {"saveGroup", "saveGroups"} /\ k = Group(p) /\ db'.docs[k] = loc[p].group
  <2>1. Deployable(db, k, x, v)
    BY <1>1, <1>2, <1>4 DEF Held
  <2>2. ~LosesRevision(p, k[1], x, v)
    BY <1>4 DEF LosesRevision
  <2> QED
    BY <2>1, <2>2, DeployStep
<1>5. CASE k \in DOMAIN db.docs /\ db'.docs[k] = db.docs[k]
  <2>1. x \in DOMAIN db.docs[k] /\ v = db.docs[k][x]
    BY <1>2, <1>5
  <2>2. ASSUME Deployable(db, k, x, v), LosesRevision(p, k[1], x, v)
        PROVE  Deployable(db, k, x, v)' \/ Sweeps(p, k, x, v)'
    <3>1. CASE pc[p] = "deleteOrg"
      <4>1. Gone(k[1])'
        BY <1>5, <2>2, <3>1, Dropped DEF LosesRevision
      <4> QED
        BY <4>1 DEF Deployable, Loose
    <3>2. CASE pc[p] # "deleteOrg"
      BY <1>0, <2>2, <3>2 DEF LosesRevision, Sweeps
    <3> QED
      BY <3>1, <3>2
  <2>3. ASSUME NEW q \in Procs, Sweeps(q, k, x, v)
        PROVE  Deployable(db, k, x, v)' \/ Sweeps(q, k, x, v)'
    <3>1. CASE q # p
      BY <1>0, <2>3, <3>1 DEF Sweeps
    <3>2. CASE q = p
      <4>1. CASE pc[p] = "saveGroups" /\ k = loc[p].key
        <5>1. Puts(p, "saveGroups", loc[p].key, loc[p].group, "loadGroups")
          BY <1>0, <4>1, Departs
        <5>2. db'.docs[k] = loc[p].group /\ k = Group(p)
          BY <1>0, <4>1, <5>1, SetFacts DEF Puts, Group
        <5>3. Deployable(db, k, x, v)
          BY <1>1, <1>2, <4>1, <5>2 DEF Held
        <5>4. ~LosesRevision(p, k[1], x, v)
          BY <4>1 DEF LosesRevision
        <5> QED
          BY <5>3, <5>4, DeployStep
      <4>2. CASE ~(pc[p] = "saveGroups" /\ k = loc[p].key)
        BY <1>1, <1>5, <2>1, <2>3, <3>2, <4>2, SweepsOn
      <4> QED
        BY <4>1, <4>2
    <3> QED
      BY <3>1, <3>2
  <2>4. Deployable(db, k, x, v) \/ \E q \in Procs : Sweeps(q, k, x, v)
    BY <1>1, <1>5, <2>1 DEF GroupsFine
  <2> QED
    BY <2>2, <2>3, <2>4, DeployStep
<1>6. \/ k \in DOMAIN db.docs /\ db'.docs[k] = db.docs[k]
      \/ pc[p] \in {"saveGroup", "saveGroups"} /\ k = Group(p) /\ db'.docs[k] = loc[p].group
  <2>1. (k \in DOMAIN db.docs /\ db'.docs[k] = db.docs[k]) \/ Adds(p, k)
    BY DEF Moves, Delta
  <2> QED
    BY <1>1, <2>1, AddsFacts
<1> QED
  BY <1>4, <1>5, <1>6

-----------------------------------------------------------------------------
(* Organizations and their metadata.                                         *)

OrgStages == {"storeMeta", "createOrganization", "found", "provision", "deleteOrganization", "deleteOrg"}

LEMMA OrgStageOps ==
    ASSUME Control, NEW p \in Procs, pc[p] \in OrgStages
    PROVE  req[p].op \in OrgOps
<1>1. Stage(p)
  BY DEF Control
<1> QED
  BY <1>1 DEF OrgStages, Stage, Ops, OrgOps

\* A step changes at most its own organization, and only these steps do.
LEMMA OrgsStep ==
    ASSUME Control, NEW p \in Procs, Moves(p), NEW o
    PROVE  /\ \/ o \in db.orgs <=> o \in db'.orgs
              \/ o = req[p].org /\ pc[p] \in {"createOrganization", "found", "deleteOrg"}
           /\ \/ OrgMeta(o) \in DOMAIN db.docs <=> OrgMeta(o) \in DOMAIN db'.docs
              \/ /\ o = req[p].org
                 /\ \/ pc[p] \in {"storeMeta", "createOrganization", "deleteOrganization"}
                    \/ pc[p] = "provision" /\ loc[p].step = 3
<1> DEFINE r == req[p]
           m == OrgMeta(o)
<1>0. Typed /\ Stage(p) /\ Listed(p)
  BY DEF Control
<1>1. m[1] = "" /\ m[2] = "organizations" /\ m[4] = o /\ OrgMeta(r.org)[4] = r.org
  BY DEF OrgMeta
<1>2. r.org # "" /\ (pc[p] = "deleteObject" => r.typ \in ObjectTypes)
  BY <1>0, RequestFacts DEF Stage, Ops, DeleteOps, ObjectOps
<1> HIDE DEF m
<1>3. \/ o \in db.orgs <=> o \in db'.orgs
      \/ o = req[p].org /\ pc[p] \in {"createOrganization", "found", "deleteOrg"}
  <2>1. CASE UNCHANGED db
    BY <2>1
  <2>2. CASE Delta(p)
    BY <2>2 DEF Delta
  <2> QED
    BY <2>1, <2>2 DEF Moves
<1>4. ASSUME m \in DOMAIN db'.docs, m \notin DOMAIN db.docs
      PROVE  /\ o = req[p].org
             /\ \/ pc[p] \in {"storeMeta", "createOrganization"}
                \/ pc[p] = "provision" /\ loc[p].step = 3
  <2>1. Adds(p, m)
    BY <1>4 DEF Moves, Delta
  <2>2. /\ m = OrgMeta(r.org)
        /\ pc[p] \in {"storeMeta", "createOrganization"} \/ (pc[p] = "provision" /\ loc[p].step = 3)
    BY <1>1, <2>1, AddsFacts
  <2> QED
    BY <1>1, <2>2
<1>5. ASSUME m \in DOMAIN db.docs, m \notin DOMAIN db'.docs
      PROVE  o = req[p].org /\ pc[p] = "deleteOrganization"
  <2>1. Removes(p, m)
    BY <1>1, <1>2, <1>5 DEF Moves, Delta
  <2>2. CASE pc[p] = "deleteOrganization" /\ m = OrgMeta(r.org)
    BY <1>1, <2>2
  <2>3. CASE pc[p] = "deleteObject" /\ m = ObjectKey(r)
    <3>1. m[2] = r.typ
      BY <2>3, KeyFacts
    <3> QED
      BY <1>1, <1>2, <2>3, <3>1 DEF ObjectTypes
  <2>4. CASE m \in {ACLKey(r), BagKey(r), ItemKey(r), GroupKey(r), RevisionKey(r)}
    <3>1. /\ ACLKey(r)[2] = "acls" /\ BagKey(r)[2] = "data_bags" /\ ItemKey(r)[2] = "databag_items"
          /\ GroupKey(r)[2] = "policy_groups" /\ RevisionKey(r)[2] = "policy_revisions"
      BY KeyFacts
    <3> QED
      BY <1>1, <2>4, <3>1
  <2>5. CASE pc[p] \in {"deleteItems", "deleteRevisions"} /\ m \in loc[p].todo
    BY <1>0, <1>1, <2>5 DEF Listed, IsIn
  <2>6. CASE m[1] = r.org
    BY <1>1, <1>2, <2>6
  <2> QED
    BY <2>1, <2>2, <2>3, <2>4, <2>5, <2>6 DEF Removes
<1> QED
  BY <1>3, <1>4, <1>5 DEF m

LEMMA OrgDeparts ==
    ASSUME Control, NEW p \in Procs, ReadEffect(p) \/ WriteEffect(p)
    PROVE  /\ pc[p] = "found" => UNCHANGED db \/ Creates(p)
           /\ pc[p] = "deleteOrganization" =>
                UNCHANGED db \/ Deletes(p, "deleteOrganization", OrgMeta(req[p].org), "deleteOrg")
<1>0. \A from, to : Goes(p, from, to) => pc[p] = from
  BY DEF Goes
<1>1. CASE ReadEffect(p)
  BY <1>1, ReadsLeave
<1>2. CASE pc[p] \notin {"found", "deleteOrganization"}
  BY <1>2
<1>3. CASE PutsOne(p) \/ Saves(p)
  <2>1. pc[p] \notin {"found", "deleteOrganization"}
    BY <1>0, <1>3 DEF PutsOne, Saves, Puts
  <2> QED
    BY <2>1
<1>4. CASE DeletesOne(p)
  BY <1>0, <1>4 DEF DeletesOne, Deletes
<1>5. CASE \E k : DeletesEach(p, k)
  <2>1. pc[p] \in {"deleteItems", "deleteRevisions"}
    BY <1>5 DEF DeletesEach
  <2> QED
    BY <2>1
<1>6. CASE DeletesRevision(p) \/ Founds(p) \/ Provides(p) \/ DropsOrg(p)
  <2>1. pc[p] \in {"deleteRevision", "createOrganization", "provision", "deleteOrg"}
    <3>1. /\ DeletesRevision(p) => pc[p] = "deleteRevision"
          /\ Founds(p) => pc[p] = "createOrganization"
          /\ Provides(p) => pc[p] = "provision"
          /\ DropsOrg(p) => pc[p] = "deleteOrg"
      BY <1>0, Zenon DEF DeletesRevision, Founds, Provides, DropsOrg
    <3> QED
      BY <1>6, <3>1
  <2> QED
    BY <2>1
<1>7. CASE Creates(p)
  <2>1. pc[p] = "found"
    BY <1>0, <1>7 DEF Creates
  <2> QED
    BY <1>7, <2>1
<1> QED
  BY <1>1, <1>2, <1>3, <1>4, <1>5, <1>6, <1>7 DEF WriteEffect

LEMMA MetasStep ==
    ASSUME Control, Frays, NEW p \in Procs, ReadEffect(p) \/ WriteEffect(p), Moves(p), MetasFine, Placed(p), Unlisted(p)
    PROVE  MetasFine'
<1>0. /\ Typed /\ Listed(p) /\ UNCHANGED <<req, frayed>> /\ cut \subseteq cut' /\ emptied \subseteq emptied' /\ p \in Busy
      /\ \A q \in Procs : q # p => pc'[q] = pc[q] /\ loc'[q] = loc[q]
  BY DEF Control, Moves, Frame, Busy
<1>a. ASSUME NEW from, NEW to, Goes(p, from, to)
      PROVE  pc[p] = from /\ pc'[p] = to
  BY <1>0, <1>a DEF Goes, Typed
<1>1. SUFFICES ASSUME NEW o, ~Gone(o)'
               PROVE  Registered(db, o)' \/ \E q \in Procs : Making(q, o)'
  BY DEF MetasFine
<1>2. ~Gone(o) /\ (Registered(db, o) \/ \E q \in Procs : Making(q, o))
  BY <1>0, <1>1, Grows DEF MetasFine
<1>3. CASE ~(o = req[p].org /\ pc[p] \in OrgStages)
  <2>1. Registered(db, o)' <=> Registered(db, o)
    BY <1>3, OrgsStep DEF OrgStages, Registered
  <2>2. ASSUME NEW q \in Procs, Making(q, o)
        PROVE  Making(q, o)'
    <3>1. q # p
      BY <1>3, <2>2 DEF Making, OrgStages
    <3> QED
      BY <1>0, <2>2, <3>1 DEF Making
  <2> QED
    BY <1>2, <2>1, <2>2
<1>4. CASE o = req[p].org /\ pc[p] \in OrgStages
  <2>0. req[p].op \in OrgOps
    BY <1>4, OrgStageOps
  <2>1. ASSUME NEW q \in Procs, q # p
        PROVE  ~Making(q, o)
    <3>1. Making(q, o) => q \in Busy /\ req[q].org = req[p].org
      BY <1>4 DEF Making, Busy
    <3> QED
      BY <1>0, <1>2, <1>4, <2>0, <2>1, <3>1, Overlaps
  <2>2. Registered(db, o) \/ Making(p, o)
    BY <1>2, <2>1
  <2>3. pc[p] \notin {"deleteOrg", "provision"} => Registered(db, o)
    BY <2>2 DEF Making
  <2>4. CASE UNCHANGED db /\ pc[p] \notin {"deleteOrg", "provision"}
    BY <2>3, <2>4 DEF Registered
  <2>5. CASE pc[p] = "storeMeta" /\ Delta(p)
    <3>1. db'.orgs = db.orgs /\ DOMAIN db.docs \subseteq DOMAIN db'.docs
      BY <2>5 DEF Delta
    <3>2. o \in db.orgs
      BY <1>2, <1>4, <2>5 DEF Placed, Unplaced
    <3> QED
      BY <2>3, <2>5, <3>1, <3>2 DEF Registered
  <2>6. CASE pc[p] = "createOrganization" /\ Delta(p)
    <3>1. Adds(p, OrgMeta(o))
      BY <1>4, <2>6 DEF Adds, PlanKeys
    <3>2. db'.orgs = db.orgs \cup {o} /\ OrgMeta(o) \in DOMAIN db'.docs
      BY <1>4, <2>6, <3>1 DEF Delta
    <3> QED
      BY <3>2 DEF Registered
  <2>7. CASE Creates(p)
    <3>1. pc'[p] = "provision" /\ Takes(p, [loc[p] EXCEPT !.step = 1])
      BY <1>a, <2>7 DEF Creates
    <3>2. loc'[p].step = 1
      BY <1>0, <3>1 DEF Takes, Typed, LocFields
    <3> QED
      BY <1>0, <1>4, <3>1, <3>2 DEF Making
  <2>8. CASE pc[p] = "provision"
    <3>1. Provides(p)
      BY <1>0, <2>8, Departs
    <3>2. loc[p].step \in 1 .. 5
      BY <1>0, <2>8 DEF Listed
    <3>3. CASE loc[p].step <= 2
      <4>1. pc'[p] = "provision" /\ Takes(p, [loc[p] EXCEPT !.step = @ + 1])
        BY <1>a, <3>1, <3>3 DEF Provides
      <4>2. loc'[p].step = loc[p].step + 1
        BY <1>0, <4>1 DEF Takes, Typed, LocFields
      <4>3. loc'[p].step <= 3
        BY <3>2, <3>3, <4>2
      <4> QED
        BY <1>0, <1>4, <4>1, <4>3 DEF Making
    <3>4. Delta(p)
      BY <3>1, DeltaOrgs
    <3>5. db'.orgs = db.orgs
      BY <2>8, <3>4 DEF Delta
    <3>6. CASE loc[p].step = 3
      <4>1. PICK v, w : v = -1 /\ w = Plan(o, v)
        OBVIOUS
      <4>2. Plan(o, v)[3][1] = OrgMeta(o)
        BY DEF Plan, OrgMeta
      <4>3. Adds(p, Plan(o, v)[3][1])
        BY <1>4, <2>8, <3>6, <4>1 DEF Adds
      <4>4. OrgMeta(o) \in DOMAIN db'.docs
        BY <2>8, <3>4, <4>2, <4>3 DEF Delta
      <4>5. o \in db.orgs
        BY <1>2, <1>4, <2>8 DEF Placed, Unplaced
      <4> QED
        BY <3>5, <4>4, <4>5 DEF Registered
    <3>7. CASE loc[p].step > 3
      <4>1. Registered(db, o)
        BY <2>2, <2>8, <3>2, <3>7 DEF Making
      <4>2. OrgMeta(o) \in DOMAIN db.docs <=> OrgMeta(o) \in DOMAIN db'.docs
        BY <2>8, <3>2, <3>7, OrgsStep
      <4> QED
        BY <3>5, <4>1, <4>2 DEF Registered
    <3> QED
      BY <3>2, <3>3, <3>6, <3>7
  <2>9. CASE Deletes(p, "deleteOrganization", OrgMeta(req[p].org), "deleteOrg")
    <3>1. pc'[p] = "deleteOrg"
      BY <1>a, <2>9 DEF Deletes
    <3> QED
      BY <1>0, <1>4, <3>1 DEF Making
  <2>10. CASE pc[p] = "deleteOrg"
    <3>1. Delta(p)
      BY <1>0, <2>10, Departs, DeltaOrgs
    <3>2. OrgMeta(o) \notin DOMAIN db.docs
      BY <1>2, <1>4, <2>10 DEF Unlisted
    <3>3. db'.orgs = db.orgs \ {o} /\ OrgMeta(o) \notin DOMAIN db'.docs
      BY <1>4, <2>10, <3>1, <3>2 DEF Delta, AddStages
    <3> QED
      BY <3>3 DEF Registered
  <2>11. UNCHANGED db \/ Delta(p)
    BY DEF Moves
  <2> QED
    BY <1>4, <2>4, <2>5, <2>6, <2>7, <2>8, <2>9, <2>10, <2>11, OrgDeparts DEF OrgStages
<1> QED
  BY <1>3, <1>4

-----------------------------------------------------------------------------
(* What a goroutine relies on while another takes a step.                    *)

LEMMA RestedGrows ==
    ASSUME frayed \subseteq frayed', cut \subseteq cut', emptied \subseteq emptied', NEW d, Rested(d)
    PROVE  Rested(d)'
<1>1. /\ \A o : Gone(o) => Gone(o)'
      /\ \A o, t, n : Spared(o, t, n) => Spared(o, t, n)'
      /\ \A k, x : Loose(k, x) => Loose(k, x)'
  BY Grows
<1>2. Shape(d)' /\ Homes(d)'
  BY <1>1 DEF Rested, Shape, Homes
<1>3. \A o, t, n : Kept(d, o, t, n) => Kept(d, o, t, n)'
  BY <1>1 DEF Kept, Exists
<1>4. \A k, x, v : Deployable(d, k, x, v) => Deployable(d, k, x, v)'
  BY <1>1 DEF Deployable
<1>5. \A o : Registered(d, o) => Registered(d, o)'
  BY DEF Registered
<1> QED
  BY <1>1, <1>2, <1>3, <1>4, <1>5 DEF Rested

\* A goroutine that holds a group is about it.
LEMMA Holder ==
    ASSUME Control, NEW q \in Procs, Sorted(q),
           pc[q] \in {"saveGroup", "saveGroups"} \/ (pc[q] = "getDeployed" /\ req[q].op = "undeployPolicy")
    PROVE  /\ Group(q)[1] = req[q].org /\ Group(q)[4] \in Groups
           /\ <<"policy_groups", Group(q)[4]>> \in Touches(req[q])
<1>0. Typed /\ Stage(q) /\ Listed(q)
  BY DEF Control
<1>1. CASE pc[q] = "saveGroups"
  <2>1. req[q].op \in {"deletePolicy", "deleteRevision"} /\ Group(q) = loc[q].key
    BY <1>0, <1>1 DEF Stage, Group
  <2>2. Group(q)[1] = req[q].org /\ Group(q)[4] \in Groups
    BY <1>0, <1>1, <2>1 DEF Listed, IsIn, Sorted
  <2> QED
    BY <2>1, <2>2, TouchFacts
<1>2. CASE pc[q] # "saveGroups"
  <2>1. req[q].op \in {"deployPolicy", "undeployPolicy"} /\ Group(q) = GroupKey(req[q])
    BY <1>0, <1>2 DEF Stage, Group
  <2>2. GroupKey(req[q])[1] = req[q].org /\ GroupKey(req[q])[4] = req[q].group
    BY KeyFacts
  <2> QED
    BY <1>0, <2>1, <2>2, TouchFacts, RequestFacts
<1> QED
  BY <1>1, <1>2

\* What a step takes away is of its organization.
LEMMA LostOrg ==
    ASSUME Control, NEW p \in Procs, Moves(p), NEW j \in DOMAIN db.docs, j \notin DOMAIN db'.docs
    PROVE  j[1] = req[p].org \/ j = OrgMeta(req[p].org)
<1> DEFINE r == req[p]
<1>0. Typed /\ Listed(p)
  BY DEF Control
<1>1. Removes(p, j) \/ j[1] = r.org
  BY DEF Moves, Delta
<1>2. /\ ObjectKey(r)[1] = r.org /\ ACLKey(r)[1] = r.org /\ BagKey(r)[1] = r.org /\ ItemKey(r)[1] = r.org
      /\ GroupKey(r)[1] = r.org /\ RevisionKey(r)[1] = r.org
  BY KeyFacts
<1>3. CASE pc[p] \in {"deleteItems", "deleteRevisions"} /\ j \in loc[p].todo
  BY <1>0, <1>3 DEF Listed, IsIn
<1> QED
  BY <1>1, <1>2, <1>3 DEF Removes

LEMMA HeldOther ==
    ASSUME Control, Frays, NEW p \in Procs, Moves(p), NEW q \in Procs, q # p, Sorted(q), Held(q)
    PROVE  Held(q)'
<1>0. /\ UNCHANGED <<req, frayed>> /\ cut \subseteq cut' /\ emptied \subseteq emptied' /\ p \in Busy
      /\ pc'[q] = pc[q] /\ loc'[q] = loc[q]
  BY DEF Moves, Frame, Busy
<1>1. SUFFICES ASSUME pc[q] \in {"saveGroup", "saveGroups"} \/ (pc[q] = "getDeployed" /\ req[q].op = "undeployPolicy"),
                      NEW x \in DOMAIN loc[q].group
               PROVE  Deployable(db, Group(q), x, loc[q].group[x])'
  BY <1>0 DEF Held
<1>2. PICK k, v : k = Group(q) /\ v = loc[q].group[x]
  OBVIOUS
<1>3. Group(q)' = Group(q) /\ q \in Busy
  BY <1>0, <1>1 DEF Group, GroupKey, Busy
<1>4. Deployable(db, k, x, v)
  BY <1>1, <1>2 DEF Held
<1>5. k[1] = req[q].org /\ k[4] \in Groups /\ <<"policy_groups", k[4]>> \in Touches(req[q])
  BY <1>1, <1>2, Holder
<1>6. ASSUME LosesRevision(p, k[1], x, v)
      PROVE  Loose(k, x)
  <2>1. CASE req[p].op = "deleteOrganization"
    BY <1>0, <1>3, <1>5, <1>6, <2>1, Overlaps DEF LosesRevision, OrgOps, Loose
  <2>2. CASE req[p].op \in {"deletePolicy", "deleteRevision"}
    <3>1. <<"policy_groups", k[4]>> \in Touches(req[p])
      BY <1>5, <2>2, TouchFacts
    <3>2. req[p].op \in DeleteOps
      BY <2>2 DEF DeleteOps
    <3> QED
      BY <1>0, <1>3, <1>5, <3>1, <3>2, Overlaps DEF Loose
  <2> QED
    BY <1>6, <2>1, <2>2 DEF LosesRevision
<1>7. Deployable(db, k, x, v)'
  <2>1. CASE LosesRevision(p, k[1], x, v)
    BY <1>0, <1>6, <2>1, Grows DEF Deployable
  <2>2. CASE ~LosesRevision(p, k[1], x, v)
    BY <1>4, <2>2, DeployStep
  <2> QED
    BY <2>1, <2>2
<1> QED
  BY <1>0, <1>2, <1>3, <1>7

LEMMA StoredOther ==
    ASSUME Control, Frays, NEW p \in Procs, Moves(p), NEW q \in Procs, q # p, Stored(q)
    PROVE  Stored(q)'
<1>0. /\ Typed /\ Stage(q) /\ UNCHANGED <<req, frayed>> /\ cut \subseteq cut' /\ emptied \subseteq emptied' /\ p \in Busy
      /\ pc'[q] = pc[q]
  BY DEF Control, Moves, Frame, Busy
<1>1. SUFFICES ASSUME pc[q] = "deployLoad",
                      ~Excused(<<"policies", req[q].name>>), ~Gone(req[q].org)
               PROVE  RevisionKey(req[q]) \in DOMAIN db'.docs
  BY <1>0, Grows DEF Stored
<1>2. PICK o, x, v : o = req[q].org /\ x = req[q].name /\ v = req[q].item
  OBVIOUS
<1>3. RevisionKey(req[q]) = Revision(o, x, v) /\ q \in Busy
  BY <1>1, <1>2 DEF RevisionKey, Revision, Busy
<1>4. Revision(o, x, v) \in DOMAIN db.docs
  BY <1>1, <1>3 DEF Stored
<1>5. ~LosesRevision(p, o, x, v)
  <2>1. SUFFICES ASSUME LosesRevision(p, o, x, v)
                 PROVE  FALSE
    OBVIOUS
  <2>2. CASE req[p].op = "deleteOrganization"
    BY <1>0, <1>1, <1>2, <1>3, <2>1, <2>2, Overlaps DEF LosesRevision, OrgOps
  <2>3. CASE req[p].op \in {"deletePolicy", "deleteRevision"} /\ req[p].name = x
    <3>1. req[p].op \in DeleteOps /\ req[p].op \in PolicyOps /\ req[q].op \in PolicyOps
      BY <1>0, <1>1, <2>3 DEF DeleteOps, PolicyOps, Stage
    <3>2. <<"policies", req[p].name>> \in Touches(req[p]) /\ <<"policies", req[q].name>> \in Touches(req[q])
      BY <3>1, TouchFacts
    <3> QED
      BY <1>0, <1>1, <1>2, <1>3, <2>3, <3>1, <3>2, Overlaps
  <2> QED
    BY <2>1, <2>2, <2>3 DEF LosesRevision
<1> QED
  BY <1>3, <1>4, <1>5, RevisionStep

LEMMA OthersClaims ==
    ASSUME Control, Frays, NEW p \in Procs, Moves(p), NEW q \in Procs, q # p, Claims(q)
    PROVE  Claims(q)'
<1>0. /\ Typed /\ Stage(q) /\ UNCHANGED <<req, frayed>> /\ cut \subseteq cut' /\ emptied \subseteq emptied' /\ p \in Busy
      /\ pc'[q] = pc[q] /\ loc'[q] = loc[q]
  BY DEF Control, Moves, Frame, Busy
<1>1. PICK o : o = req[q].org
  OBVIOUS
<1>2. Placed(q)'
  <2>1. SUFFICES ASSUME pc[q] \notin Unplaced, ~Gone(o)
                 PROVE  o \in db'.orgs
    BY <1>0, <1>1, Grows DEF Placed
  <2>2. o \in db.orgs /\ q \in Busy
    BY <1>1, <2>1 DEF Claims, Placed, Unplaced, Busy
  <2>3. o = req[p].org => pc[p] \notin OrgStages
    BY <1>0, <1>1, <2>1, <2>2, OrgStageOps, Overlaps
  <2> QED
    BY <2>2, <2>3, OrgsStep DEF OrgStages
<1>3. Sorted(q)'
  BY <1>0 DEF Claims, Sorted
<1>4. Held(q)'
  BY HeldOther DEF Claims
<1>5. Stored(q)'
  BY StoredOther DEF Claims
<1>6. Granted(q)'
  <2>1. SUFFICES ASSUME Grants(q)
                 PROVE  Kept(db, req[q].org, req[q].typ, req[q].name)'
    BY <1>0 DEF Granted, Grants
  <2>2. PICK t, n : t = req[q].typ /\ n = req[q].name
    OBVIOUS
  <2>3. t \in ACLTypes /\ <<t, n>> \in Touches(req[q]) /\ q \in Busy
    BY <2>1, <2>2, GrantOps DEF Grants, Busy
  <2>4. Kept(db, req[q].org, t, n)
    BY <2>1, <2>2 DEF Claims, Granted
  <2>5. Kept(db, req[q].org, t, n)'
    BY <2>3, <2>4, KeptOther
  <2> QED
    BY <1>0, <2>2, <2>5
<1>7. Seeded(q)'
  <2>1. SUFFICES ASSUME pc[q] = "provision", loc[q].step > 2, ~Gone(o)
                 PROVE  Clients(o) \in DOMAIN db'.docs
    BY <1>0, <1>1, Grows DEF Seeded
  <2>2. Clients(o) \in DOMAIN db.docs /\ q \in Busy /\ req[q].op \in OrgOps
    BY <1>0, <1>1, <2>1 DEF Claims, Seeded, Busy, Stage, OrgOps
  <2>3. o # req[p].org
    BY <1>0, <1>1, <2>1, <2>2, Overlaps
  <2>4. /\ Clients(o)[1] = o /\ Clients(o)[2] = "containers"
        /\ OrgMeta(req[p].org)[2] = "organizations"
    BY PlanKeyFacts
  <2> QED
    BY <2>2, <2>3, <2>4, LostOrg
<1>8. Unlisted(q)'
  <2>1. SUFFICES ASSUME pc[q] = "deleteOrg", ~Gone(o)
                 PROVE  OrgMeta(o) \notin DOMAIN db'.docs
    BY <1>0, <1>1, Grows DEF Unlisted
  <2>2. OrgMeta(o) \notin DOMAIN db.docs /\ q \in Busy /\ req[q].op \in OrgOps
    BY <1>0, <1>1, <2>1 DEF Claims, Unlisted, Busy, Stage, OrgOps
  <2>3. o # req[p].org
    BY <1>0, <1>1, <2>1, <2>2, Overlaps
  <2> QED
    BY <2>2, <2>3, OrgsStep
<1>9. SnapRested(q)'
  <2>1. SUFFICES ASSUME pc[q] \in {"found", "rollback"}
                 PROVE  /\ Rested(loc[q].snap)'
                        /\ \A i : (i \in db'.orgs <=> i \in loc'[q].snap.orgs) \/ Gone(i)'
    BY <1>0 DEF SnapRested
  <2>2. PICK d : d = loc[q].snap
    OBVIOUS
  <2>3. Rested(d) /\ \A i : (i \in db.orgs <=> i \in d.orgs) \/ Gone(i)
    BY <2>1, <2>2 DEF Claims, SnapRested
  <2>4. Rested(d)'
    BY <1>0, <2>3, RestedGrows
  <2>5. ASSUME NEW i, ~Gone(i)
        PROVE  i \in db'.orgs <=> i \in d.orgs
    <3>1. q \in Busy /\ req[q].op = "createOrganization"
      BY <1>0, <2>1 DEF Busy, Stage
    <3>2. i = req[p].org => pc[p] \notin OrgStages
      <4>1. SUFFICES ASSUME i = req[p].org, pc[p] \in OrgStages
                     PROVE  FALSE
        OBVIOUS
      <4>2. Org(req[p]) \in Touches(req[p])
        BY <4>1, OrgStageOps, TouchFacts
      <4>3. Excused(Org(req[p]))
        BY <1>0, <3>1, <4>2, Overlaps
      <4> QED
        BY <2>5, <4>1, <4>3 DEF Org, Gone
    <3> QED
      BY <2>3, <2>5, <3>2, OrgsStep DEF OrgStages
  <2> QED
    BY <1>0, <2>2, <2>4, <2>5, Grows
<1> QED
  BY <1>2, <1>3, <1>4, <1>5, <1>6, <1>7, <1>8, <1>9 DEF Claims

-----------------------------------------------------------------------------
(* What a goroutine relies on after its own step.                            *)

\* To be where something is relied on is to have just made it or seen it.
LEMMA RestArrives ==
    ASSUME Control, NEW p \in Procs, ReadEffect(p) \/ WriteEffect(p)
    PROVE  /\ pc'[p] = "deployLoad" => Puts(p, "deployPolicy", RevisionKey(req[p]), "doc", "deployLoad")
           /\ pc'[p] = "grantCreator" => Puts(p, "createObject", ObjectKey(req[p]), "doc", "grantCreator")
           /\ pc'[p] = "storeACL" => UNCHANGED db /\ ACLObject(db, ACLKey(req[p]))
           /\ pc'[p] = "inBag" => UNCHANGED db /\ Has(db, BagKey(req[p]))
           /\ pc'[p] = "storeItem" => pc[p] = "inBag" /\ req[p].op = "putItem"
           /\ pc'[p] = "deleteOrg" => Deletes(p, "deleteOrganization", OrgMeta(req[p].org), "deleteOrg")
           /\ pc'[p] = "provision" => Creates(p) \/ Provides(p)
           /\ pc'[p] = "loadGroups" => Lists(p) \/ (\E k : Skips(p, k)) \/
                Puts(p, "saveGroups", loc[p].key, loc[p].group, "loadGroups")
           /\ pc[p] \in Unplaced /\ pc'[p] \notin Unplaced =>
                \/ pc[p] = "org" /\ req[p].org \in db.orgs /\ UNCHANGED db
                \/ pc[p] = "putOrganization" /\ Has(db, OrgMeta(req[p].org)) /\ UNCHANGED db
                \/ Creates(p)
<1> DEFINE r == req[p]
           At == {"deployLoad", "grantCreator", "storeACL", "inBag", "storeItem", "deleteOrg", "provision", "loadGroups"}
<1>0. Typed /\ r.op \in Ops
  BY RequestFacts DEF Control
<1>1. ASSUME NEW from, NEW to, Goes(p, from, to)
      PROVE  pc[p] = from /\ pc'[p] = to
  BY <1>0, <1>1 DEF Goes, Typed
<1>2. CASE pc'[p] \notin At /\ (pc[p] \notin Unplaced \/ pc'[p] \in Unplaced)
  BY <1>2
<1>3. CASE Answers(p)
  <2>1. pc'[p] = "idle"
    BY <1>1, <1>3 DEF Answers, Reads
  <2> QED
    BY <1>2, <2>1 DEF Unplaced
<1>4. CASE Sees(p)
  <2>1. CASE Reads(p, "org", r.op) /\ r.org \in db.orgs
    <3>1. pc[p] = "org" /\ pc'[p] \in Ops /\ UNCHANGED db
      BY <1>0, <1>1, <2>1 DEF Reads
    <3>2. pc'[p] \notin At
      BY <3>1 DEF Ops, OrgOps, ReadOps, DeleteOps, PolicyOps, ObjectOps, ItemOps
    <3> QED
      BY <2>1, <3>1, <3>2
  <2>2. CASE Reads(p, "putACL", "storeACL") /\ ACLObject(db, ACLKey(r))
    <3>1. pc[p] = "putACL" /\ pc'[p] = "storeACL" /\ UNCHANGED db
      BY <1>1, <2>2 DEF Reads
    <3> QED
      BY <2>2, <3>1 DEF Unplaced
  <2>3. CASE pc[p] \in ItemOps /\ Reads(p, pc[p], "inBag") /\ Has(db, BagKey(r))
    <3>1. pc'[p] = "inBag" /\ UNCHANGED db
      BY <1>1, <2>3 DEF Reads
    <3> QED
      BY <2>3, <3>1 DEF Unplaced, ItemOps
  <2>4. CASE Reads(p, "inBag", "storeItem") /\ r.op = "putItem"
    <3>1. pc[p] = "inBag" /\ pc'[p] = "storeItem"
      BY <1>1, <2>4 DEF Reads
    <3> QED
      BY <2>4, <3>1 DEF Unplaced
  <2>5. CASE Reads(p, "putOrganization", "storeMeta") /\ Has(db, OrgMeta(r.org))
    <3>1. pc[p] = "putOrganization" /\ pc'[p] = "storeMeta" /\ UNCHANGED db
      BY <1>1, <2>5 DEF Reads
    <3> QED
      BY <2>5, <3>1
  <2>6. CASE \/ Reads(p, "putObject", "storeObject") \/ Reads(p, "found", "rollback")
             \/ Reads(p, "deleteItems", "deleteACL") \/ Reads(p, "deleteRevisions", "listGroups")
             \/ Reads(p, "loadGroups", "deleteACL")
    <3>1. pc'[p] \in {"storeObject", "rollback", "deleteACL", "listGroups"}
      BY <1>1, <2>6 DEF Reads
    <3>2. pc[p] \in {"putObject", "deleteItems", "deleteRevisions", "loadGroups"} \/ pc'[p] = "rollback"
      BY <1>1, <2>6 DEF Reads
    <3> QED
      BY <1>2, <3>1, <3>2 DEF Unplaced
  <2> QED
    BY <1>4, <2>1, <2>2, <2>3, <2>4, <2>5, <2>6, Zenon DEF Sees
<1>5. CASE Lists(p)
  <2>1. pc[p] \in {"listBag", "deletePolicy", "listGroups"} /\ pc'[p] \in {"deleteItems", "deleteRevisions", "loadGroups"}
    BY <1>1, <1>5 DEF Lists, Reads
  <2> QED
    BY <1>5, <2>1 DEF Unplaced
<1>6. CASE \E k : Skips(p, k)
  <2>1. pc[p] = "loadGroups" /\ pc'[p] = "loadGroups"
    BY <1>1, <1>6 DEF Skips, Reads
  <2> QED
    BY <1>6, <2>1 DEF Unplaced
<1>7. CASE (\E k : Loads(p, k)) \/ Deploys(p) \/ Opens(p) \/ Undeploys(p) \/ Snaps(p)
  <2>1. /\ pc'[p] \in {"saveGroups", "saveGroup", "getDeployed", "found"}
        /\ pc[p] \in {"loadGroups", "deployLoad", "getGroupPolicy", "undeployPolicy", "getDeployed"} \/ pc'[p] = "found"
    <3>1. CASE (\E k : Loads(p, k)) \/ Deploys(p) \/ Undeploys(p) \/ Snaps(p)
      BY <1>1, <3>1 DEF Loads, Deploys, Undeploys, Snaps, Reads
    <3>2. CASE Opens(p)
      BY <1>1, <3>2 DEF Opens, Reads
    <3> QED
      BY <1>7, <3>1, <3>2
  <2> QED
    BY <1>2, <2>1 DEF Unplaced
<1>8. CASE PutsOne(p)
  <2>1. CASE Puts(p, "createObject", ObjectKey(r), "doc", "grantCreator")
    <3>1. pc[p] = "createObject" /\ pc'[p] = "grantCreator"
      BY <1>1, <2>1 DEF Puts
    <3> QED
      BY <2>1, <3>1 DEF Unplaced
  <2>2. CASE Puts(p, "deployPolicy", RevisionKey(r), "doc", "deployLoad")
    <3>1. pc[p] = "deployPolicy" /\ pc'[p] = "deployLoad"
      BY <1>1, <2>2 DEF Puts
    <3> QED
      BY <2>2, <3>1 DEF Unplaced
  <2>3. ~Puts(p, "createObject", ObjectKey(r), "doc", "grantCreator") /\
        ~Puts(p, "deployPolicy", RevisionKey(r), "doc", "deployLoad") => pc'[p] = "idle"
    BY <1>1, <1>8 DEF PutsOne, Puts
  <2> QED
    BY <1>2, <2>1, <2>2, <2>3 DEF Unplaced
<1>9. CASE Saves(p)
  <2>1. CASE Puts(p, "saveGroup", GroupKey(r), loc[p].group, "idle")
    <3>1. pc'[p] = "idle"
      BY <1>1, <2>1 DEF Puts
    <3> QED
      BY <1>2, <3>1 DEF Unplaced
  <2>2. CASE Puts(p, "saveGroups", loc[p].key, loc[p].group, "loadGroups")
    <3>1. pc[p] = "saveGroups" /\ pc'[p] = "loadGroups"
      BY <1>1, <2>2 DEF Puts
    <3> QED
      BY <2>2, <3>1 DEF Unplaced
  <2> QED
    BY <1>9, <2>1, <2>2 DEF Saves
<1>10. CASE DeletesOne(p)
  <2>1. CASE Deletes(p, "deleteOrganization", OrgMeta(r.org), "deleteOrg")
    <3>1. pc'[p] = "deleteOrg"
      BY <1>1, <2>1 DEF Deletes
    <3> QED
      BY <2>1, <3>1 DEF Unplaced
  <2>2. CASE ~Deletes(p, "deleteOrganization", OrgMeta(r.org), "deleteOrg")
    <3>1. /\ pc[p] \in {"deleteObject", "deleteACL", "deleteDataBag", "inBag", "deleteGroup"}
          /\ pc'[p] \in {"deleteACL", "idle", "listBag"}
      BY <1>1, <1>10, <2>2 DEF DeletesOne, Deletes
    <3> QED
      BY <1>2, <3>1 DEF Unplaced
  <2> QED
    BY <2>1, <2>2
<1>11. CASE \E k : DeletesEach(p, k)
  <2>1. pc[p] \in {"deleteItems", "deleteRevisions"} /\ pc'[p] = pc[p]
    BY <1>1, <1>11 DEF DeletesEach
  <2> QED
    BY <1>2, <2>1 DEF Unplaced
<1>12. CASE DeletesRevision(p)
  <2>1. pc[p] = "deleteRevision" /\ pc'[p] = "listGroups"
    BY <1>1, <1>12 DEF DeletesRevision
  <2> QED
    BY <1>2, <2>1 DEF Unplaced
<1>13. CASE Founds(p) \/ DropsOrg(p)
  <2>1. pc'[p] = "idle"
    BY <1>1, <1>13, Zenon DEF Founds, DropsOrg
  <2> QED
    BY <1>2, <2>1 DEF Unplaced
<1>14. CASE Creates(p)
  <2>1. pc'[p] = "provision"
    BY <1>1, <1>14 DEF Creates
  <2> QED
    BY <1>14, <2>1
<1>15. CASE Provides(p)
  <2>1. pc[p] = "provision" /\ pc'[p] \in {"idle", "provision"}
    <3>1. PICK to : to \in {"idle", "provision"} /\ Goes(p, "provision", to)
      BY <1>15 DEF Provides
    <3> QED
      BY <1>1, <3>1
  <2> QED
    BY <1>15, <2>1 DEF Unplaced
<1> QED
  BY <1>3, <1>4, <1>5, <1>6, <1>7, <1>8, <1>9, <1>10, <1>11, <1>12, <1>13, <1>14, <1>15 DEF ReadEffect, WriteEffect

LEMMA ObjectExists ==
    ASSUME NEW d, NEW k
    PROVE  ACLObject(d, k) <=> Exists(d, k[1], k[3], k[4])
<1>1. CASE k[3] = "policies"
  <2>1. ACLObject(d, k) <=> CollKeys(d, k[1], "policy_revisions", k[4]) # {}
    BY <1>1 DEF ACLObject
  <2>2. CollKeys(d, k[1], "policy_revisions", k[4]) # {} <=> Exists(d, k[1], "policies", k[4])
    BY DEF CollKeys, Exists, Stands
  <2> QED
    BY <1>1, <2>1, <2>2
<1>2. CASE k[3] # "policies"
  <2>1. ACLObject(d, k) <=> <<k[1], Coll(k[3]), "", k[4]>> \in DOMAIN d.docs
    BY <1>2 DEF ACLObject, Has, Coll
  <2>2. Exists(d, k[1], k[3], k[4]) <=> <<k[1], Coll(k[3]), "", k[4]>> \in DOMAIN d.docs
    BY <1>2 DEF Exists, Stands
  <2> QED
    BY <2>1, <2>2
<1> QED
  BY <1>1, <1>2

\* A group that is read deploys what exists, but for what its reader takes out.
LEMMA ReadFine ==
    ASSUME Control, Frays, GroupsFine, NEW p \in Busy, NEW k \in DOMAIN db.docs, k[2] = "policy_groups", k[4] \in Groups,
           <<"policy_groups", k[4]>> \in Touches(req[p]), NEW x \in DOMAIN db.docs[k],
           ~Sweeps(p, k, x, db.docs[k][x])
    PROVE  Deployable(db, k, x, db.docs[k][x])
<1>1. SUFFICES ASSUME NEW q \in Procs, Sweeps(q, k, x, db.docs[k][x])
               PROVE  Excused(<<"policy_groups", k[4]>>)
  BY DEF GroupsFine, Deployable, Loose
<1>2. Stage(q)
  BY DEF Control
<1>3. q \in Busy /\ q # p /\ req[q].op \in {"deletePolicy", "deleteRevision"}
  BY <1>1, <1>2 DEF Sweeps, Busy, Stage
<1>4. req[q].op \in DeleteOps /\ <<"policy_groups", k[4]>> \in Touches(req[q])
  BY <1>3, TouchFacts DEF DeleteOps
<1> QED
  BY <1>3, <1>4, Overlaps

LEMMA OwnPlaced ==
    ASSUME Control, Frays, MetasFine, NEW p \in Procs, ReadEffect(p) \/ WriteEffect(p), Moves(p), Placed(p)
    PROVE  Placed(p)'
<1>0. UNCHANGED <<req, frayed>> /\ cut \subseteq cut' /\ emptied \subseteq emptied' /\ p \in Busy /\ Typed /\ IsStore(db)
  BY DEF Control, Moves, Frame, Busy, Typed
<1>1. PICK o : o = req[p].org
  OBVIOUS
<1>2. SUFFICES ASSUME pc'[p] \notin Unplaced, ~Gone(o)
               PROVE  o \in db'.orgs
  BY <1>0, <1>1, Grows DEF Placed
<1>3. CASE pc[p] \notin Unplaced
  <2>1. o \in db.orgs
    BY <1>1, <1>2, <1>3 DEF Placed
  <2> QED
    BY <1>3, <2>1, OrgsStep DEF Unplaced
<1>4. CASE pc[p] = "org" /\ req[p].org \in db.orgs /\ UNCHANGED db
  BY <1>1, <1>4
<1>5. CASE pc[p] = "putOrganization" /\ Has(db, OrgMeta(req[p].org)) /\ UNCHANGED db
  <2>0. Stage(p)
    BY DEF Control
  <2>1. req[p].op \in OrgOps
    BY <1>5, <2>0 DEF Stage, Ops, OrgOps
  <2>2. ASSUME NEW q \in Procs, Making(q, o)
        PROVE  FALSE
    <3>1. q \in Busy /\ req[q].org = o /\ q # p
      BY <1>5, <2>2 DEF Making, Busy
    <3> QED
      BY <1>0, <1>1, <1>2, <2>1, <3>1, Overlaps
  <2>3. Registered(db, o)
    BY <1>2, <2>2 DEF MetasFine
  <2> QED
    BY <1>1, <1>5, <2>3 DEF Registered, Has
<1>6. CASE Creates(p)
  BY <1>0, <1>1, <1>6, OrgFacts DEF Creates
<1> QED
  BY <1>2, <1>3, <1>4, <1>5, <1>6, RestArrives

LEMMA OwnSorted ==
    ASSUME Control, Shape(db), NEW p \in Procs, ReadEffect(p) \/ WriteEffect(p), Moves(p), Sorted(p)
    PROVE  Sorted(p)'
<1>0. Typed /\ DOMAIN loc = Procs /\ DOMAIN loc[p] = LocFields
  BY DEF Control, Typed
<1>1. ASSUME NEW from, NEW to, Goes(p, from, to)
      PROVE  pc[p] = from /\ pc'[p] = to
  BY <1>0, <1>1 DEF Goes, Typed
<1>2. CASE pc'[p] = "loadGroups"
  <2>1. CASE Lists(p)
    <3> DEFINE K == CollKeys(db, req[p].org, "policy_groups", "")
    <3>1. \A k \in K : k[3] = "" /\ k[4] \in Groups
      BY DEF CollKeys, Shape
    <3>2. ~Reads(p, "deletePolicy", "deleteRevisions") /\ ~Reads(p, "listBag", "deleteItems")
      BY <1>1, <1>2 DEF Reads
    <3> HIDE DEF K
    <3>3. Takes(p, [loc[p] EXCEPT !.todo = K])
      BY <2>1, <3>2, Zenon DEF Lists, K
    <3>4. loc'[p].todo = K
      BY <1>0, <3>3 DEF Takes, LocFields
    <3> QED
      BY <1>2, <3>1, <3>4 DEF Sorted
  <2>2. ASSUME NEW i, Skips(p, i)
        PROVE  Sorted(p)'
    <3>1. Reads(p, "loadGroups", "loadGroups") /\ Takes(p, [loc[p] EXCEPT !.todo = @ \ {i}])
      BY <2>2 DEF Skips
    <3>2. pc[p] = "loadGroups" /\ loc'[p].todo = loc[p].todo \ {i}
      BY <1>0, <1>1, <3>1 DEF Reads, Takes, LocFields
    <3> QED
      BY <1>2, <3>2 DEF Sorted
  <2>3. CASE Puts(p, "saveGroups", loc[p].key, loc[p].group, "loadGroups")
    <3>1. pc[p] = "saveGroups" /\ loc' = loc
      BY <1>1, <2>3 DEF Puts
    <3> QED
      BY <1>2, <3>1 DEF Sorted
  <2> QED
    BY <1>2, <2>1, <2>2, <2>3, RestArrives
<1>3. CASE pc'[p] = "saveGroups"
  <2>1. PICK i : Loads(p, i)
    BY <1>3, Arrives DEF Effect
  <2> DEFINE g == Undeployed(db.docs[i], req[p].name)
  <2> HIDE DEF g
  <2>2. /\ Reads(p, "loadGroups", "saveGroups") /\ i \in loc[p].todo
        /\ Takes(p, [loc[p] EXCEPT !.group = g, !.todo = @ \ {i}, !.key = i])
    BY <2>1, Zenon DEF Loads, g
  <2>3. pc[p] = "loadGroups" /\ loc'[p].todo = loc[p].todo \ {i} /\ loc'[p].key = i
    BY <1>0, <1>1, <2>2 DEF Reads, Takes, LocFields
  <2> QED
    BY <1>3, <2>2, <2>3 DEF Sorted
<1> QED
  BY <1>2, <1>3 DEF Sorted

LEMMA OwnHeld ==
    ASSUME Control, Frays, Shape(db), GroupsFine, NEW p \in Procs, ReadEffect(p) \/ WriteEffect(p), Moves(p),
           Held(p), Stored(p), Sorted(p)
    PROVE  Held(p)'
<1>0. /\ Typed /\ Stage(p) /\ Listed(p) /\ DOMAIN loc = Procs /\ DOMAIN loc[p] = LocFields
      /\ UNCHANGED <<req, frayed>> /\ cut \subseteq cut' /\ emptied \subseteq emptied' /\ p \in Busy
  BY DEF Control, Typed, Moves, Frame, Busy
<1>1. ASSUME NEW from, NEW to, Goes(p, from, to)
      PROVE  pc[p] = from /\ pc'[p] = to
  BY <1>0, <1>1 DEF Goes, Typed
<1>2. SUFFICES ASSUME pc'[p] \in {"saveGroup", "saveGroups"} \/ (pc'[p] = "getDeployed" /\ req[p].op = "undeployPolicy")
               PROVE  Held(p)'
  BY <1>0 DEF Held
<1>b. SUFFICES \E k, g : /\ Group(p)' = k /\ loc'[p].group = g /\ UNCHANGED db
                         /\ \A x \in DOMAIN g : Deployable(db, k, x, g[x])
  <2>1. PICK k, g : /\ Group(p)' = k /\ loc'[p].group = g /\ UNCHANGED db
                    /\ \A x \in DOMAIN g : Deployable(db, k, x, g[x])
    BY <1>b
  <2>2. \A x : Loose(k, x) => Loose(k, x)'
    BY <1>0, Grows
  <2>3. \A x, v : Deployable(db, k, x, v) => Deployable(db, k, x, v)'
    BY <2>1, <2>2 DEF Deployable
  <2> QED
    BY <1>0, <2>1, <2>3 DEF Held
<1>3. PICK k : k = GroupKey(req[p])
  OBVIOUS
<1>4. k[1] = req[p].org /\ k[2] = "policy_groups" /\ k[4] = req[p].group
  BY <1>3 DEF GroupKey
<1>5. /\ pc'[p] # "saveGroups" => Group(p)' = k
      /\ pc[p] # "saveGroups" => Group(p) = k
  BY <1>0, <1>3 DEF Group, GroupKey
<1>6. ASSUME req[p].op \in {"deployPolicy", "undeployPolicy"}, pc[p] \in {"deployLoad", "undeployPolicy"}, k \in DOMAIN db.docs,
             NEW x \in DOMAIN db.docs[k]
      PROVE  Deployable(db, k, x, db.docs[k][x])
  <2>1. <<"policy_groups", k[4]>> \in Touches(req[p]) /\ k[4] \in Groups
    BY <1>0, <1>4, <1>6, TouchFacts, RequestFacts
  <2>2. ~Sweeps(p, k, x, db.docs[k][x])
    BY <1>6 DEF Sweeps
  <2> QED
    BY <1>0, <1>4, <1>6, <2>1, <2>2, ReadFine
<1>7. CASE pc'[p] = "getDeployed" /\ req[p].op = "undeployPolicy"
  <2>1. Opens(p)
    BY <1>7, Arrives DEF Effect
  <2>2. /\ pc[p] \in {"getGroupPolicy", "undeployPolicy"} /\ UNCHANGED db /\ k \in DOMAIN db.docs
        /\ Takes(p, [loc[p] EXCEPT !.group = db.docs[k]])
    BY <1>3, <2>1, Zenon DEF Opens, Reads, Has
  <2>3. loc'[p].group = db.docs[k]
    BY <1>0, <2>2 DEF Takes, LocFields
  <2>4. pc[p] = "undeployPolicy"
    BY <1>0, <1>7, <2>2 DEF Stage, Ops, ReadOps
  <2>5. \A x \in DOMAIN db.docs[k] : Deployable(db, k, x, db.docs[k][x])
    BY <1>6, <1>7, <2>2, <2>4
  <2> QED
    BY <1>5, <1>7, <2>2, <2>3, <2>5
<1>8. CASE pc'[p] = "saveGroup" /\ Deploys(p)
  <2> DEFINE g == IF k \in DOMAIN db.docs THEN db.docs[k] ELSE NoLocals.group
             h == [x \in DOMAIN g \cup {req[p].name} |-> IF x = req[p].name THEN req[p].item ELSE g[x]]
  <2>1. pc[p] = "deployLoad" /\ UNCHANGED db
    BY <1>1, <1>8 DEF Deploys, Reads
  <2>2. Takes(p, [loc[p] EXCEPT !.group = h])
    BY <1>3, <1>8, Zenon DEF Deploys, Deployed, Has
  <2>3. req[p].op = "deployPolicy"
    BY <1>0, <2>1 DEF Stage
  <2>4. ASSUME NEW x \in DOMAIN h
        PROVE  Deployable(db, k, x, h[x])
    <3>1. CASE x = req[p].name
      <4>1. h[x] = req[p].item
        BY <3>1
      <4>2. PICK v : v = req[p].item
        OBVIOUS
      <4>3. Revision(k[1], x, v) = RevisionKey(req[p])
        BY <1>4, <3>1, <4>2 DEF Revision, RevisionKey
      <4>4. Deployable(db, k, x, v)
        BY <1>4, <2>1, <3>1, <4>3 DEF Stored, Deployable, Loose
      <4> QED
        BY <4>1, <4>2, <4>4
    <3>2. CASE x # req[p].name
      <4>1. x \in DOMAIN g /\ h[x] = g[x]
        BY <2>4, <3>2
      <4>2. DOMAIN NoLocals.group = {}
        BY DEF NoLocals
      <4>3. k \in DOMAIN db.docs /\ g = db.docs[k]
        BY <4>1, <4>2
      <4> QED
        BY <1>6, <2>1, <2>3, <4>1, <4>3
    <3> QED
      BY <3>1, <3>2
  <2> HIDE DEF h
  <2>5. loc'[p].group = h
    BY <1>0, <2>2 DEF Takes, LocFields
  <2> QED
    BY <1>5, <1>8, <2>1, <2>4, <2>5
<1>9. CASE pc'[p] = "saveGroup" /\ Undeploys(p)
  <2> DEFINE g == loc[p].group
             h == Undeployed(g, req[p].name)
  <2>1. pc[p] = "getDeployed" /\ UNCHANGED db /\ req[p].op = "undeployPolicy"
    BY <1>1, <1>9 DEF Undeploys, Reads
  <2>2. Takes(p, [loc[p] EXCEPT !.group = h])
    BY <1>9 DEF Undeploys
  <2>3. \A x \in DOMAIN h : x \in DOMAIN g /\ h[x] = g[x]
    BY DEF Undeployed
  <2>4. \A x \in DOMAIN g : Deployable(db, k, x, g[x])
    BY <1>5, <2>1 DEF Held
  <2> HIDE DEF h, g
  <2>5. loc'[p].group = h
    BY <1>0, <2>2 DEF Takes, LocFields
  <2>6. \A x \in DOMAIN h : Deployable(db, k, x, h[x])
    BY <2>3, <2>4
  <2> QED
    BY <1>5, <1>9, <2>1, <2>5, <2>6
<1>10. CASE pc'[p] = "saveGroups"
  <2>1. PICK i : Loads(p, i)
    BY <1>10, Arrives DEF Effect
  <2> DEFINE g == Undeployed(db.docs[i], req[p].name)
  <2>2. \A x \in DOMAIN g : x \in DOMAIN db.docs[i] /\ x # req[p].name /\ g[x] = db.docs[i][x]
    BY DEF Undeployed
  <2> HIDE DEF g
  <2>3. /\ Reads(p, "loadGroups", "saveGroups") /\ i \in loc[p].todo /\ i \in DOMAIN db.docs
        /\ Takes(p, [loc[p] EXCEPT !.group = g, !.todo = @ \ {i}, !.key = i])
    BY <2>1, Zenon DEF Loads, Has, g
  <2>4. pc[p] = "loadGroups" /\ UNCHANGED db /\ loc'[p].group = g /\ loc'[p].key = i
    BY <1>0, <1>1, <2>3 DEF Reads, Takes, LocFields
  <2>5. i[2] = "policy_groups" /\ i[4] \in Groups
    BY <1>0, <2>3, <2>4 DEF Listed, IsIn, Sorted
  <2>6. <<"policy_groups", i[4]>> \in Touches(req[p])
    BY <1>0, <2>4, <2>5, TouchFacts DEF Stage
  <2>7. ASSUME NEW x \in DOMAIN g
        PROVE  Deployable(db, i, x, g[x])
    <3>1. x \in DOMAIN db.docs[i] /\ g[x] = db.docs[i][x] /\ x # req[p].name
      BY <2>2, <2>7
    <3>2. ~Sweeps(p, i, x, db.docs[i][x])
      BY <3>1 DEF Sweeps
    <3>3. Deployable(db, i, x, db.docs[i][x])
      BY <1>0, <2>3, <2>5, <2>6, <3>1, <3>2, ReadFine
    <3> QED
      BY <3>1, <3>3
  <2>8. Group(p)' = i
    BY <1>10, <2>4 DEF Group
  <2> QED
    BY <2>4, <2>7, <2>8
<1> QED
  BY <1>2, <1>7, <1>8, <1>9, <1>10, Arrives DEF Effect

LEMMA OwnGranted ==
    ASSUME Control, NEW p \in Procs, ReadEffect(p) \/ WriteEffect(p), Moves(p), Granted(p)
    PROVE  Granted(p)'
<1>0. Typed /\ IsStore(db) /\ Stage(p) /\ UNCHANGED req
  BY DEF Control, Typed, Moves, Frame
<1>1. ASSUME NEW from, NEW to, Goes(p, from, to)
      PROVE  pc[p] = from /\ pc'[p] = to
  BY <1>0, <1>1 DEF Goes, Typed
<1>2. PICK o, t, n : o = req[p].org /\ t = req[p].typ /\ n = req[p].name
  OBVIOUS
<1>3. CASE pc'[p] = "grantCreator"
  <2>1. Puts(p, "createObject", ObjectKey(req[p]), "doc", "grantCreator")
    BY <1>3, RestArrives
  <2>2. pc[p] = "createObject" /\ ObjectKey(req[p]) \in DOMAIN db'.docs
    BY <1>0, <1>1, <2>1, SetFacts DEF Puts
  <2>3. t \in ObjectTypes
    BY <1>0, <1>2, <2>2, RequestFacts DEF Stage, Ops, ObjectOps
  <2>4. Stands(ObjectKey(req[p]), o, t, n)
    BY <1>2, <2>3 DEF Stands, ObjectKey, Coll, ObjectTypes
  <2>5. Kept(db, o, t, n)'
    BY <2>2, <2>4 DEF Kept, Exists
  <2> QED
    BY <1>0, <1>2, <2>5 DEF Granted
<1>4. CASE pc'[p] = "storeACL"
  <2>1. UNCHANGED db /\ ACLObject(db, ACLKey(req[p]))
    BY <1>4, RestArrives
  <2>2. PICK k : k = ACLKey(req[p])
    OBVIOUS
  <2>3. k[1] = o /\ k[3] = t /\ k[4] = n
    BY <1>2, <2>2 DEF ACLKey
  <2>4. Exists(db, o, t, n)
    BY <2>1, <2>2, <2>3, ObjectExists
  <2>5. Kept(db, o, t, n)'
    BY <2>1, <2>4 DEF Kept, Exists
  <2> QED
    BY <1>0, <1>2, <2>5 DEF Granted
<1>5. CASE pc'[p] = "inBag" /\ req[p].op \in {"createItem", "putItem"}
  <2>1. UNCHANGED db /\ BagKey(req[p]) \in DOMAIN db.docs
    BY <1>5, RestArrives DEF Has
  <2>2. t = "data"
    BY <1>0, <1>2, <1>5, RequestFacts DEF ItemOps
  <2>3. Stands(BagKey(req[p]), o, t, n)
    BY <1>2, <2>2 DEF Stands, BagKey, Coll
  <2>4. Kept(db, o, t, n)'
    BY <2>1, <2>3 DEF Kept, Exists
  <2> QED
    BY <1>0, <1>2, <2>4 DEF Granted
<1>6. CASE pc'[p] = "storeItem"
  <2>1. Grants(p)
    BY <1>6, RestArrives DEF Grants
  <2>2. Kept(db, req[p].org, req[p].typ, req[p].name)'
    BY <2>1, GrantKept
  <2> QED
    BY <2>2 DEF Granted
<1> QED
  BY <1>0, <1>3, <1>4, <1>5, <1>6 DEF Granted, Grants

LEMMA OwnSeeded ==
    ASSUME Control, NEW p \in Procs, ReadEffect(p) \/ WriteEffect(p), Moves(p), Seeded(p)
    PROVE  Seeded(p)'
<1>0. /\ Typed /\ Listed(p) /\ DOMAIN loc = Procs /\ DOMAIN loc[p] = LocFields
      /\ UNCHANGED <<req, frayed>> /\ cut \subseteq cut' /\ emptied \subseteq emptied'
  BY DEF Control, Typed, Moves, Frame
<1>1. ASSUME NEW from, NEW to, Goes(p, from, to)
      PROVE  pc[p] = from /\ pc'[p] = to
  BY <1>0, <1>1 DEF Goes, Typed
<1>2. PICK o : o = req[p].org
  OBVIOUS
<1>3. SUFFICES ASSUME pc'[p] = "provision", loc'[p].step > 2, ~Gone(o)
               PROVE  Clients(o) \in DOMAIN db'.docs
  BY <1>0, <1>2, Grows DEF Seeded
<1>4. CASE Creates(p)
  <2>1. Takes(p, [loc[p] EXCEPT !.step = 1])
    BY <1>4 DEF Creates
  <2>2. loc'[p].step = 1
    BY <1>0, <2>1 DEF Takes, LocFields
  <2> QED
    BY <1>3, <2>2
<1>5. CASE Provides(p)
  <2>1. Takes(p, [loc[p] EXCEPT !.step = @ + 1])
    BY <1>5 DEF Provides
  <2>2. pc[p] = "provision"
    BY <1>5 DEF Provides, Goes
  <2>3. loc'[p].step = loc[p].step + 1 /\ loc[p].step \in 1 .. 5
    BY <1>0, <2>1, <2>2 DEF Takes, LocFields, Listed
  <2>4. Delta(p)
    BY <1>5, DeltaOrgs
  <2>5. DOMAIN db.docs \subseteq DOMAIN db'.docs /\ \A j : Adds(p, j) => j \in DOMAIN db'.docs
    BY <2>2, <2>4 DEF Delta
  <2>6. CASE loc[p].step = 2
    <3>1. PICK v : v = -1
      OBVIOUS
    <3>2. Plan(o, v)[2][1] = Clients(o)
      BY DEF Plan, Clients
    <3>3. Adds(p, Plan(o, v)[2][1])
      BY <1>2, <2>2, <2>6, <3>1 DEF Adds
    <3> QED
      BY <2>5, <3>2, <3>3
  <2>7. CASE loc[p].step > 2
    <3>1. Clients(o) \in DOMAIN db.docs
      BY <1>2, <1>3, <2>2, <2>7 DEF Seeded
    <3> QED
      BY <2>5, <3>1
  <2> QED
    BY <1>3, <2>3, <2>6, <2>7
<1> QED
  BY <1>3, <1>4, <1>5, RestArrives

\* What a goroutine has yet to put in order is what its request is about.
LEMMA InFlight ==
    ASSUME Control, NEW q \in Procs
    PROVE  /\ \A k, x, v : Sweeps(q, k, x, v) => pc[q] # "idle" /\ <<"policies", x>> \in Touches(req[q])
           /\ \A k : Empties(q, k) => pc[q] # "idle" /\ <<"data", k[3]>> \in Touches(req[q])
           /\ \A k : Clears(q, k) => pc[q] # "idle" /\ <<k[3], k[4]>> \in Touches(req[q])
           /\ \A o : Making(q, o) => pc[q] # "idle" /\ <<"organizations", o>> \in Touches(req[q])
           /\ pc[q] = "createOrganization" =>
                \A k, x, v : ~Sweeps(q, k, x, v) /\ ~Empties(q, k) /\ ~Clears(q, k) /\ ~Making(q, k)
<1>0. Typed /\ Stage(q)
  BY DEF Control
<1>1. ASSUME NEW k, NEW x, NEW v, Sweeps(q, k, x, v)
      PROVE  pc[q] # "idle" /\ <<"policies", x>> \in Touches(req[q])
  <2>1. pc[q] # "idle" /\ req[q].op \in {"deletePolicy", "deleteRevision"} /\ req[q].name = x
    BY <1>0, <1>1 DEF Sweeps, Stage
  <2>2. <<"policies", req[q].name>> \in Touches(req[q])
    BY <2>1, TouchFacts DEF PolicyOps
  <2> QED
    BY <2>1, <2>2
<1>2. ASSUME NEW k, Empties(q, k)
      PROVE  pc[q] # "idle" /\ <<"data", k[3]>> \in Touches(req[q])
  <2>1. pc[q] # "idle" /\ req[q].op = "deleteDataBag" /\ req[q].name = k[3]
    BY <1>0, <1>2 DEF Empties, Stage
  <2>2. req[q].typ = "data"
    BY <1>0, <2>1, RequestFacts
  <2>3. <<req[q].typ, req[q].name>> \in Touches(req[q])
    BY <1>0, <2>1, TouchThing
  <2> QED
    BY <2>1, <2>2, <2>3
<1>3. ASSUME NEW k, Clears(q, k)
      PROVE  pc[q] # "idle" /\ <<k[3], k[4]>> \in Touches(req[q])
  <2>1. /\ pc[q] # "idle" /\ req[q].op \in {"deleteObject", "deleteDataBag", "deletePolicy", "deleteGroup"}
        /\ req[q].typ = k[3] /\ req[q].name = k[4]
    BY <1>0, <1>3 DEF Clears, Stage
  <2>2. <<req[q].typ, req[q].name>> \in Touches(req[q])
    BY <1>0, <2>1, TouchThing
  <2> QED
    BY <2>1, <2>2
<1>4. ASSUME NEW o, Making(q, o)
      PROVE  pc[q] # "idle" /\ <<"organizations", o>> \in Touches(req[q])
  <2>1. pc[q] # "idle" /\ req[q].op \in OrgOps /\ req[q].org = o
    BY <1>0, <1>4 DEF Making, Stage, OrgOps
  <2>2. Org(req[q]) \in Touches(req[q])
    BY <2>1, TouchFacts
  <2> QED
    BY <2>1, <2>2 DEF Org
<1>5. pc[q] = "createOrganization" =>
        \A k, x, v : ~Sweeps(q, k, x, v) /\ ~Empties(q, k) /\ ~Clears(q, k) /\ ~Making(q, k)
  BY DEF Sweeps, Empties, Clears, Making
<1> QED
  BY <1>1, <1>2, <1>3, <1>4, <1>5

\* All that is under way is excused once an organization is being created.
LEMMA SnapFine ==
    ASSUME Control, Frays, Tidy, NEW p \in Busy, pc[p] = "createOrganization"
    PROVE  Rested(db)
<1>0. p \in Procs /\ Stage(p)
  BY DEF Control, Busy
<1>1. req[p].op = "createOrganization"
  BY <1>0 DEF Stage, Ops, OrgOps
<1>2. ASSUME NEW q \in Procs, q # p, pc[q] # "idle", NEW x \in Touches(req[q])
      PROVE  Excused(x)
  BY <1>1, <1>2, Overlaps DEF Busy
<1>3. ASSUME NEW q \in Procs
      PROVE  /\ \A k, x, v : Sweeps(q, k, x, v) => Excused(<<"policies", x>>)
             /\ \A k : Empties(q, k) => Excused(<<"data", k[3]>>)
             /\ \A k : Clears(q, k) => Excused(<<k[3], k[4]>>)
             /\ \A o : Making(q, o) => Excused(<<"organizations", o>>)
  <2>1. CASE q = p
    BY <2>1, InFlight
  <2>2. CASE q # p
    BY <1>2, <2>2, InFlight
  <2> QED
    BY <2>1, <2>2
<1>4. ASSUME NEW k \in DOMAIN db.docs, k[2] = "policy_groups", NEW x \in DOMAIN db.docs[k]
      PROVE  Deployable(db, k, x, db.docs[k][x])
  BY <1>3, <1>4 DEF Tidy, GroupsFine, Deployable, Loose
<1>5. \A k \in DOMAIN db.docs : k[2] = "databag_items" => Kept(db, k[1], "data", k[3])
  BY <1>3 DEF Tidy, ItemsFine, Kept, Spared
<1>6. \A k \in DOMAIN db.docs : k[2] = "acls" => Kept(db, k[1], k[3], k[4])
  BY <1>3 DEF Tidy, ACLsFine, Kept, Spared
<1>7. \A o : Registered(db, o) \/ Gone(o)
  BY <1>3 DEF Tidy, MetasFine, Gone
<1> QED
  BY <1>4, <1>5, <1>6, <1>7 DEF Rested, Tidy

LEMMA OwnSnap ==
    ASSUME Control, Frays, Tidy, NEW p \in Procs, ReadEffect(p) \/ WriteEffect(p), Moves(p), SnapRested(p)
    PROVE  SnapRested(p)'
<1>0. /\ Typed /\ DOMAIN loc = Procs /\ DOMAIN loc[p] = LocFields
      /\ frayed \subseteq frayed' /\ cut \subseteq cut' /\ emptied \subseteq emptied' /\ p \in Busy
  BY DEF Control, Typed, Moves, Frame, Busy
<1>1. CASE pc'[p] = "found"
  <2>1. Snaps(p)
    BY <1>1, Arrives DEF Effect
  <2>2. pc[p] = "createOrganization" /\ UNCHANGED db /\ Takes(p, [loc[p] EXCEPT !.snap = db])
    BY <2>1 DEF Snaps, Reads, Goes
  <2>3. loc'[p].snap = db
    BY <1>0, <2>2 DEF Takes, LocFields
  <2>4. PICK d : d = db
    OBVIOUS
  <2>5. Rested(d)
    BY <1>0, <2>2, <2>4, SnapFine
  <2>6. Rested(d)'
    BY <1>0, <2>5, RestedGrows
  <2> QED
    BY <2>2, <2>3, <2>4, <2>6 DEF SnapRested
<1>2. CASE pc'[p] = "rollback"
  <2>1. pc[p] = "found" /\ UNCHANGED <<db, loc>>
    BY <1>2, Arrives DEF Effect, Reads, Goes
  <2>2. PICK d : d = loc[p].snap
    OBVIOUS
  <2>3. Rested(d) /\ \A i : (i \in db.orgs <=> i \in d.orgs) \/ Gone(i)
    BY <2>1, <2>2 DEF SnapRested
  <2>4. Rested(d)' /\ \A i : Gone(i) => Gone(i)'
    BY <1>0, <2>3, RestedGrows, Grows
  <2> QED
    BY <2>1, <2>2, <2>3, <2>4 DEF SnapRested
<1> QED
  BY <1>1, <1>2 DEF SnapRested

LEMMA OwnClaims ==
    ASSUME Control, Frays, Tidy, NEW p \in Procs, ReadEffect(p) \/ WriteEffect(p), Moves(p), Claims(p)
    PROVE  Claims(p)'
<1>0. Typed /\ IsStore(db) /\ UNCHANGED req
  BY DEF Control, Typed, Moves, Frame
<1>1. /\ Placed(p) /\ Sorted(p) /\ Held(p) /\ Stored(p) /\ Granted(p) /\ Seeded(p) /\ SnapRested(p)
      /\ MetasFine /\ GroupsFine /\ Shape(db)
  BY DEF Claims, Tidy
<1>2. Placed(p)'
  BY <1>1, OwnPlaced
<1>3. Sorted(p)'
  BY <1>1, OwnSorted
<1>4. Held(p)'
  BY <1>1, OwnHeld
<1>5. Granted(p)'
  BY <1>1, OwnGranted
<1>6. Seeded(p)'
  BY <1>1, OwnSeeded
<1>7. SnapRested(p)'
  BY <1>1, OwnSnap
<1>8. Stored(p)'
  <2>1. SUFFICES ASSUME pc'[p] = "deployLoad"
                 PROVE  RevisionKey(req[p]) \in DOMAIN db'.docs
    BY <1>0 DEF Stored, RevisionKey
  <2>2. db' = set(db, RevisionKey(req[p]), "doc")
    BY <2>1, RestArrives DEF Puts
  <2> QED
    BY <1>0, <2>2, SetFacts
<1>9. Unlisted(p)'
  <2>1. SUFFICES ASSUME pc'[p] = "deleteOrg"
                 PROVE  OrgMeta(req[p].org) \notin DOMAIN db'.docs
    BY <1>0 DEF Unlisted, OrgMeta
  <2>2. db' = Delete(db, {OrgMeta(req[p].org)})
    BY <2>1, RestArrives DEF Deletes
  <2> QED
    BY <1>0, <2>2, DeleteFacts
<1> QED
  BY <1>2, <1>3, <1>4, <1>5, <1>6, <1>7, <1>8, <1>9 DEF Claims

LEMMA RestStep ==
    ASSUME Control, Rest, NEW p \in Procs, ReadEffect(p) \/ WriteEffect(p)
    PROVE  Rest'
<1>0. /\ Moves(p) /\ Tidy /\ Frays /\ \A q \in Procs : Claims(q)
  BY EffectMoves DEF Rest
<1>1. /\ Shape(db) /\ Homes(db) /\ GroupsFine /\ ItemsFine /\ ACLsFine /\ MetasFine
      /\ Placed(p) /\ Sorted(p) /\ Held(p) /\ Granted(p) /\ Seeded(p) /\ Unlisted(p)
  BY <1>0 DEF Tidy, Claims
<1>2. Tidy'
  <2>1. Shape(db)' /\ Homes(db)'
    BY <1>0, <1>1, ShapeStep, HomesStep
  <2>2. GroupsFine'
    BY <1>0, <1>1, GroupsStep
  <2>3. ItemsFine'
    BY <1>0, <1>1, ItemsStep
  <2>4. ACLsFine'
    BY <1>0, <1>1, ACLsStep
  <2>5. MetasFine'
    BY <1>0, <1>1, MetasStep
  <2> QED
    BY <2>1, <2>2, <2>3, <2>4, <2>5 DEF Tidy
<1>3. Frays'
  <2>1. UNCHANGED <<req, frayed>> /\ Busy' \subseteq Busy
    BY <1>0 DEF Moves, Frame, Busy
  <2> QED
    BY <1>0, <2>1 DEF Frays, Clash, Touches, Org
<1>4. ASSUME NEW q \in Procs
      PROVE  Claims(q)'
  <2>1. CASE q = p
    BY <1>0, <2>1, OwnClaims
  <2>2. CASE q # p
    BY <1>0, <2>2, OthersClaims
  <2> QED
    BY <2>1, <2>2
<1> QED
  BY <1>2, <1>3, <1>4 DEF Rest

-----------------------------------------------------------------------------
(* The other steps.                                                          *)

\* A failed transaction puts its snapshot back; whoever is in flight with it is
\* excused.
LEMMA RestRollback ==
    ASSUME Control, Rest, NEW p \in Procs, RollsBack(p)
    PROVE  Rest'
<1>0. /\ Typed /\ Stage(p) /\ pc[p] = "rollback" /\ Frame(p) /\ UNCHANGED <<loc, cut, emptied, frayed, req>>
      /\ pc' = [pc EXCEPT ![p] = "idle"] /\ p \in Busy
  BY EffectFrame DEF Control, RollsBack, Goes, Frame, Effect, Busy
<1>1. PICK d : d = loc[p].snap
  OBVIOUS
<1>2. db' = d /\ Rested(d) /\ (\A i : (i \in db.orgs <=> i \in d.orgs) \/ Gone(i)) /\ Frays
  BY <1>0, <1>1 DEF RollsBack, Rest, Claims, SnapRested
<1>3. \A x : Excused(x)' <=> Excused(x)
  BY <1>0 DEF Excused
<1>4. Rested(d)'
  BY <1>0, <1>2, RestedGrows
<1>5. Tidy'
  BY <1>2, <1>4 DEF Tidy, Rested, GroupsFine, ItemsFine, ACLsFine, MetasFine
<1>6. Frays'
  <2>1. Busy' \subseteq Busy
    BY <1>0 DEF Busy, Typed
  <2> QED
    BY <1>0, <1>2, <2>1 DEF Frays, Clash, Touches, Org
<1>7. ASSUME NEW q \in Procs
      PROVE  Claims(q)'
  <2>1. CASE pc'[q] = "idle"
    BY <2>1 DEF Claims, Placed, Unplaced, Sorted, Held, Stored, Granted, Grants, Seeded, Unlisted, SnapRested
  <2>2. CASE pc'[q] # "idle"
    <3>0. q # p /\ pc'[q] = pc[q] /\ q \in Busy /\ Claims(q) /\ Stage(q)
      BY <1>0, <2>2 DEF Typed, Busy, Rest, Control
    <3>1. \A x \in Touches(req[q]) : Excused(x)
      <4>1. req[p].op = "createOrganization"
        BY <1>0 DEF Stage
      <4> QED
        BY <1>0, <1>2, <3>0, <4>1, Overlaps
    <3>2. req[q].op \in OrgOps => Gone(req[q].org)
      BY <3>1, TouchFacts DEF Org, Gone
    <3>3. Placed(q)'
      BY <1>0, <1>2, <1>3, <3>0 DEF Claims, Placed, Gone
    <3>4. Sorted(q)'
      BY <1>0, <3>0 DEF Claims, Sorted
    <3>5. Held(q)'
      <4>1. SUFFICES ASSUME pc[q] \in {"saveGroup", "saveGroups"} \/ (pc[q] = "getDeployed" /\ req[q].op = "undeployPolicy")
                     PROVE  \A x, v : Deployable(db, Group(q), x, v)'
        BY <1>0, <3>0 DEF Held
      <4>2. Excused(<<"policy_groups", Group(q)[4]>>)
        BY <3>0, <3>1, <4>1, Holder DEF Claims
      <4>3. Group(q)' = Group(q)
        BY <1>0, <3>0 DEF Group, GroupKey
      <4> QED
        BY <1>3, <4>2, <4>3 DEF Deployable, Loose
    <3>6. Stored(q)'
      <4>1. pc[q] = "deployLoad" => Excused(<<"policies", req[q].name>>)
        BY <3>0, <3>1, TouchFacts DEF Stage, PolicyOps
      <4> QED
        BY <1>0, <1>3, <3>0, <4>1 DEF Stored
    <3>7. Granted(q)'
      <4>1. Grants(q) => Excused(<<req[q].typ, req[q].name>>)
        BY <3>1, GrantOps
      <4> QED
        BY <1>0, <1>3, <3>0, <4>1 DEF Granted, Grants, Kept, Spared
    <3>8. Seeded(q)' /\ Unlisted(q)'
      <4>1. pc[q] \in {"provision", "deleteOrg"} => Gone(req[q].org)
        BY <3>0, <3>2 DEF Stage, OrgOps
      <4> QED
        BY <1>0, <1>3, <3>0, <4>1 DEF Seeded, Unlisted, Gone
    <3>9. SnapRested(q)'
      <4>1. SUFFICES ASSUME pc[q] \in {"found", "rollback"}
                     PROVE  /\ Rested(loc[q].snap)'
                            /\ \A i : (i \in db'.orgs <=> i \in loc'[q].snap.orgs) \/ Gone(i)'
        BY <3>0 DEF SnapRested
      <4>2. PICK e : e = loc[q].snap
        OBVIOUS
      <4>3. Rested(e) /\ \A i : (i \in db.orgs <=> i \in e.orgs) \/ Gone(i)
        BY <3>0, <4>1, <4>2 DEF Claims, SnapRested
      <4>4. Rested(e)'
        BY <1>0, <4>3, RestedGrows
      <4>5. \A i : (i \in d.orgs <=> i \in e.orgs) \/ Gone(i)'
        BY <1>2, <1>3, <4>3 DEF Gone
      <4> QED
        BY <1>0, <1>2, <4>2, <4>4, <4>5
    <3> QED
      BY <3>3, <3>4, <3>5, <3>6, <3>7, <3>8, <3>9 DEF Claims
  <2> QED
    BY <2>1, <2>2
<1> QED
  BY <1>5, <1>6, <1>7 DEF Rest

\* A request begins, or ends for a failure: then all it was about is excused.
Entry == {"idle", "org", "getOrganization"} \cup OrgOps
Stays(q) == pc'[q] = pc[q] /\ loc'[q] = loc[q] /\ req'[q] = req[q]
Turns(q) == pc'[q] \in Entry /\ (pc[q] = "idle" \/ \A x \in Touches(req[q]) : Excused(x)')

LEMMA Pauses ==
    ASSUME Control, Tidy, \A q \in Procs : Claims(q), UNCHANGED db, frayed \subseteq frayed', cut \subseteq cut', emptied \subseteq emptied',
           \A q \in Procs : Stays(q) \/ Turns(q)
    PROVE  Tidy' /\ \A q \in Procs : Claims(q)'
<1>1. /\ \A x : Excused(x) => Excused(x)'
      /\ \A o : Gone(o) => Gone(o)'
      /\ \A o, t, n : Spared(o, t, n) => Spared(o, t, n)'
      /\ \A k, x : Loose(k, x) => Loose(k, x)'
  BY Grows
<1>2. \A k, x, v : Deployable(db, k, x, v) => Deployable(db, k, x, v)'
  BY <1>1 DEF Deployable
<1>3. \A o, t, n : Kept(db, o, t, n) => Kept(db, o, t, n)'
  BY <1>1 DEF Kept, Exists
<1>4. ASSUME NEW q \in Procs
      PROVE  /\ \A k, x, v : Sweeps(q, k, x, v) => Sweeps(q, k, x, v)' \/ Excused(<<"policies", x>>)'
             /\ \A k : Empties(q, k) => Empties(q, k)' \/ Excused(<<"data", k[3]>>)'
             /\ \A k : Clears(q, k) => Clears(q, k)' \/ Excused(<<k[3], k[4]>>)'
             /\ \A o : Making(q, o) => Making(q, o)' \/ Excused(<<"organizations", o>>)'
  <2>1. CASE Stays(q)
    BY <2>1 DEF Stays, Sweeps, Empties, Clears, Making
  <2>2. CASE Turns(q)
    BY <2>2, InFlight DEF Turns
  <2> QED
    BY <2>1, <2>2
<1>5. Tidy'
  <2>1. Shape(db)' /\ Homes(db)'
    BY <1>1 DEF Tidy, Shape, Homes
  <2>2. GroupsFine'
    <3>1. SUFFICES ASSUME NEW k \in DOMAIN db.docs, k[2] = "policy_groups", NEW x \in DOMAIN db.docs[k]
                   PROVE  \A v : v = db.docs[k][x] => Deployable(db, k, x, v)' \/ \E q \in Procs : Sweeps(q, k, x, v)'
      BY DEF GroupsFine
    <3>2. PICK v : v = db.docs[k][x]
      OBVIOUS
    <3>3. Deployable(db, k, x, v) \/ \E q \in Procs : Sweeps(q, k, x, v)
      BY <3>1, <3>2 DEF Tidy, GroupsFine
    <3>4. Deployable(db, k, x, v)' \/ \E q \in Procs : Sweeps(q, k, x, v)'
      BY <1>2, <1>4, <3>3 DEF Deployable, Loose
    <3> QED
      BY <3>2, <3>4
  <2>3. ItemsFine'
    BY <1>3, <1>4 DEF Tidy, ItemsFine, Kept, Spared
  <2>4. ACLsFine'
    BY <1>3, <1>4 DEF Tidy, ACLsFine, Kept, Spared
  <2>5. MetasFine'
    BY <1>1, <1>4 DEF Tidy, MetasFine, Registered, Gone
  <2> QED
    BY <2>1, <2>2, <2>3, <2>4, <2>5 DEF Tidy
<1>6. ASSUME NEW q \in Procs
      PROVE  Claims(q)'
  <2>1. CASE Turns(q)
    BY <2>1 DEF Turns, Entry, OrgOps, Claims, Placed, Unplaced, Sorted, Held, Stored, Granted, Grants, Seeded, Unlisted, SnapRested
  <2>2. CASE Stays(q)
    <3>0. pc'[q] = pc[q] /\ loc'[q] = loc[q] /\ req'[q] = req[q] /\ Claims(q)
      BY <2>2 DEF Stays
    <3>1. Placed(q)' /\ Sorted(q)' /\ Stored(q)' /\ Seeded(q)' /\ Unlisted(q)'
      BY <1>1, <3>0 DEF Claims, Placed, Sorted, Stored, Seeded, Unlisted, RevisionKey, Clients, OrgMeta
    <3>2. Granted(q)'
      BY <1>3, <3>0 DEF Claims, Granted, Grants
    <3>3. Held(q)'
      <4>1. Group(q)' = Group(q)
        BY <3>0 DEF Group, GroupKey
      <4> QED
        BY <1>2, <3>0, <4>1 DEF Claims, Held
    <3>4. SnapRested(q)'
      <4>1. PICK d : d = loc[q].snap
        OBVIOUS
      <4>2. pc[q] \in {"found", "rollback"} => Rested(d)'
        BY <3>0, <4>1, RestedGrows DEF Claims, SnapRested
      <4> QED
        BY <1>1, <3>0, <4>1, <4>2 DEF Claims, SnapRested
    <3> QED
      BY <3>1, <3>2, <3>3, <3>4 DEF Claims
  <2> QED
    BY <2>1, <2>2
<1> QED
  BY <1>5, <1>6

LEMMA RestBegin ==
    ASSUME Control, Rest, NEW p \in Procs, Begin(p)
    PROVE  Rest'
<1>0. Typed /\ Tidy /\ Frays /\ \A q \in Procs : Claims(q)
  BY DEF Control, Rest
<1>1. PICK r \in offered :
        /\ req' = [req EXCEPT ![p] = r]
        /\ frayed' = frayed \cup UNION {Clash(r, req[b]) : b \in Busy}
        /\ pc' = [pc EXCEPT ![p] = IF r.op \in OrgOps \cup {"getOrganization"} THEN r.op ELSE "org"]
  BY DEF Begin
<1>2. /\ pc[p] = "idle" /\ UNCHANGED <<db, cut, emptied>> /\ Takes(p, NoLocals)
      /\ pc'[p] \in Entry /\ req'[p] = r
  BY <1>0, <1>1 DEF Begin, Local, Takes, Typed, Entry
<1>3. ASSUME NEW q \in Procs, q # p
      PROVE  Stays(q) /\ (q \in Busy' <=> q \in Busy)
  BY <1>0, <1>1, <1>2, <1>3 DEF Takes, Typed, Stays, Busy
<1>4. Turns(p)
  BY <1>2 DEF Turns
<1>5. frayed \subseteq frayed' /\ cut \subseteq cut' /\ emptied \subseteq emptied'
  BY <1>1, <1>2
<1>6. Tidy' /\ \A q \in Procs : Claims(q)'
  BY <1>0, <1>2, <1>3, <1>4, <1>5, Pauses
<1>7. ASSUME NEW q \in Busy', NEW c \in Busy', q # c
      PROVE  Clash(req[q], req[c])' \subseteq frayed'
  <2>0. q \in Procs /\ c \in Procs
    BY DEF Busy
  <2>1. PICK s, t : s = req'[q] /\ t = req'[c]
    OBVIOUS
  <2>2. Clash(req[q], req[c])' = Clash(s, t)
    BY <2>1 DEF Clash, Touches, Org
  <2>3. ASSUME NEW b \in Busy
        PROVE  Clash(r, req[b]) \subseteq frayed' /\ Clash(req[b], r) \subseteq frayed'
    <3>1. Clash(r, req[b]) \subseteq frayed'
      BY <1>1
    <3>2. Clash(req[b], r) = Clash(r, req[b])
      BY ClashFacts
    <3> QED
      BY <3>1, <3>2
  <2>4. CASE q # p /\ c # p
    <3>1. q \in Busy /\ c \in Busy /\ s = req[q] /\ t = req[c]
      BY <1>3, <1>7, <2>0, <2>1, <2>4 DEF Stays
    <3> QED
      BY <1>0, <1>5, <1>7, <2>2, <3>1 DEF Frays
  <2>5. CASE q = p
    <3>1. c \in Busy /\ s = r /\ t = req[c]
      BY <1>2, <1>3, <1>7, <2>0, <2>1, <2>5 DEF Stays
    <3> QED
      BY <2>2, <2>3, <3>1
  <2>6. CASE c = p
    <3>1. q \in Busy /\ t = r /\ s = req[q]
      BY <1>2, <1>3, <1>7, <2>0, <2>1, <2>6 DEF Stays
    <3> QED
      BY <2>2, <2>3, <3>1
  <2> QED
    BY <2>4, <2>5, <2>6
<1> QED
  BY <1>6, <1>7 DEF Rest, Frays

LEMMA RestError ==
    ASSUME Control, Rest, NEW p \in Procs, StoreError(p)
    PROVE  Rest'
<1>0. Typed /\ Tidy /\ Frays /\ \A q \in Procs : Claims(q)
  BY DEF Control, Rest
<1>1. /\ UNCHANGED <<db, req, loc, frayed, emptied>> /\ cut' = cut \cup Touches(req[p])
      /\ pc' = [pc EXCEPT ![p] = "idle"]
  BY DEF StoreError, Reply
<1>2. Turns(p)
  BY <1>0, <1>1 DEF Turns, Entry, Excused, Typed
<1>3. Busy' \subseteq Busy /\ \A q \in Procs : q # p => Stays(q)
  BY <1>0, <1>1 DEF Stays, Typed, Busy
<1>4. Tidy' /\ \A q \in Procs : Claims(q)'
  BY <1>0, <1>1, <1>2, <1>3, Pauses
<1>5. Frays'
  BY <1>0, <1>1, <1>3 DEF Frays, Clash, Touches, Org
<1> QED
  BY <1>4, <1>5 DEF Rest

LEMMA RestCrash ==
    ASSUME Control, Rest, Crash
    PROVE  Rest'
<1>0. Typed /\ Tidy /\ \A q \in Procs : Claims(q)
  BY DEF Control, Rest
<1>1. /\ UNCHANGED <<db, req, loc, frayed, emptied>> /\ cut' = cut \cup HalfServed \cup HalfMade
      /\ pc' = [q \in Procs |-> "idle"]
  BY DEF Crash
<1>2. ASSUME NEW q \in Procs
      PROVE  Turns(q)
  <2>1. q \in Busy => Touches(req[q]) \subseteq HalfServed
    BY DEF HalfServed
  <2>2. pc[q] # "idle" => \A x \in Touches(req[q]) : Excused(x)'
    BY <1>1, <2>1 DEF Busy, Excused
  <2> QED
    BY <1>1, <2>2 DEF Turns, Entry
<1>3. Tidy' /\ \A q \in Procs : Claims(q)'
  BY <1>0, <1>1, <1>2, Pauses
<1>4. Busy' = {}
  BY <1>1 DEF Busy
<1> QED
  BY <1>3, <1>4 DEF Rest, Frays

\* A start only adds: keys that are of no organization, and an organization
\* that is complete.
LEMMA Widens ==
    ASSUME Tidy, \A q \in Procs : pc[q] = "idle", UNCHANGED <<pc, req, loc, frayed, cut, emptied>>,
           DOMAIN db.docs \subseteq DOMAIN db'.docs, db.orgs \subseteq db'.orgs,
           \A j \in DOMAIN db'.docs :
              \/ j \in DOMAIN db.docs /\ (j[2] = "policy_groups" => db'.docs[j] = db.docs[j])
              \/ /\ j[2] \notin {"policy_groups", "databag_items"} /\ (j[1] = "" \/ j[1] \in db'.orgs)
                 /\ j[2] = "acls" => /\ j = <<j[1], "acls", j[3], j[4]>> /\ j[3] \in ACLTypes
                                     /\ Exists(db', j[1], j[3], j[4]),
           \A o : Registered(db, o) => Registered(db', o)
    PROVE  Rest'
<1>1. \A x : (Excused(x) => Excused(x)')
  BY DEF Excused
<1>2. /\ \A o : Gone(o) => Gone(o)'
      /\ \A o, t, n : Spared(o, t, n) => Spared(o, t, n)'
      /\ \A k, x : Loose(k, x) => Loose(k, x)'
  BY Grows
<1>3. ASSUME NEW q \in Procs
      PROVE  \A k, x, v : ~Sweeps(q, k, x, v) /\ ~Empties(q, k) /\ ~Clears(q, k) /\ ~Making(q, k)
  BY DEF Sweeps, Empties, Clears, Making
<1>4. \A o, t, n : Kept(db, o, t, n) => Kept(db, o, t, n)'
  BY <1>2 DEF Kept, Exists
<1>5. \A k, x, v : Deployable(db, k, x, v) => Deployable(db, k, x, v)'
  BY <1>2 DEF Deployable
<1>6. Shape(db)' /\ Homes(db)'
  BY <1>2 DEF Tidy, Shape, Homes
<1>7. GroupsFine'
  <2>1. SUFFICES ASSUME NEW k \in DOMAIN db'.docs, k[2] = "policy_groups", NEW x \in DOMAIN db'.docs[k]
                 PROVE  \A v : v = db'.docs[k][x] => Deployable(db, k, x, v)'
    BY DEF GroupsFine
  <2>2. k \in DOMAIN db.docs /\ db'.docs[k] = db.docs[k]
    BY <2>1
  <2>3. Deployable(db, k, x, db.docs[k][x])
    BY <1>3, <2>1, <2>2 DEF Tidy, GroupsFine
  <2> QED
    BY <1>5, <2>2, <2>3
<1>8. ItemsFine'
  BY <1>3, <1>4 DEF Tidy, ItemsFine
<1>9. ACLsFine'
  <2>1. SUFFICES ASSUME NEW k \in DOMAIN db'.docs, k[2] = "acls"
                 PROVE  Kept(db, k[1], k[3], k[4])'
    BY DEF ACLsFine
  <2>2. CASE k \in DOMAIN db.docs
    BY <1>3, <1>4, <2>1, <2>2 DEF Tidy, ACLsFine
  <2>3. CASE k \notin DOMAIN db.docs
    BY <2>1, <2>3 DEF Kept
  <2> QED
    BY <2>2, <2>3
<1>10. MetasFine'
  <2>1. \A o : Registered(db, o) => Registered(db, o)'
    BY DEF Registered
  <2> QED
    BY <1>2, <1>3, <2>1 DEF Tidy, MetasFine
<1>11. ASSUME NEW q \in Procs
       PROVE  Claims(q)'
  BY DEF Claims, Placed, Unplaced, Sorted, Held, Stored, Granted, Grants, Seeded, Unlisted, SnapRested
<1>12. Busy' = {}
  BY DEF Busy
<1> QED
  BY <1>6, <1>7, <1>8, <1>9, <1>10, <1>11, <1>12 DEF Rest, Tidy, Frays

LEMMA RestStart ==
    ASSUME Control, Rest, Starts
    PROVE  Rest'
<1>0. Typed /\ Tidy /\ IsStore(db)
  BY DEF Control, Rest, Typed
<1>1. UNCHANGED <<pc, req, loc, frayed, cut, emptied>> /\ \A q \in Procs : pc[q] = "idle"
  <2>1. NoRequests /\ boot # "up"
    BY <1>0, StartStores
  <2>2. UNCHANGED <<cut, emptied>>
    BY DEF Starts, LoadKeys, BootAdmin, BootAdminKey, BootOrganization, BootOrgKey, UpgradeOrgACLs, Boot
  <2> QED
    BY <2>1, <2>2 DEF NoRequests, Control, Quiet, Busy
<1>2. \/ db' = db
      \/ \E k \in {AdminUser, AdminKey, ValidatorKey} : \E v : db' = set(db, k, v)
      \/ \E o \in LegacyOrgs : db' = set(db, ClientsACL(o), "seeded")
      \/ db' = Founded(db, BootOrg, boots)
  BY DEF Starts, LoadKeys, BootAdmin, BootAdminKey, BootOrganization, BootOrgKey, UpgradeOrgACLs, AdminWrites
<1>3. CASE db' = db
  BY <1>0, <1>1, <1>3, Widens
<1>4. ASSUME NEW k \in {AdminUser, AdminKey, ValidatorKey}, NEW v, db' = set(db, k, v)
      PROVE  Rest'
  <2>1. /\ db'.orgs = db.orgs /\ DOMAIN db'.docs = DOMAIN db.docs \cup {k}
        /\ \A x : x # k => Same(db, db', x)
    BY <1>0, <1>4, SetFacts
  <2>2. k[1] = "" /\ k[2] \in {"users", "server_keys"}
    <3>1. AdminUser[1] = "" /\ AdminUser[2] = "users"
      BY DEF AdminUser
    <3>2. AdminKey[1] = "" /\ AdminKey[2] = "server_keys"
      BY DEF AdminKey
    <3>3. ValidatorKey[1] = "" /\ ValidatorKey[2] = "server_keys"
      BY DEF ValidatorKey
    <3> QED
      BY <1>4, <3>1, <3>2, <3>3
  <2>3. \A o : OrgMeta(o) # k
    <3>1. \A o : OrgMeta(o)[2] = "organizations"
      BY DEF OrgMeta
    <3> QED
      BY <2>2, <3>1
  <2>4. \A o : Registered(db, o) => Registered(db', o)
    BY <2>1, <2>3 DEF Registered
  <2>5. \A j \in DOMAIN db'.docs :
          \/ j \in DOMAIN db.docs /\ (j[2] = "policy_groups" => db'.docs[j] = db.docs[j])
          \/ j[2] \notin {"policy_groups", "databag_items", "acls"} /\ j[1] = ""
    BY <2>1, <2>2 DEF Same
  <2> QED
    BY <1>0, <1>1, <2>1, <2>4, <2>5, Widens
<1>5. ASSUME NEW o \in LegacyOrgs, db' = set(db, ClientsACL(o), "seeded")
      PROVE  Rest'
  <2>1. PICK k : k = ClientsACL(o)
    OBVIOUS
  <2>2. k \in DOMAIN db.docs /\ k[2] = "acls"
    BY <2>1 DEF LegacyOrgs, Has, ClientsACL
  <2>3. /\ db'.orgs = db.orgs /\ DOMAIN db'.docs = DOMAIN db.docs \cup {k}
        /\ \A x : x # k => Same(db, db', x)
    BY <1>0, <1>5, <2>1, SetFacts
  <2>4. DOMAIN db'.docs = DOMAIN db.docs /\ \A j \in DOMAIN db.docs : j[2] = "policy_groups" => db'.docs[j] = db.docs[j]
    BY <2>2, <2>3 DEF Same
  <2>5. \A i : Registered(db, i) => Registered(db', i)
    BY <2>3, <2>4 DEF Registered
  <2> QED
    BY <1>0, <1>1, <2>3, <2>4, <2>5, Widens
<1>6. CASE db' = Founded(db, BootOrg, boots)
  <2>1. PICK o : o = BootOrg
    OBVIOUS
  <2>2. /\ db'.orgs = db.orgs \cup {o} /\ DOMAIN db'.docs = DOMAIN db.docs \cup PlanKeys(o)
        /\ \A x : x \notin PlanKeys(o) => Same(db, db', x)
    BY <1>0, <1>6, <2>1, FoundedFacts
  <2>3. /\ Default(o)[1] = o /\ Default(o)[2] = "environments"
        /\ Clients(o)[1] = o /\ Clients(o)[2] = "containers"
        /\ OrgMeta(o)[1] = "" /\ OrgMeta(o)[2] = "organizations"
        /\ Validator(o)[1] = o /\ Validator(o)[2] = "clients"
        /\ ClientsACL(o)[1] = o /\ ClientsACL(o)[2] = "acls" /\ ClientsACL(o)[3] = "containers"
        /\ ClientsACL(o)[4] = "clients"
    BY PlanKeyFacts
  <2>4. Exists(db', o, "containers", "clients")
    <3>1. Stands(Clients(o), o, "containers", "clients")
      BY DEF Stands, Clients, Coll
    <3> QED
      BY <2>2, <3>1 DEF Exists, PlanKeys
  <2>5. ASSUME NEW j \in PlanKeys(o)
        PROVE  /\ j[2] \notin {"policy_groups", "databag_items"} /\ (j[1] = "" \/ j[1] \in db'.orgs)
               /\ j[2] = "acls" => /\ j = <<j[1], "acls", j[3], j[4]>> /\ j[3] \in ACLTypes
                                   /\ Exists(db', j[1], j[3], j[4])
    <3>1. CASE j = ClientsACL(o)
      <4>1. j = <<j[1], "acls", j[3], j[4]>> /\ j[3] \in ACLTypes
        BY <3>1 DEF ClientsACL, ACLTypes, ObjectTypes
      <4> QED
        BY <2>2, <2>3, <2>4, <3>1, <4>1
    <3>2. CASE j \in {Default(o), Clients(o), OrgMeta(o), Validator(o)}
      BY <2>2, <2>3, <3>2
    <3> QED
      BY <2>5, <3>1, <3>2 DEF PlanKeys
  <2>6. \A j \in DOMAIN db'.docs \ PlanKeys(o) : j \in DOMAIN db.docs /\ db'.docs[j] = db.docs[j]
    BY <2>2 DEF Same
  <2>7. ASSUME NEW i, Registered(db, i)
        PROVE  Registered(db', i)
    <3>1. CASE i = o
      BY <2>2, <3>1 DEF Registered, PlanKeys
    <3>2. CASE i # o
      <4>1. /\ OrgMeta(i)[4] = i /\ OrgMeta(o)[4] = o /\ OrgMeta(i)[2] = "organizations"
        BY PlanKeyFacts
      <4>2. OrgMeta(i) \notin PlanKeys(o)
        BY <2>3, <3>2, <4>1 DEF PlanKeys
      <4> QED
        BY <2>2, <2>7, <3>2, <4>2 DEF Registered
    <3> QED
      BY <3>1, <3>2
  <2>8. \A j \in DOMAIN db'.docs :
          \/ j \in DOMAIN db.docs /\ (j[2] = "policy_groups" => db'.docs[j] = db.docs[j])
          \/ /\ j[2] \notin {"policy_groups", "databag_items"} /\ (j[1] = "" \/ j[1] \in db'.orgs)
             /\ j[2] = "acls" => /\ j = <<j[1], "acls", j[3], j[4]>> /\ j[3] \in ACLTypes
                                 /\ Exists(db', j[1], j[3], j[4])
    BY <2>5, <2>6
  <2>9. DOMAIN db.docs \subseteq DOMAIN db'.docs /\ db.orgs \subseteq db'.orgs
    BY <2>2
  <2> QED
    BY <1>0, <1>1, <2>7, <2>8, <2>9, Widens
<1> QED
  BY <1>2, <1>3, <1>4, <1>5, <1>6

-----------------------------------------------------------------------------
(* The store comes to rest in order.                                        *)

LEMMA RestInit ==
    ASSUME Init
    PROVE  Rest
<1>1. PICK s \in Scenarios : db = s.db
  BY DEF Init
<1>2. pc = [p \in Procs |-> "idle"]
  BY DEF Init
<1>3. \A k \in DOMAIN db.docs : k = <<k[1], k[2], k[3], k[4]>>
  BY <1>1, SoundScenarios
<1>4. /\ \A k \in DOMAIN db.docs :
           /\ k[1] \in db.orgs \cup {""}
           /\ k[2] = "acls" => k[3] \in ACLTypes /\ ACLObject(db, k)
           /\ k[2] = "databag_items" => Has(db, <<k[1], "data_bags", "", k[3]>>)
           /\ k[2] = "policy_groups" =>
                /\ k[3] = "" /\ k[4] \in Groups
                /\ \A x \in DOMAIN db.docs[k] : Has(db, <<k[1], "policy_revisions", x, db.docs[k][x]>>)
      /\ \A o \in db.orgs : Has(db, OrgMeta(o))
      /\ \A k \in DOMAIN db.docs : k = OrgMeta(k[4]) => k[4] \in db.orgs
  BY <1>1, OrderlyScenarios, Zenon
<1>5. Shape(db) /\ Homes(db)
  BY <1>3, <1>4 DEF Shape, Homes
<1>6. GroupsFine
  BY <1>4 DEF GroupsFine, Deployable, Revision, Has
<1>7. ItemsFine
  <2>1. SUFFICES ASSUME NEW k \in DOMAIN db.docs, k[2] = "databag_items"
                 PROVE  Exists(db, k[1], "data", k[3])
    BY DEF ItemsFine, Kept
  <2>2. <<k[1], "data_bags", "", k[3]>> \in DOMAIN db.docs
    BY <1>4, <2>1 DEF Has
  <2>3. Stands(<<k[1], "data_bags", "", k[3]>>, k[1], "data", k[3])
    BY DEF Stands, Coll
  <2> QED
    BY <2>2, <2>3 DEF Exists
<1>8. ACLsFine
  <2>1. SUFFICES ASSUME NEW k \in DOMAIN db.docs, k[2] = "acls"
                 PROVE  Exists(db, k[1], k[3], k[4])
    BY DEF ACLsFine, Kept
  <2>2. ACLObject(db, k)
    BY <1>4, <2>1
  <2> QED
    BY <2>2, ObjectExists
<1>9. MetasFine
  <2>1. SUFFICES ASSUME NEW o
                 PROVE  Registered(db, o)
    BY DEF MetasFine
  <2>2. PICK k : k = OrgMeta(o)
    OBVIOUS
  <2>3. k[4] = o
    BY <2>2 DEF OrgMeta
  <2> QED
    BY <1>4, <2>2, <2>3 DEF Registered, Has
<1>10. ASSUME NEW p \in Procs
       PROVE  Claims(p)
  BY <1>2 DEF Claims, Placed, Unplaced, Sorted, Held, Stored, Granted, Grants, Seeded, Unlisted, SnapRested
<1>11. Busy = {}
  BY <1>2 DEF Busy
<1> QED
  BY <1>5, <1>6, <1>7, <1>8, <1>9, <1>10, <1>11 DEF Rest, Tidy, Frays

LEMMA RestNext ==
    ASSUME Control, Rest, [Next]_vars
    PROVE  Rest'
<1>0. Typed
  BY DEF Control
<1>1. ASSUME NEW p \in Procs, Begin(p)
      PROVE  Rest'
  BY <1>1, RestBegin
<1>2. ASSUME NEW p \in Procs, Step(p)
      PROVE  Rest'
  <2>1. ReadEffect(p) \/ WriteEffect(p) \/ RollsBack(p)
    BY <1>0, <1>2, StepEffects DEF Effect
  <2> QED
    BY <2>1, RestStep, RestRollback
<1>3. ASSUME NEW p \in Procs, StoreError(p)
      PROVE  Rest'
  BY <1>3, RestError
<1>4. CASE Starts
  BY <1>4, RestStart
<1>5. CASE Crash
  BY <1>5, RestCrash
<1>6. CASE UNCHANGED vars
  <2>1. UNCHANGED <<db, pc, req, loc, frayed, cut, emptied>>
    BY <1>6 DEF vars
  <2>2. \A q \in Procs : Stays(q)
    BY <2>1 DEF Stays
  <2>3. Tidy' /\ \A q \in Procs : Claims(q)'
    BY <1>0, <2>1, <2>2, Pauses DEF Rest
  <2>4. Frays'
    BY <2>1 DEF Rest, Frays, Busy, Clash, Touches, Org
  <2> QED
    BY <2>3, <2>4 DEF Rest
<1> QED
  BY <1>1, <1>2, <1>3, <1>4, <1>5, <1>6, Zenon DEF Next, Done, Starts

LEMMA RestInvariant == Spec => []Rest
<1>1. Init => Rest
  BY RestInit
<1>2. Inv => Control
  BY DEF Inv
<1>3. Control /\ Rest /\ [Next]_vars => Rest'
  BY RestNext
<1> QED
  BY <1>1, <1>2, <1>3, Invariant, PTL DEF Spec

\* At rest nobody is on the way to anything.
LEMMA Idle ==
    ASSUME Busy = {}, NEW p \in Procs
    PROVE  \A k, x, v : ~Sweeps(p, k, x, v) /\ ~Empties(p, k) /\ ~Clears(p, k) /\ ~Making(p, k)
<1>1. pc[p] = "idle"
  BY DEF Busy
<1> QED
  BY <1>1 DEF Sweeps, Empties, Clears, Making

\* Once the requests are answered, a policy group deploys only revisions that
\* are stored (removePolicyFromGroups), but for a group, a policy or an
\* organization that overlapping requests were both about or a failure cut short.
THEOREM GroupsDeployRevisions == Spec => []DeploymentsExist
<1>1. Rest => DeploymentsExist
  <2>1. SUFFICES ASSUME Rest, Busy = {}, NEW k \in DOMAIN db.docs, k[2] = "policy_groups",
                        ~Excused(<<"policy_groups", k[4]>>), NEW x \in DOMAIN db.docs[k]
                 PROVE  \/ Has(db, <<k[1], "policy_revisions", x, db.docs[k][x]>>)
                        \/ Excused(<<"policies", x>>) \/ Excused(<<"organizations", k[1]>>)
    BY DEF DeploymentsExist
  <2>2. Deployable(db, k, x, db.docs[k][x])
    BY <2>1, Idle DEF Rest, Tidy, GroupsFine
  <2> QED
    BY <2>1, <2>2 DEF Deployable, Revision, Loose, Gone, Has
<1> QED
  BY <1>1, RestInvariant, PTL

\* Once the requests are answered, every item is in a bag, every ACL is of an
\* object that exists, every document is in an organization, and the
\* organizations are those with metadata (deleteDataBag, deleteObject,
\* deletePolicy, deleteOrganization), with the same exceptions and but for the
\* ACL of a policy whose last revision was deleted by itself
\* (deletePolicyRevision).
THEOREM OrphansNothing == Spec => []NothingOrphaned
<1>1. Rest => NothingOrphaned
  <2>1. SUFFICES ASSUME Rest, Busy = {}
                 PROVE  NothingOrphaned
    BY DEF NothingOrphaned
  <2>2. ASSUME NEW k \in DOMAIN db.docs, k[1] # "", ~Excused(<<"organizations", k[1]>>)
        PROVE  /\ k[1] \in db.orgs
               /\ k[2] = "databag_items" => \/ Has(db, <<k[1], "data_bags", "", k[3]>>)
                                            \/ Excused(<<"data", k[3]>>)
               /\ k[2] = "acls" => \/ ACLObject(db, k)
                                   \/ Excused(<<k[3], k[4]>>)
                                   \/ k[3] = "policies" /\ k[4] \in emptied
    <3>1. ~Gone(k[1])
      BY <2>2 DEF Gone
    <3>2. k[1] \in db.orgs
      BY <2>1, <2>2, <3>1 DEF Rest, Tidy, Homes
    <3>3. ASSUME k[2] = "databag_items"
          PROVE  Has(db, <<k[1], "data_bags", "", k[3]>>) \/ Excused(<<"data", k[3]>>)
      <4>1. Kept(db, k[1], "data", k[3])
        BY <2>1, <3>3, Idle DEF Rest, Tidy, ItemsFine
      <4>2. CASE Exists(db, k[1], "data", k[3])
        BY <4>2 DEF Exists, Stands, Coll, Has
      <4> QED
        BY <3>1, <4>1, <4>2 DEF Kept, Spared
    <3>4. ASSUME k[2] = "acls"
          PROVE  \/ ACLObject(db, k) \/ Excused(<<k[3], k[4]>>)
                 \/ k[3] = "policies" /\ k[4] \in emptied
      <4>1. Kept(db, k[1], k[3], k[4])
        BY <2>1, <3>4, Idle DEF Rest, Tidy, ACLsFine
      <4> QED
        BY <3>1, <4>1, ObjectExists DEF Kept, Spared
    <3> QED
      BY <3>2, <3>3, <3>4
  <2>3. \A o : (o \in db.orgs <=> Has(db, OrgMeta(o))) \/ Excused(<<"organizations", o>>)
    BY <2>1, Idle DEF Rest, Tidy, MetasFine, Registered, Gone, Has
  <2> QED
    BY <2>2, <2>3, Zenon DEF NothingOrphaned
<1> QED
  BY <1>1, RestInvariant, PTL

=============================================================================
