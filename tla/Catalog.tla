------------------------------ MODULE Catalog -------------------------------
(***************************************************************************)
(* Objects, data bags, policies and policy groups of the organizations, the *)
(* organizations themselves, and the start of the server that makes the     *)
(* first ones.                                                              *)
(*                                                                          *)
(* No handler here takes a lock: each is a series of store calls, and other *)
(* requests, a store error or a crash come between any two.  The memory     *)
(* backend never fails and ends with the process; its transaction is a      *)
(* snapshot that a failure restores.  The SQLite backend's transaction is   *)
(* one step and its content survives a crash.                               *)
(***************************************************************************)
EXTENDS Backend

CONSTANTS
    Procs,          \* goroutines serving requests
    Scenarios,      \* the backend, its content, the requests on offer, and the bounds on
                    \* requests (limit) and on store errors and crashes (faults)
    BootOrg,        \* the organization the server is configured to start with
    Groups          \* names of policy groups

ASSUME FiniteBounds == \A s \in Scenarios : s.limit \in Nat /\ s.faults \in Nat

VARIABLES
    db,             \* what is stored
    durable,        \* SQLite rather than memory
    boot, fresh, boots,     \* server.New: step, what it must make, how often it ran
    pc, req, loc, out,      \* goroutines: step, request, locals, answer
    offered, left, faults,  \* what may still be asked, and may still fail
    near,           \* history: requests in flight at some moment of p's request
    frayed,         \* history: what overlapping requests were both about
    cut,            \* history: what a failed or crashed request was about
    emptied         \* history: policies whose last revision was deleted by itself

vars == <<db, durable, boot, fresh, boots, pc, req, loc, out, offered, left, faults, near, frayed, cut,
          emptied>>
start   == <<durable, boot, fresh, boots>>

Busy == {p \in Procs : pc[p] # "idle"}

NoLocals == [todo |-> {}, key |-> <<>>, step |-> 0, group |-> [p \in {} |-> ""], snap |-> EmptyStore]

Reply(p, c) == out' = [out EXCEPT ![p] = c] /\ pc' = [pc EXCEPT ![p] = "idle"]
Goto(p, l)  == pc' = [pc EXCEPT ![p] = l] /\ UNCHANGED out
Local(p, l) == loc' = [loc EXCEPT ![p] = l]
Still       == UNCHANGED <<durable, boot, fresh, boots, req, offered, left, faults, near, frayed>>
Fixed       == Still /\ UNCHANGED <<cut, emptied>>
ReadOnly    == Fixed /\ UNCHANGED db

ObjectKey(r)   == <<r.org, r.typ, "", r.name>>
BagKey(r)      == <<r.org, "data_bags", "", r.name>>
ItemKey(r)     == <<r.org, "databag_items", r.name, r.item>>
RevisionKey(r) == <<r.org, "policy_revisions", r.name, r.item>>
GroupKey(r)    == <<r.org, "policy_groups", "", r.group>>
ACLKey(r)      == <<r.org, "acls", r.typ, r.name>>
OrgMeta(org)   == <<"", "organizations", "", org>>
AdminKey       == <<"", "server_keys", "", "admin">>
ValidatorKey   == <<"", "server_keys", "validator", BootOrg>>
AdminUser      == <<"", "users", "", "admin">>
Validator(org) == <<org, "clients", "", "validator">>
ClientsACL(org) == <<org, "acls", "containers", "clients">>

\* aclObjectExists.
ACLObject(d, k) ==
    CASE k[3] = "data"     -> Has(d, <<k[1], "data_bags", "", k[4]>>)
      [] k[3] = "policies" -> CollKeys(d, k[1], "policy_revisions", k[4]) # {}
      [] OTHER             -> Has(d, <<k[1], k[3], "", k[4]>>)

-----------------------------------------------------------------------------
(* Requests, and what two that overlap are both about.                      *)

OrgOps    == {"createOrganization", "putOrganization", "deleteOrganization"}
ReadOps   == {"getObject", "getItem", "listItems", "getPolicy", "getRevision", "getGroup",
              "getGroupPolicy", "getOrganization", "list"}
DeleteOps == {"deleteObject", "deleteDataBag", "deletePolicy", "deleteRevision", "deleteGroup"}
PolicyOps == {"createRevision", "deletePolicy", "deleteRevision", "deployPolicy", "undeployPolicy"}
ObjectOps == {"createObject", "putObject", "deleteObject"}
ItemOps   == {"createItem", "putItem", "deleteItem", "getItem", "listItems"}
Ops       == OrgOps \cup ReadOps \cup DeleteOps \cup PolicyOps \cup ObjectOps \cup ItemOps
             \cup {"createContainer", "createDataBag", "putACL"}

ObjectTypes == {"nodes", "roles", "environments", "containers"}
ACLTypes    == ObjectTypes \cup {"data", "policies", "policy_groups"}

\* Requests are as their routes make them: which operation is about what.
ASSUME RoutedRequests ==
    /\ BootOrg # ""
    /\ \A s \in Scenarios :
        /\ s.requests # {}
        /\ \A r \in s.requests :
            /\ r.op \in Ops /\ r.org # ""
            /\ r.op \in ObjectOps => r.typ \in ObjectTypes
            /\ r.op = "createContainer" => r.typ = "containers"
            /\ r.op \in ItemOps \cup {"createDataBag", "deleteDataBag"} => r.typ = "data"
            /\ r.op \in PolicyOps => r.typ = "policies"
            /\ r.op = "deleteGroup" => r.typ = "policy_groups" /\ r.name = r.group
            /\ r.op \in {"deployPolicy", "undeployPolicy", "deleteGroup"} => r.group \in Groups
            /\ r.op = "putACL" => r.typ \in ACLTypes

\* A server that is up, and a store that a server left, have their keys; an
\* ACL of an older version is in an organization and is not there once up.
ASSUME SoundScenarios ==
    \A s \in Scenarios :
        LET docs == s.db.docs
        IN /\ DOMAIN s.db = {"orgs", "docs"} /\ s.boot \in {"load", "up"}
           /\ \A k \in DOMAIN docs :
                /\ k = <<k[1], k[2], k[3], k[4]>>
                /\ k = ClientsACL(k[1]) /\ docs[k] = "legacy" => s.boot = "load" /\ k[1] \in s.db.orgs
           /\ s.boot = "up" => {AdminKey, ValidatorKey} \subseteq DOMAIN docs
           /\ AdminKey \in DOMAIN docs => AdminUser \in DOMAIN docs /\ docs[AdminUser] = docs[AdminKey]
           /\ ValidatorKey \in DOMAIN docs \/ BootOrg \in s.db.orgs =>
                /\ BootOrg \in s.db.orgs /\ {ValidatorKey, Validator(BootOrg)} \subseteq DOMAIN docs
                /\ docs[Validator(BootOrg)] = docs[ValidatorKey]

\* The content a scenario starts with is in order: nothing was cut short in it.
ASSUME OrderlyScenarios ==
    \A s \in Scenarios :
        LET d == s.db
        IN /\ \A k \in DOMAIN d.docs :
                /\ k[1] \in d.orgs \cup {""}
                /\ k[2] = "acls" => k[3] \in ACLTypes /\ ACLObject(d, k)
                /\ k[2] = "databag_items" => Has(d, <<k[1], "data_bags", "", k[3]>>)
                /\ k[2] = "policy_groups" =>
                     /\ k[3] = "" /\ k[4] \in Groups
                     /\ \A x \in DOMAIN d.docs[k] : Has(d, <<k[1], "policy_revisions", x, d.docs[k][x]>>)
           /\ \A o \in d.orgs : Has(d, OrgMeta(o))
           /\ \A k \in DOMAIN d.docs : k = OrgMeta(k[4]) => k[4] \in d.orgs

Org(r) == <<"organizations", r.org>>
Touches(r) ==
    CASE r.op \in ReadOps -> {}
      [] r.op \in OrgOps  -> {Org(r)}
      [] r.op = "deleteGroup" -> {<<"policy_groups", r.group>>}
      [] r.op \in PolicyOps ->
           {<<"policies", r.name>>} \cup
           {<<"policy_groups", g>> : g \in CASE r.op \in {"deletePolicy", "deleteRevision"} -> Groups
                                             [] r.op = "createRevision" -> {} [] OTHER -> {r.group}}
      [] OTHER -> {<<r.typ, r.name>>}
Clash(r, s) ==
    (IF DeleteOps \cap {r.op, s.op} # {} THEN Touches(r) \cap Touches(s) ELSE {})
    \cup {Org(x) : x \in {x \in {r, s} : r.org = s.org /\ OrgOps \cap {r.op, s.op} # {}}}
    \cup UNION {Touches(x) : x \in {x \in {r, s} : "createOrganization" \in {r.op, s.op}}}

Init ==
    /\ \E s \in Scenarios : /\ db = s.db /\ durable = s.durable /\ boot = s.boot
                            /\ offered = s.requests /\ left = s.limit /\ faults = s.faults
                            /\ req \in [Procs -> {CHOOSE r \in s.requests : TRUE}]
    /\ fresh = {} /\ boots = 0
    /\ pc = [p \in Procs |-> "idle"]
    /\ loc = [p \in Procs |-> NoLocals]
    /\ out = [p \in Procs |-> 0]
    /\ near = [p \in Procs |-> {}]
    /\ frayed = {} /\ cut = {} /\ emptied = {}

Begin(p) ==
    /\ pc[p] = "idle" /\ boot = "up" /\ left > 0
    /\ \E r \in offered :
        /\ req' = [req EXCEPT ![p] = r]
        /\ near' = [q \in Procs |-> IF q = p THEN {req[b] : b \in Busy}
                                    ELSE IF q \in Busy THEN near[q] \cup {r} ELSE near[q]]
        /\ frayed' = frayed \cup UNION {Clash(r, req[b]) : b \in Busy}
        /\ pc' = [pc EXCEPT ![p] = IF r.op \in OrgOps \cup {"getOrganization"} THEN r.op ELSE "org"]
    /\ Local(p, NoLocals)
    /\ out' = [out EXCEPT ![p] = 0]
    /\ left' = left - 1
    /\ UNCHANGED <<db, start, offered, faults, cut, emptied>>

StoreError(p) ==
    /\ durable /\ p \in Busy /\ faults > 0
    /\ Reply(p, 500)
    /\ faults' = faults - 1
    /\ cut' = cut \cup Touches(req[p])
    /\ UNCHANGED <<db, start, req, loc, offered, left, near, frayed, emptied>>

\* API.org.
FindOrg(p) ==
    /\ pc[p] = "org" /\ ReadOnly /\ UNCHANGED loc
    /\ IF req[p].org \in db.orgs THEN Goto(p, req[p].op) ELSE Reply(p, 404)

-----------------------------------------------------------------------------
(* Objects and containers.                                                  *)

\* org.Create.
CreateAt(p, k, val, next) ==
    \/ ~req[p].ok /\ Reply(p, 400) /\ UNCHANGED db
    \/ req[p].ok /\ Has(db, k) /\ Reply(p, 409) /\ UNCHANGED db
    \/ /\ req[p].ok /\ ~Has(db, k) /\ db' = set(db, k, val)
       /\ IF next = "" THEN Reply(p, 201) ELSE Goto(p, next)

CreateObject(p) == /\ pc[p] = "createObject" /\ Fixed /\ UNCHANGED loc
                   /\ CreateAt(p, ObjectKey(req[p]), "doc", "grantCreator")

\* grantCreator: an ACL, or nothing if enforcement is off or nobody is known.
GrantCreator(p) ==
    /\ pc[p] = "grantCreator" /\ Fixed /\ UNCHANGED loc
    /\ db' = set(db, ACLKey(req[p]), "creator") \/ UNCHANGED db
    /\ Reply(p, 201)

CreateContainer(p) ==
    /\ pc[p] = "createContainer" /\ Fixed /\ UNCHANGED loc
    /\ IF req[p].ok THEN db' = set(db, ObjectKey(req[p]), "doc") /\ Reply(p, 201)
       ELSE UNCHANGED db /\ Reply(p, 400)

DefaultEnvironment(r) == r.typ = "environments" /\ r.name = "_default"

\* exists, then the Put.
PutObject(p) ==
    /\ pc[p] = "putObject" /\ ReadOnly /\ UNCHANGED loc
    /\ IF DefaultEnvironment(req[p]) THEN Reply(p, 405)
       ELSE IF ~Has(db, ObjectKey(req[p])) THEN Reply(p, 404)
       ELSE IF ~req[p].ok THEN Reply(p, 400) ELSE Goto(p, "storeObject")

StoreObject(p) ==
    /\ pc[p] = "storeObject" /\ Fixed /\ UNCHANGED loc
    /\ db' = set(db, ObjectKey(req[p]), "put")
    /\ Reply(p, 200)

DeleteObject(p) ==
    /\ pc[p] = "deleteObject" /\ Fixed /\ UNCHANGED loc
    /\ LET k == ObjectKey(req[p])
       IN IF DefaultEnvironment(req[p]) THEN UNCHANGED db /\ Reply(p, 405)
          ELSE IF ~Has(db, k) THEN UNCHANGED db /\ Reply(p, 404)
          ELSE db' = Delete(db, {k}) /\ Goto(p, "deleteACL")

\* Mutant: deleting an object leaves its ACL.
DeleteACLNever(p) == pc[p] = "deleteACL" /\ ReadOnly /\ UNCHANGED loc /\ Reply(p, 200)

\* deleteACL, for objects, bags, policies and policy groups.
DeleteACL(p) ==
    /\ pc[p] = "deleteACL" /\ Fixed /\ UNCHANGED loc
    /\ db' = Delete(db, {ACLKey(req[p])})
    /\ Reply(p, 200)

\* An update of an object's ACL: the object is looked up, then the ACL is put.
PutACL(p) ==
    /\ pc[p] = "putACL" /\ ReadOnly /\ UNCHANGED loc
    /\ IF ACLObject(db, ACLKey(req[p])) THEN Goto(p, "storeACL") ELSE Reply(p, 404)

StoreACL(p) ==
    /\ pc[p] = "storeACL" /\ Fixed /\ UNCHANGED loc
    /\ db' = set(db, ACLKey(req[p]), "custom")
    /\ Reply(p, IF req[p].typ = "policy_groups" THEN 201 ELSE 200)

-----------------------------------------------------------------------------
(* Data bags.                                                               *)

CreateDataBag(p) == /\ pc[p] = "createDataBag" /\ Fixed /\ UNCHANGED loc
                    /\ CreateAt(p, BagKey(req[p]), "doc", "")

DeleteDataBag(p) ==
    /\ pc[p] = "deleteDataBag" /\ Fixed /\ UNCHANGED loc
    /\ IF Has(db, BagKey(req[p])) THEN db' = Delete(db, {BagKey(req[p])}) /\ Goto(p, "listBag")
       ELSE UNCHANGED db /\ Reply(p, 404)

ListItems(p) ==
    /\ pc[p] = "listBag" /\ ReadOnly
    /\ Local(p, [loc[p] EXCEPT !.todo = CollKeys(db, req[p].org, "databag_items", req[p].name)])
    /\ Goto(p, "deleteItems")

DeleteItems(p) ==
    /\ pc[p] = "deleteItems" /\ Fixed
    /\ \/ \E k \in loc[p].todo : /\ db' = Delete(db, {k})
                                 /\ Local(p, [loc[p] EXCEPT !.todo = @ \ {k}])
                                 /\ UNCHANGED <<pc, out>>
       \/ loc[p].todo = {} /\ Goto(p, "deleteACL") /\ UNCHANGED <<db, loc>>

\* bagExists comes first in every operation on an item.
BagExists(p) ==
    /\ pc[p] \in ItemOps /\ ReadOnly /\ UNCHANGED loc
    /\ IF Has(db, BagKey(req[p])) THEN Goto(p, "inBag") ELSE Reply(p, 404)

CreateItem(p) == /\ pc[p] = "inBag" /\ req[p].op = "createItem" /\ Fixed /\ UNCHANGED loc
                 /\ CreateAt(p, ItemKey(req[p]), "doc", "")

PutItem(p) ==
    /\ pc[p] = "inBag" /\ req[p].op = "putItem" /\ ReadOnly /\ UNCHANGED loc
    /\ IF ~Has(db, ItemKey(req[p])) THEN Reply(p, 404)
       ELSE IF ~req[p].ok THEN Reply(p, 400) ELSE Goto(p, "storeItem")

StoreItem(p) ==
    /\ pc[p] = "storeItem" /\ Fixed /\ UNCHANGED loc
    /\ db' = set(db, ItemKey(req[p]), "put")
    /\ Reply(p, 200)

DeleteItem(p) ==
    /\ pc[p] = "inBag" /\ req[p].op = "deleteItem" /\ Fixed /\ UNCHANGED loc
    /\ db' = Delete(db, {ItemKey(req[p])})
    /\ Reply(p, IF Has(db, ItemKey(req[p])) THEN 200 ELSE 404)

-----------------------------------------------------------------------------
(* Policies.  A policy is the revisions stored for it; a group maps         *)
(* policies to the revision deployed.                                       *)

CreateRevision(p) == /\ pc[p] = "createRevision" /\ Fixed /\ UNCHANGED loc
                     /\ CreateAt(p, RevisionKey(req[p]), "doc", "")

\* deletePolicy lists the revisions and deletes each.
ListRevisions(p) ==
    /\ pc[p] = "deletePolicy" /\ ReadOnly
    /\ LET revs == CollKeys(db, req[p].org, "policy_revisions", req[p].name)
       IN IF revs = {} THEN Reply(p, 404) /\ UNCHANGED loc
          ELSE Local(p, [loc[p] EXCEPT !.todo = revs]) /\ Goto(p, "deleteRevisions")

DeleteRevisions(p) ==
    /\ pc[p] = "deleteRevisions" /\ Fixed
    /\ \/ \E k \in loc[p].todo : /\ db' = Delete(db, {k})
                                 /\ Local(p, [loc[p] EXCEPT !.todo = @ \ {k}])
                                 /\ UNCHANGED <<pc, out>>
       \/ loc[p].todo = {} /\ Goto(p, "listGroups") /\ UNCHANGED <<db, loc>>

\* deletePolicyRevision.  The last revision takes the policy with it, and not
\* the policy's ACL.
DeleteRevision(p) ==
    /\ pc[p] = "deleteRevision" /\ Still /\ UNCHANGED <<loc, cut>>
    /\ LET k == RevisionKey(req[p])
           last == CollKeys(db, req[p].org, "policy_revisions", req[p].name) = {k}
       IN IF ~Has(db, k) THEN UNCHANGED <<db, emptied>> /\ Reply(p, 404)
          ELSE /\ db' = Delete(db, {k}) /\ Goto(p, "listGroups")
               /\ emptied' = IF last THEN emptied \cup {req[p].name} ELSE emptied

\* removePolicyFromGroups.
ListGroups(p) ==
    /\ pc[p] = "listGroups" /\ ReadOnly
    /\ Local(p, [loc[p] EXCEPT !.todo = CollKeys(db, req[p].org, "policy_groups", "")])
    /\ Goto(p, "loadGroups")

\* Mutant: every deployment of the policy but those of the revision deleted goes.
AffectedOthers(p, g) ==
    /\ req[p].name \in DOMAIN g
    /\ req[p].op = "deleteRevision" => g[req[p].name] # req[p].item

\* Whether the group deploys the policy, or the revision deleted.
Affected(p, g) ==
    /\ req[p].name \in DOMAIN g
    /\ req[p].op = "deleteRevision" => g[req[p].name] = req[p].item

Undeployed(g, policy) == [x \in DOMAIN g \ {policy} |-> g[x]]

LoadGroups(p) ==
    /\ pc[p] = "loadGroups" /\ ReadOnly
    /\ \/ \E k \in loc[p].todo :
            IF Has(db, k) /\ Affected(p, db.docs[k])
            THEN /\ Local(p, [loc[p] EXCEPT !.group = Undeployed(db.docs[k], req[p].name), !.todo = @ \ {k},
                                            !.key = k])
                 /\ Goto(p, "saveGroups")
            ELSE Local(p, [loc[p] EXCEPT !.todo = @ \ {k}]) /\ UNCHANGED <<pc, out>>
       \/ /\ loc[p].todo = {} /\ UNCHANGED loc
          /\ IF req[p].op = "deletePolicy" THEN Goto(p, "deleteACL") ELSE Reply(p, 200)

SaveGroups(p) ==
    /\ pc[p] = "saveGroups" /\ Fixed /\ UNCHANGED loc
    /\ db' = set(db, loc[p].key, loc[p].group)
    /\ Goto(p, "loadGroups")

\* putGroupPolicy: the revision, then the group is read and put back with it.
DeployPut(p) ==
    /\ pc[p] = "deployPolicy" /\ Fixed /\ UNCHANGED loc
    /\ IF req[p].ok THEN db' = set(db, RevisionKey(req[p]), "doc") /\ Goto(p, "deployLoad")
       ELSE UNCHANGED db /\ Reply(p, 400)

DeployLoad(p) ==
    /\ pc[p] = "deployLoad" /\ ReadOnly
    /\ LET g == IF Has(db, GroupKey(req[p])) THEN db.docs[GroupKey(req[p])] ELSE NoLocals.group
       IN Local(p, [loc[p] EXCEPT !.group = [x \in DOMAIN g \cup {req[p].name} |->
                                               IF x = req[p].name THEN req[p].item ELSE g[x]]])
    /\ Goto(p, "saveGroup")

SaveGroup(p) ==
    /\ pc[p] = "saveGroup" /\ Fixed /\ UNCHANGED loc
    /\ db' = set(db, GroupKey(req[p]), loc[p].group)
    /\ Reply(p, 200)

\* getGroupPolicy and deleteGroupPolicy load the group, then the revision.
LoadGroup(p) ==
    /\ pc[p] \in {"getGroupPolicy", "undeployPolicy"} /\ ReadOnly
    /\ LET k == GroupKey(req[p])
       IN IF ~Has(db, k) \/ (Has(db, k) /\ req[p].name \notin DOMAIN db.docs[k])
          THEN Reply(p, 404) /\ UNCHANGED loc
          ELSE Local(p, [loc[p] EXCEPT !.group = db.docs[k]]) /\ Goto(p, "getDeployed")

GetDeployed(p) ==
    /\ pc[p] = "getDeployed" /\ ReadOnly
    /\ LET name == req[p].name
           found == Has(db, <<req[p].org, "policy_revisions", name, loc[p].group[name]>>)
       IN \/ /\ req[p].op = "getGroupPolicy" /\ UNCHANGED loc
             /\ Reply(p, IF found THEN 200 ELSE 404)
          \/ /\ req[p].op = "undeployPolicy"
             /\ Local(p, [loc[p] EXCEPT !.group = Undeployed(@, name)])
             /\ Goto(p, "saveGroup")

DeleteGroup(p) ==
    /\ pc[p] = "deleteGroup" /\ Fixed /\ UNCHANGED loc
    /\ IF Has(db, GroupKey(req[p])) THEN db' = Delete(db, {GroupKey(req[p])}) /\ Goto(p, "deleteACL")
       ELSE UNCHANGED db /\ Reply(p, 404)

-----------------------------------------------------------------------------
(* Reads.                                                                   *)

getObject(r)         == Has(db, ObjectKey(r))
getDataBagItem(r)    == Has(db, ItemKey(r))
getPolicy(r)         == CollKeys(db, r.org, "policy_revisions", r.name) # {}
getPolicyRevision(r) == Has(db, RevisionKey(r))
getPolicyGroup(r)    == Has(db, GroupKey(r))
getOrganization(r)   == Has(db, OrgMeta(r.org))

\* A list is never missing.
Shown(r) ==
    CASE r.op = "getObject"       -> getObject(r)
      [] r.op = "getItem"         -> getDataBagItem(r)
      [] r.op = "getPolicy"       -> getPolicy(r)
      [] r.op = "getRevision"     -> getPolicyRevision(r)
      [] r.op = "getGroup"        -> getPolicyGroup(r)
      [] r.op = "getOrganization" -> getOrganization(r)
      [] OTHER                    -> TRUE

Get(p) ==
    /\ \/ pc[p] \in {"getObject", "getPolicy", "getRevision", "getGroup", "getOrganization", "list"}
       \/ pc[p] = "inBag" /\ req[p].op \in {"getItem", "listItems"}
    /\ ReadOnly /\ UNCHANGED loc
    /\ Reply(p, IF Shown(req[p]) THEN 200 ELSE 404)

-----------------------------------------------------------------------------
(* Organizations.                                                           *)

\* What CreateOrganizationWithKey writes into a new organization: two seeds,
\* unless they are there, the metadata, the validator and an ACL.
Seeds == {"environments", "containers"}
Plan(org, key) == <<<<<<org, "environments", "", "_default">>, "doc">>,
                    <<<<org, "containers", "", "clients">>, "doc">>,
                    <<OrgMeta(org), "doc">>, <<Validator(org), key>>, <<ClientsACL(org), "seeded">>>>
Provide(d, w) == IF w[1][2] \in Seeds /\ Has(d, w[1]) THEN d ELSE set(d, w[1], w[2])
Founded(d, org, key) ==
    LET w == Plan(org, key)
        seeded == Provide(Provide(CreateOrg(d, org), w[1]), w[2])
    IN Provide(Provide(Provide(seeded, w[3]), w[4]), w[5])

\* SQLite's transaction.
CreateOrganization(p) ==
    /\ pc[p] = "createOrganization" /\ durable /\ Fixed /\ UNCHANGED loc
    /\ \/ ~req[p].ok /\ Reply(p, 400) /\ UNCHANGED db
       \/ req[p].ok /\ req[p].org \in db.orgs /\ Reply(p, 409) /\ UNCHANGED db
       \/ /\ req[p].ok /\ req[p].org \notin db.orgs
          /\ db' = Founded(db, req[p].org, -1) /\ Reply(p, 201)

\* Memory's: a snapshot, the writes one by one, the snapshot again if the name
\* was taken.
Snapshot(p) ==
    /\ pc[p] = "createOrganization" /\ ~durable /\ ReadOnly
    /\ IF req[p].ok THEN Local(p, [loc[p] EXCEPT !.snap = db]) /\ Goto(p, "found")
       ELSE Reply(p, 400) /\ UNCHANGED loc

Found(p) ==
    /\ pc[p] = "found" /\ Fixed
    /\ LET org == req[p].org
       IN IF org \in db.orgs THEN UNCHANGED <<db, loc>> /\ Goto(p, "rollback")
          ELSE /\ db' = CreateOrg(db, org) /\ Goto(p, "provision")
               /\ Local(p, [loc[p] EXCEPT !.step = 1])

Provision(p) ==
    /\ pc[p] = "provision" /\ Fixed
    /\ db' = Provide(db, Plan(req[p].org, -1)[loc[p].step])
    /\ Local(p, [loc[p] EXCEPT !.step = @ + 1])
    /\ IF loc[p].step = 5 THEN Reply(p, 201) ELSE UNCHANGED <<pc, out>>

\* Mutant: the organization is removed, whoever made it.
RollbackDeletes(p) ==
    /\ pc[p] = "rollback" /\ Fixed /\ UNCHANGED loc
    /\ db' = DeleteOrg(db, req[p].org)
    /\ Reply(p, 409)

Rollback(p) ==
    /\ pc[p] = "rollback" /\ Fixed /\ UNCHANGED loc
    /\ db' = loc[p].snap
    /\ Reply(p, 409)

\* putOrganization reads the metadata and puts it back.
PutOrganization(p) ==
    /\ pc[p] = "putOrganization" /\ ReadOnly /\ UNCHANGED loc
    /\ IF ~Has(db, OrgMeta(req[p].org)) THEN Reply(p, 404)
       ELSE IF ~req[p].ok THEN Reply(p, 400) ELSE Goto(p, "storeMeta")

StoreMeta(p) ==
    /\ pc[p] = "storeMeta" /\ Fixed /\ UNCHANGED loc
    /\ db' = set(db, OrgMeta(req[p].org), "doc")
    /\ Reply(p, 200)

DeleteMeta(p) ==
    /\ pc[p] = "deleteOrganization" /\ Fixed /\ UNCHANGED loc
    /\ IF Has(db, OrgMeta(req[p].org))
       THEN db' = Delete(db, {OrgMeta(req[p].org)}) /\ Goto(p, "deleteOrg")
       ELSE UNCHANGED db /\ Reply(p, 404)

DropOrg(p) ==
    /\ pc[p] = "deleteOrg" /\ Fixed /\ UNCHANGED loc
    /\ db' = DeleteOrg(db, req[p].org)
    /\ Reply(p, 200)

-----------------------------------------------------------------------------
(* server.New, and the process dying.  The keys a start makes are its       *)
(* number.                                                                  *)

NoRequests == UNCHANGED <<pc, req, loc, out, offered, left, near, frayed>>
Boot(step, next) == /\ boot = step /\ boot' = next /\ NoRequests
                    /\ UNCHANGED <<durable, faults, cut, emptied>>

LoadKeys ==
    /\ Boot("load", "admin") /\ UNCHANGED db
    /\ fresh' = {k \in {AdminKey, ValidatorKey} : ~Has(db, k)}
    /\ boots' = boots + 1

\* Mutant: the key is stored before the user it is for.
AdminWritesSwapped == <<AdminKey, AdminUser>>

\* The order of the two writes: the user, then its private key.
AdminWrites == <<AdminUser, AdminKey>>

BootAdmin ==
    /\ Boot("admin", "adminKey") /\ UNCHANGED <<fresh, boots>>
    /\ db' = IF AdminKey \in fresh THEN set(db, AdminWrites[1], boots) ELSE db

BootAdminKey ==
    /\ Boot("adminKey", "org") /\ UNCHANGED <<fresh, boots>>
    /\ db' = IF AdminKey \in fresh THEN set(db, AdminWrites[2], boots) ELSE db

\* An organization of the name that has no stored key fails the start.
BootOrganization ==
    /\ UNCHANGED <<fresh, boots>>
    /\ \/ ValidatorKey \notin fresh /\ Boot("org", "upgrade") /\ UNCHANGED db
       \/ ValidatorKey \in fresh /\ BootOrg \in db.orgs /\ Boot("org", "failed") /\ UNCHANGED db
       \/ /\ ValidatorKey \in fresh /\ BootOrg \notin db.orgs /\ Boot("org", "orgKey")
          /\ db' = Founded(db, BootOrg, boots)

BootOrgKey ==
    /\ Boot("orgKey", "upgrade") /\ UNCHANGED <<fresh, boots>>
    /\ db' = set(db, ValidatorKey, boots)

\* upgradeOrgACLs goes through the organizations and rewrites the ACL an older
\* version seeded.
LegacyOrgs == {o \in db.orgs : Has(db, ClientsACL(o)) /\ db.docs[ClientsACL(o)] = "legacy"}
UpgradeOrgACLs ==
    /\ UNCHANGED <<fresh, boots>>
    /\ \/ LegacyOrgs = {} /\ Boot("upgrade", "up") /\ UNCHANGED db
       \/ \E o \in LegacyOrgs : /\ Boot("upgrade", "upgrade")
                                /\ db' = set(db, ClientsACL(o), "seeded")

\* History: what a crash cuts short, requests in flight and a start.
HalfServed == UNION {Touches(req[p]) : p \in Busy}
HalfMade == IF boot = "orgKey" THEN {<<"organizations", BootOrg>>} ELSE {}

\* The process dies, or its start fails on a store error, and is started again.
Crash ==
    /\ durable /\ boot # "failed" /\ faults > 0
    /\ faults' = faults - 1 /\ boot' = "load" /\ fresh' = {}
    /\ cut' = cut \cup HalfServed \cup HalfMade
    /\ pc' = [p \in Procs |-> "idle"]
    /\ UNCHANGED <<db, durable, boots, req, loc, out, offered, left, near, frayed, emptied>>

-----------------------------------------------------------------------------

Step(p) ==
    \/ FindOrg(p) \/ CreateObject(p) \/ GrantCreator(p) \/ CreateContainer(p) \/ PutObject(p)
    \/ StoreObject(p) \/ DeleteObject(p) \/ DeleteACL(p) \/ PutACL(p) \/ StoreACL(p)
    \/ CreateDataBag(p) \/ DeleteDataBag(p) \/ ListItems(p) \/ DeleteItems(p) \/ BagExists(p)
    \/ CreateItem(p) \/ PutItem(p) \/ StoreItem(p) \/ DeleteItem(p)
    \/ CreateRevision(p) \/ ListRevisions(p) \/ DeleteRevisions(p) \/ DeleteRevision(p)
    \/ ListGroups(p) \/ LoadGroups(p) \/ SaveGroups(p) \/ DeployPut(p) \/ DeployLoad(p)
    \/ SaveGroup(p) \/ LoadGroup(p) \/ GetDeployed(p) \/ DeleteGroup(p) \/ Get(p)
    \/ CreateOrganization(p) \/ Snapshot(p) \/ Found(p) \/ Provision(p) \/ Rollback(p)
    \/ PutOrganization(p) \/ StoreMeta(p) \/ DeleteMeta(p) \/ DropOrg(p)

\* The bound on requests is used up, or the server will not start.
Done == (left = 0 \/ boot = "failed") /\ Busy = {} /\ boot \in {"up", "failed"} /\ UNCHANGED vars

Next == \/ \E p \in Procs : Begin(p) \/ Step(p) \/ StoreError(p)
        \/ LoadKeys \/ BootAdmin \/ BootAdminKey \/ BootOrganization \/ BootOrgKey \/ UpgradeOrgACLs
        \/ Crash \/ Done

Spec == Init /\ [][Next]_vars

-----------------------------------------------------------------------------
(* Properties.  At rest, and but for what overlapping requests were both     *)
(* about or a failure cut short.                                             *)

Excused(x) == x \in frayed \cup cut

\* At rest a policy group deploys only revisions that are stored: deleting a
\* policy or a revision takes its deployments out of every group
\* (removePolicyFromGroups: a group naming a revision that is gone "would
\* advertise a deployment that resolves to nothing").
DeploymentsExist ==
    Busy = {} =>
        \A k \in DOMAIN db.docs : k[2] = "policy_groups" /\ ~Excused(<<"policy_groups", k[4]>>) =>
            \A x \in DOMAIN db.docs[k] :
                \/ Has(db, <<k[1], "policy_revisions", x, db.docs[k][x]>>)
                \/ Excused(<<"policies", x>>) \/ Excused(<<"organizations", k[1]>>)

\* At rest every item is in a bag, every ACL is of an object that exists, so
\* that none is inherited by a later object of the name (deleteACL), every
\* document is in an organization, and the organizations are those with
\* metadata (deleteDataBag, deleteObject, deleteOrganization); but a policy that
\* lost its last revision by deletePolicyRevision may have left its ACL.
NothingOrphaned ==
    Busy = {} =>
        /\ \A k \in DOMAIN db.docs : k[1] # "" /\ ~Excused(<<"organizations", k[1]>>) =>
             /\ k[1] \in db.orgs
             /\ k[2] = "databag_items" => \/ Has(db, <<k[1], "data_bags", "", k[3]>>)
                                          \/ Excused(<<"data", k[3]>>)
             /\ k[2] = "acls" => \/ ACLObject(db, k)
                                 \/ Excused(<<k[3], k[4]>>)
                                 \/ k[3] = "policies" /\ k[4] \in emptied
        /\ \A o \in db.orgs \cup {k[4] : k \in CollKeys(db, "", "organizations", "")} :
             (o \in db.orgs <=> Has(db, OrgMeta(o))) \/ Excused(<<"organizations", o>>)

Provisions(org) == {Plan(org, 0)[i][1] : i \in 1 .. 5}

\* What request r may write or delete.
Writes(r, k) ==
    CASE r.op \in ReadOps -> FALSE
      [] r.op = "createOrganization" -> k \in Provisions(r.org)
      [] r.op = "putOrganization"    -> k = OrgMeta(r.org)
      [] r.op = "deleteOrganization" -> k = OrgMeta(r.org) \/ k[1] = r.org
      [] r.op \in {"createItem", "putItem", "deleteItem"} -> k = ItemKey(r)
      [] r.op = "createDataBag" -> k = BagKey(r)
      [] r.op = "deleteDataBag" -> \/ k \in {BagKey(r), ACLKey(r)}
                                   \/ k[1] = r.org /\ k[2] = "databag_items" /\ k[3] = r.name
      [] r.op = "deletePolicy"  -> \/ k = ACLKey(r)
                                   \/ k[1] = r.org /\ k[2] = "policy_revisions" /\ k[3] = r.name
                                   \/ k[1] = r.org /\ k[2] = "policy_groups"
      [] r.op = "deleteRevision" -> k = RevisionKey(r) \/ (k[1] = r.org /\ k[2] = "policy_groups")
      [] r.op \in {"createRevision", "deployPolicy", "undeployPolicy"} -> k \in {RevisionKey(r), GroupKey(r)}
      [] r.op = "deleteGroup"   -> k \in {GroupKey(r), ACLKey(r)}
      [] r.op = "putACL"        -> k = ACLKey(r)
      [] OTHER                  -> k \in {ObjectKey(r), ACLKey(r)}

\* Of a group, a request about one policy changes nothing that another policy
\* deploys, unless a request about the group, or a transaction that may have
\* put an older group back, overlapped it.
OthersKept(p, k) ==
    \/ k[2] # "policy_groups"
    \/ ~(Has(db, k) /\ Has(db', k))
    \/ \A x \in DOMAIN db.docs[k] \ {req[p].name} :
          x \in DOMAIN db'.docs[k] /\ db'.docs[k][x] = db.docs[k][x]
    \/ \E r \in near[p] : Writes(r, k) \/ r.op = "createOrganization"

\* A stored document changes or disappears only by a request that is about it
\* (of a policy group, only the entry it is about), or, in the snapshot that a
\* failed memory transaction restores (memoryBackend.Tx), if a request that
\* overlapped it is about it or was such a transaction itself.  A start of the
\* server replaces nothing but an admin user whose key was not stored, the ACL
\* an older version seeded, and what is left of an organization that is gone:
\* credentials survive a restart.
WritesLast ==
    [][\A k \in DOMAIN db.docs :
        \/ Has(db', k) /\ db'.docs[k] = db.docs[k]
        \/ \E p \in Busy : /\ <<pc[p], loc[p]>>' # <<pc[p], loc[p]>>
                           /\ \/ Writes(req[p], k) /\ OthersKept(p, k)
                              \/ pc[p] = "rollback" /\ \E r \in near[p] : Writes(r, k) \/ r.op = "createOrganization"
        \/ /\ boot # "up"
           /\ \/ k = AdminUser /\ ~Has(db, AdminKey)
              \/ k[2] = "acls" /\ db.docs[k] = "legacy"
              \/ BootOrg \notin db.orgs /\ (k[1] = BootOrg \/ k = OrgMeta(BootOrg))]_vars

\* A server that is up holds the private key of the admin user and, whatever
\* crashed before, a private key for the validator client of the organization it
\* is configured with, and its ACLs are upgraded.  That organization is there and
\* its validator's key is the one held as long as no request creates, updates or
\* deletes it: where one is on offer nothing is said of them.  Only a crash after
\* the organization was created and before its key was stored makes a start fail
\* (server.New).
BootKeys ==
    /\ boot = "up" =>
         /\ {AdminUser, AdminKey, ValidatorKey} \subseteq DOMAIN db.docs
         /\ db.docs[AdminUser] = db.docs[AdminKey]
         /\ (\A r \in offered : r.org = BootOrg => r.op \notin OrgOps) =>
                /\ BootOrg \in db.orgs /\ Has(db, Validator(BootOrg))
                /\ db.docs[Validator(BootOrg)] = db.docs[ValidatorKey]
         /\ LegacyOrgs = {}
    /\ boot = "failed" => <<"organizations", BootOrg>> \in cut

-----------------------------------------------------------------------------
(* What the comments of the code say without these exceptions; only failures *)
(* and requests about the organization itself are excepted.                  *)

Whole(k) == Busy = {} /\ <<"organizations", k[1]>> \notin frayed \cup cut

\* At rest no ACL outlives the object it governs (deleteACL: one left behind "is
\* silently applied to the next object created under the same name").
NoACLOutlives ==
    \A k \in DOMAIN db.docs :
        Whole(k) /\ k[2] = "acls" /\ ~Excused(<<k[3], k[4]>>) => ACLObject(db, k)

\* At rest a group deploys only revisions that are stored, deployments and
\* deletes of the policy overlapping or not (deletePolicy: "The deployment goes
\* with the policy").
DeploymentsGoToo ==
    \A k \in DOMAIN db.docs : Whole(k) /\ k[2] = "policy_groups" =>
        \A x \in DOMAIN db.docs[k] :
            \/ Has(db, <<k[1], "policy_revisions", x, db.docs[k][x]>>)
            \/ <<"policies", x>> \in cut \/ <<"policy_groups", k[4]>> \in cut

\* At rest every item is in a bag, creates of the item and deletes of the bag
\* overlapping or not (deleteDataBag: "Remove the bag's items too").
ItemsGoToo ==
    \A k \in DOMAIN db.docs : Whole(k) /\ k[2] = "databag_items" =>
        Has(db, <<k[1], "data_bags", "", k[3]>>) \/ <<"data", k[3]>> \in cut

=============================================================================
