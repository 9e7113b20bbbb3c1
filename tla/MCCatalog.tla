----------------------------- MODULE MCCatalog ------------------------------
(***************************************************************************)
(* The scenarios: objects and data bags, policies, organizations on either   *)
(* backend, and starts of the server on an empty store, and on one that an   *)
(* older version left.                                                       *)
(***************************************************************************)
EXTENDS Catalog, TLC

Older == [orgs |-> {"o"},
          docs |-> AdminUser :> 0 @@ AdminKey :> 0 @@ ValidatorKey :> 0
                   @@ OrgMeta("o") :> "doc" @@ Validator("o") :> 0 @@ ClientsACL("o") :> "legacy"
                   @@ <<"o", "containers", "", "clients">> :> "doc"
                   @@ <<"o", "environments", "", "_default">> :> "doc"]
Plain  == set(Older, ClientsACL("o"), "seeded")
Things == [Plain EXCEPT !.docs = @ @@ <<"o", "nodes", "", "n">> :> "doc"
                   @@ <<"o", "acls", "nodes", "n">> :> "creator"
                   @@ <<"o", "data_bags", "", "b">> :> "doc" @@ <<"o", "databag_items", "b", "i">> :> "doc"
                   @@ <<"o", "acls", "data", "b">> :> "custom"]
Deployed == [Plain EXCEPT !.docs = @ @@ <<"o", "policy_revisions", "p", "1">> :> "doc"
                   @@ <<"o", "policy_revisions", "p", "2">> :> "doc" @@ <<"o", "policy_revisions", "q", "1">> :> "doc"
                   @@ <<"o", "acls", "policies", "p">> :> "custom" @@ <<"o", "acls", "policy_groups", "dev">> :> "custom"
                   @@ <<"o", "policy_groups", "", "dev">> :> ("p" :> "1" @@ "q" :> "1")
                   @@ <<"o", "policy_groups", "", "prod">> :> ("p" :> "2")]
\* Another organization, which an older version left as well.
TwoOrgs == [Older EXCEPT !.orgs = @ \cup {"x"},
                         !.docs = @ @@ OrgMeta("x") :> "doc" @@ ClientsACL("x") :> "legacy"
                                    @@ <<"x", "containers", "", "clients">> :> "doc"]

Base == [op |-> "list", org |-> "o", typ |-> "nodes", name |-> "n", item |-> "", group |-> "", ok |-> TRUE]
Object(op, typ, name) == [Base EXCEPT !.op = op, !.typ = typ, !.name = name]
Item(op, bag, item) == [Base EXCEPT !.op = op, !.typ = "data", !.name = bag, !.item = item]
Policy(op, policy, rev, group) ==
    [Base EXCEPT !.op = op, !.typ = "policies", !.name = policy, !.item = rev, !.group = group]
Group(op, group) == [Base EXCEPT !.op = op, !.typ = "policy_groups", !.name = group, !.group = group]
OrgOp(op, org) == [Base EXCEPT !.op = op, !.org = org]
Bad(r) == [r EXCEPT !.ok = FALSE]

ObjectRequests == {
    Object("createObject", "nodes", "n"), Object("createObject", "nodes", "m"), Bad(Object("createObject", "nodes", "m")),
    Object("putObject", "nodes", "n"), Bad(Object("putObject", "nodes", "n")), Object("putObject", "nodes", "m"),
    Object("deleteObject", "nodes", "n"), Object("putObject", "environments", "_default"),
    Object("deleteObject", "environments", "_default"), Object("createContainer", "containers", "clients"),
    Bad(Object("createContainer", "containers", "clients")), Object("deleteObject", "containers", "clients"),
    Object("putACL", "nodes", "n"), Object("getObject", "nodes", "n"), Base}
BagRequests == {
    Item("createDataBag", "b", ""), Bad(Item("createDataBag", "b", "")), Item("deleteDataBag", "b", ""),
    Item("createItem", "b", "i"), Item("createItem", "b", "j"), Bad(Item("createItem", "b", "j")),
    Item("putItem", "b", "i"), Bad(Item("putItem", "b", "i")), Item("putItem", "b", "j"),
    Item("deleteItem", "b", "i"), Item("getItem", "b", "i"), Item("listItems", "b", ""), Item("putACL", "b", "")}
PolicyRequests == {
    Policy("createRevision", "p", "1", ""), Policy("createRevision", "p", "3", ""), Bad(Policy("createRevision", "p", "3", "")),
    Policy("deletePolicy", "p", "", ""), Policy("deletePolicy", "q", "", ""), Policy("deleteRevision", "p", "1", ""),
    Policy("deleteRevision", "p", "2", ""), Policy("deleteRevision", "q", "1", ""), Policy("deployPolicy", "p", "3", "prod"),
    Policy("deployPolicy", "q", "1", "test"), Bad(Policy("deployPolicy", "q", "1", "test")),
    Policy("undeployPolicy", "p", "", "dev"), Policy("getGroupPolicy", "p", "", "dev"),
    Policy("getPolicy", "p", "", ""), Policy("getRevision", "p", "1", ""), Group("getGroup", "dev"),
    Group("deleteGroup", "dev"), Group("putACL", "dev"), Policy("putACL", "p", "", "")}
OrgRequests == {
    OrgOp("createOrganization", "o"), OrgOp("createOrganization", "x"), Bad(OrgOp("createOrganization", "x")),
    OrgOp("putOrganization", "o"), OrgOp("putOrganization", "x"), Bad(OrgOp("putOrganization", "o")),
    OrgOp("deleteOrganization", "o"), OrgOp("deleteOrganization", "x"), OrgOp("getOrganization", "x"),
    Object("putObject", "nodes", "n"), Item("createItem", "b", "j"), Object("createObject", "nodes", "m")}
\* Deployments into one group while a transaction fails.
UndoneRequests == {
    OrgOp("createOrganization", "o"), Policy("deployPolicy", "p", "3", "prod"), Policy("deployPolicy", "q", "1", "prod")}

Scenario(content, disk, at, requests, limit, n) ==
    [db |-> content, durable |-> disk, boot |-> at, requests |-> requests, limit |-> limit, faults |-> n]
const_Scenarios ==
    UNION {{Scenario(x[1], FALSE, "up", x[2], 3, 0), Scenario(x[1], TRUE, "up", x[2], 2, 1)}
           : x \in {<<Things, ObjectRequests>>, <<Things, BagRequests>>, <<Things, OrgRequests>>,
                    <<Deployed, PolicyRequests>>, <<Deployed, UndoneRequests>>}}
    \cup {Scenario(x, TRUE, "load", {Base, Object("createObject", "nodes", "m")}, 1, 2)
          : x \in {EmptyStore, TwoOrgs}}

\* A few requests each, for what the comments of the code say.
const_LastRevision == {Scenario(Deployed, FALSE, "up", {Policy("deleteRevision", "p", "1", ""),
                                                       Policy("deleteRevision", "p", "2", "")}, 2, 0)}
const_Deployment == {Scenario(Deployed, FALSE, "up", {Policy("deletePolicy", "p", "", ""),
                                                     Policy("deployPolicy", "p", "3", "prod")}, 2, 0)}
const_NewItem == {Scenario(Things, FALSE, "up", {Item("deleteDataBag", "b", ""),
                                                Item("createItem", "b", "j")}, 2, 0)}

Symmetry == Permutations(Procs)

=============================================================================
