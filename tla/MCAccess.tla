------------------------------- MODULE MCAccess -----------------------------
(***************************************************************************)
(* The scenarios: an actor's keys and record, creating and deleting        *)
(* actors, updates of ACLs, and one request of each kind of path to probe    *)
(* its classification.  root is the superuser, boss an admin of the          *)
(* organization, u one of its users, c a client and v its validator.         *)
(***************************************************************************)
EXTENDS Access, TLC

const_Trusted == {"root", "boss"}
const_TrustedKeys == {"kr", "kb", "web"}
const_Objects ==
    {<<"containers", "clients">>, <<"groups", "admins">>, <<"groups", "users">>,
     <<"groups", "clients">>, <<"nodes", "n">>, <<"association", "u">>, <<"data_bags", "b">>}

Rec(pub, admin) == [pub |-> pub, admin |-> admin]
Key(pub, exp)   == [pub |-> pub, exp |-> exp]
User(n)   == <<"users", n>>
Client(n) == <<"clients", n>>

Start == [actors |-> User("root") :> Rec("kr", TRUE) @@ User("boss") :> Rec("kb", FALSE)
                     @@ User("u") :> Rec("ku", FALSE) @@ Client("c") :> Rec("kc", FALSE)
                     @@ Client("v") :> Rec("kv", FALSE),
          rows |-> <<"users", "u", "default">> :> Key("ku", "infinity")
                   @@ <<"users", "u", "old">> :> Key("ko", "past"),
          acls |-> <<"containers", "clients">> :> validatorClientsACL("v")
                   @@ Client("c") :> creatorACL("v") @@ <<"nodes", "n">> :> creatorACL("u")
                   @@ User("u") :> creatorACL("root"),
          passwords |-> "u" :> "pw",
          member |-> {<<"admins", "boss">>, <<"users", "boss">>, <<"users", "u">>, <<"clients", "c">>}]
\* The default key has expired, another signs.
Expired == [Start EXCEPT !.rows = <<"users", "u", "default">> :> Key("ku", "past")
                                  @@ <<"users", "u", "old">> :> Key("k2", "infinity")]

Body == [ok |-> TRUE, pub |-> "", createKey |-> FALSE, gen |-> "", admin |-> "absent",
         password |-> "", exp |-> "", name |-> "", validator |-> FALSE]
Base == [op |-> "other", seg |-> "users", name |-> "u", key |-> "", as |-> "root", signer |-> "kr",
         web |-> FALSE, skewed |-> FALSE, api |-> 1, body |-> Body, typ |-> "", obj |-> "",
         perm |-> "read", ace |-> ACE({}, {}), path |-> <<"users">>, method |-> "GET"]
By(as, key, r) == [r EXCEPT !.as = as, !.signer = key]
U(r) == By("u", "ku", r)
B(r) == By("boss", "kb", r)
Op(op, seg, name, b) == [Base EXCEPT !.op = op, !.seg = seg, !.name = name, !.body = b]
KeyOp(op, key, b) == [Base EXCEPT !.op = op, !.key = key, !.body = b]
Pub(pub) == [Body EXCEPT !.pub = pub]
Gen(pub) == [Body EXCEPT !.createKey = TRUE, !.gen = pub]
Rename(n) == [Body EXCEPT !.name = n]
V0(r) == [r EXCEPT !.api = 0]

KeyRequests == {
    KeyOp("putKey", "default", Pub("n1")), U(KeyOp("putKey", "default", Gen("n2"))),
    KeyOp("putKey", "default", [Body EXCEPT !.exp = "past"]),
    KeyOp("putKey", "default", Rename("spare")), KeyOp("putKey", "old", Rename("default")),
    KeyOp("putKey", "old", [Pub("n1") EXCEPT !.name = "spare"]),
    KeyOp("putKey", "none", Pub("n1")), KeyOp("putKey", "default", [Gen("n2") EXCEPT !.pub = "n1"]),
    KeyOp("deleteKey", "default", Body), KeyOp("deleteKey", "old", Body),
    KeyOp("addKey", "default", Pub("n3")), U(KeyOp("addKey", "old", Gen("n3"))),
    KeyOp("addKey", "more", [Body EXCEPT !.ok = FALSE]),
    V0(Op("putActor", "users", "u", Pub("n4"))), V0(Op("putActor", "users", "u", Gen("n5"))),
    U(Op("putActor", "users", "u", [Body EXCEPT !.admin = "true", !.password = "pw2"])),
    Op("putActor", "users", "u", [Body EXCEPT !.admin = "true"]), Op("putActor", "users", "u", Pub("n1")),
    Op("deleteActor", "users", "u", Body),
    U(KeyOp("getKey", "default", Body)), By("u", "k2", KeyOp("listKeys", "", Body)),
    By("u", "n1", Op("getActor", "users", "u", Body))}

\* Three at a time.
KeyChanges == {
    KeyOp("putKey", "default", Pub("n1")), KeyOp("putKey", "default", Rename("spare")),
    KeyOp("putKey", "old", Rename("default")), KeyOp("deleteKey", "default", Body),
    KeyOp("addKey", "default", Pub("n3")), V0(Op("putActor", "users", "u", Pub("n4"))),
    U(KeyOp("getKey", "default", Body)), Op("deleteActor", "users", "u", Body)}

ActorRequests == {
    Op("createActor", "users", "w", [Gen("g1") EXCEPT !.password = "pw"]),
    By("v", "kv", V0(Op("createActor", "clients", "w", Gen("g2")))),
    By("v", "kv", Op("createActor", "clients", "w", [Pub("g2") EXCEPT !.validator = TRUE])),
    By("v", "kv", Op("createActor", "clients", "boss", Pub("g2"))),
    Op("createActor", "users", "c", Body), Op("createActor", "users", "u", Pub("g1")),
    Op("createActor", "users", "w", [Gen("g1") EXCEPT !.pub = "g2"]),
    Op("deleteActor", "users", "u", Body), U(Op("deleteActor", "users", "u", Body)),
    B(Op("deleteActor", "clients", "c", Body)), Op("deleteActor", "clients", "v", Body),
    Op("putActor", "users", "ghost", Body), B(V0(Op("putActor", "clients", "c", Pub("n1")))),
    B(Op("putActor", "clients", "c", Body)),
    U([Op("putACL", "", "", Body) EXCEPT !.typ = "users", !.obj = "u", !.perm = "grant"]),
    B([Op("putACL", "", "", Body) EXCEPT !.typ = "nodes", !.obj = "n", !.ace = ACE({"c"}, {"admins"})]),
    B([Op("deleteKey", "clients", "c", Body) EXCEPT !.key = "default"]), B(Op("listActors", "clients", "", Body)),
    By("c", "kc", Op("getActor", "clients", "c", Body))}

PutACL(typ, obj, perm, ace) ==
    [Base EXCEPT !.op = "putACL", !.typ = typ, !.obj = obj, !.perm = perm, !.ace = ace]
ACLRequests == {
    B(PutACL("containers", "clients", "read", ACE({}, {"admins"}))),
    B(PutACL("containers", "clients", "create", ACE({"u"}, {"admins"}))),
    B(PutACL("containers", "clients", "grant", ACE({"boss"}, {}))),
    B(PutACL("containers", "clients", "grant", ACE({}, {"admins", "users"}))),
    PutACL("containers", "clients", "grant", ACE({}, {})),
    B(PutACL("nodes", "n", "update", ACE({"c"}, {"clients"}))),
    B(PutACL("nodes", "n", "read", ACE({"ghost"}, {}))), B(PutACL("nodes", "m", "read", ACE({}, {}))),
    B(PutACL("nodes", "n", "none", ACE({}, {}))),
    B([PutACL("nodes", "n", "read", ACE({}, {})) EXCEPT !.body.ok = FALSE]),
    U(PutACL("organizations", "o", "grant", ACE({"u"}, {}))), B(PutACL("organizations", "o", "read", ACE({"c"}, {}))),
    PutACL("users", "u", "grant", ACE({"boss"}, {})), B(PutACL("users", "u", "grant", ACE({"boss"}, {}))),
    [B(PutACL("nodes", "n", "read", ACE({}, {}))) EXCEPT !.op = "getACL"],
    Op("deleteActor", "clients", "c", Body), Op("deleteActor", "users", "boss", Body),
    By("v", "kv", Op("createActor", "clients", "w", Pub("g2")))}

O(rest) == <<"organizations", "o">> \o rest
Methods == {"GET", "POST", "PUT", "DELETE"}
Paths == {<<"users">>, <<"users", "root">>, <<"users", "u">>, <<"users", "root", "keys">>,
    <<"users", "root", "keys", "default">>, <<"users", "root", "_acl">>,
    <<"users", "u", "association_requests", "x">>, <<"organizations">>, <<"organizations", "o">>,
    <<"authenticate_user">>, <<"license">>, O(<<"organizations", "_acl", "grant">>), O(<<"_acl">>),
    O(<<"groups", "admins", "_acl", "grant">>), O(<<"groups">>), O(<<"groups", "admins">>),
    O(<<"clients">>), O(<<"clients", "c">>), O(<<"clients", "c", "keys">>), O(<<"nodes">>),
    O(<<"nodes", "n">>), O(<<"nodes", "m">>), O(<<"nodes", "n", "x">>), O(<<"containers">>),
    O(<<"policies", "p">>), O(<<"policies", "p", "revisions">>), O(<<"policy_groups", "g", "policies", "p">>),
    O(<<"data">>), O(<<"data", "b">>), O(<<"data", "b", "i">>), O(<<"data", "b", "i", "x">>),
    O(<<"cookbooks">>), O(<<"cookbooks", "_latest">>), O(<<"cookbooks", "k">>), O(<<"cookbooks", "k", "1">>),
    O(<<"users">>), O(<<"users", "u">>), O(<<"users", "boss">>), O(<<"users", "u", "x">>),
    O(<<"association_requests">>), O(<<"association_requests", "i">>),
    O(<<"sandboxes">>), O(<<"sandboxes", "s">>), O(<<"search", "node">>), O(<<"environments", "e", "cookbook_versions">>),
    O(<<"file_store", "x">>), O(<<"principals", "u">>)}
const_Guarded ==
    {<<m, x>> : m \in {"POST", "PUT", "DELETE"},
                x \in {<<"users">>, <<"users", "root">>, <<"users", "root", "keys">>,
                       <<"users", "root", "keys", "default">>, <<"organizations">>, <<"organizations", "o">>,
                       <<"license">>, O(<<"organizations", "_acl", "grant">>), O(<<"groups">>), O(<<"containers">>),
                       O(<<"groups", "admins">>), O(<<"groups", "admins", "_acl", "grant">>), O(<<"users">>),
                       O(<<"users", "boss">>), O(<<"association_requests">>), O(<<"association_requests", "i">>),
                       O(<<"data", "b", "i", "x">>), O(<<"users", "u", "x">>)}}
    \cup {<<"GET", <<"users">>>>, <<"GET", <<"users", "root">>>>, <<"GET", <<"users", "root", "keys">>>>}
Probes ==
    UNION {{By(a[1], a[2], [Base EXCEPT !.method = m, !.path = x]) : m \in Methods, x \in Paths}
           : a \in {<<"u", "ku">>, <<"c", "kc">>, <<"boss", "kb">>}}
    \cup {U([KeyOp("putKey", "default", Pub("n1")) EXCEPT !.name = "root"]),
          By("root", "ku", Op("listActors", "users", "", Body)),
          [Base EXCEPT !.op = "listActors", !.skewed = TRUE], [Base EXCEPT !.op = "listActors"],
          By("nobody", "ku", Base), U([Op("authenticateUser", "", "u", Body) EXCEPT !.body.password = "pw"]),
          [Op("authenticateUser", "", "u", Body) EXCEPT !.body.password = "bad"],
          [Op("authenticateUser", "", "x", Body) EXCEPT !.body.password = "bad"],
          [By("u", "web", Op("authenticateUser", "", "u", Body)) EXCEPT !.web = TRUE, !.body.password = "pw"]}

Scenario(start, requests, limit) == start @@ [requests |-> requests, limit |-> limit]
const_Scenarios ==
    {Scenario(Start, KeyChanges, 3), Scenario(Start, KeyRequests, 2), Scenario(Expired, KeyRequests, 2),
     Scenario(Start, ActorRequests, 2), Scenario(Start, ACLRequests, 2),
     Scenario([Start EXCEPT !.actors[Client("c")].pub = ""], Probes, 1)}

\* A few requests each, for what the comments of the code say.
const_Rivals == {Scenario(Start, {Op("createActor", "users", "w", Pub("g1")),
                                  By("v", "kv", Op("createActor", "clients", "w", Pub("g2")))}, 2)}
const_Successors == {Scenario(Start, {Op("deleteActor", "users", "u", Body),
                                      Op("createActor", "users", "u", Pub("g1"))}, 2)}
const_Editors == {Scenario(Start, {B(PutACL("nodes", "n", "read", ACE({}, {"admins"}))),
                                   B(PutACL("nodes", "n", "update", ACE({}, {"admins"})))}, 2)}
const_Rotations == {Scenario(Start, {KeyOp("putKey", "default", Pub("n1")), KeyOp("deleteKey", "default", Body),
                                     U(KeyOp("getKey", "default", Body))}, 3)}

Symmetry == Permutations(Procs)

=============================================================================
