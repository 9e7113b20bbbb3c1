------------------------------- MODULE Access -------------------------------
(***************************************************************************)
(* Actors, the keys that authenticate them, their passwords, and the ACLs   *)
(* that govern what they may do.                                            *)
(*                                                                          *)
(* A request is authenticated (who signed it, with which of the actor's     *)
(* keys), authorized (what it needs, does the object exist, does the ACL    *)
(* allow it) and handled.  Each of these reads the store for itself, and    *)
(* only creating and deleting an actor take a lock, API.membership: what    *)
(* one step read may have changed by the next.  Enforcement is on.  A       *)
(* handler of another module answers 200 as soon as it is reached.          *)
(*                                                                          *)
(* One organization, Org; an actor is <<segment, name>>.  Group membership  *)
(* is a set of pairs here; Membership has it in detail.                     *)
(***************************************************************************)
EXTENDS Enforcement

CONSTANTS
    Procs,          \* goroutines serving requests
    Scenarios,      \* what is stored at the start, the requests on offer, how many are served
    Objects,        \* <<type, name>> of objects other than actors
    Org,            \* the organization's name
    WebKey,         \* the web console's key
    Trusted,        \* users whose authority the others must not gain
    TrustedKeys,    \* their keys, and the web console's
    Guarded,        \* <<method, path>> only they may use
    MaxErrors,      \* bound: store calls that fail
    NoKey, Nobody

ASSUME FiniteBounds == MaxErrors \in Nat /\ \A s \in Scenarios : s.limit \in Nat

Segs      == {"users", "clients"}
KeyWrites == {"addKey", "putKey", "deleteKey"}
Writes    == {"createActor", "putActor", "deleteActor", "putACL"} \cup KeyWrites
Ops       == Writes \cup {"listActors", "getActor", "listKeys", "getKey", "getACL",
                          "authenticateUser", "other"}

\* aclObjectTypes, and the two that have routes of their own.
aclTypes == {"clients", "containers", "cookbooks", "cookbook_artifacts", "data", "environments",
             "groups", "nodes", "policies", "policy_groups", "roles", "organizations", "users"}

\* A request without a requester's name is refused before it gets here, the
\* route of an operation on actors fixes the kind of actor, and objects are not
\* actors.
ASSUME RoutedRequests ==
    /\ Nobody \notin Procs
    /\ \A x \in Objects : x[1] \notin Segs
    /\ \A s \in Scenarios : /\ s.requests # {}
                            /\ \A r \in s.requests :
                                 /\ r.op \in Ops /\ r.as # ""
                                 /\ r.op \in {"createActor", "putActor", "deleteActor"} => r.seg \in Segs
                                 /\ r.op = "putACL" => /\ DOMAIN r.ace = {"actors", "groups"}
                                                      /\ r.typ \in aclTypes

IsACL(acl) == DOMAIN acl = aclPerms /\ \A perm \in aclPerms : DOMAIN acl[perm] = {"actors", "groups"}

\* What is stored at the start is in order: no name twice, keys, ACLs and
\* memberships only of actors that exist, the default key the same in both places.
ASSUME SoundScenarios ==
    \A s \in Scenarios :
        LET living == {a[2] : a \in DOMAIN s.actors}
        IN /\ \A a \in DOMAIN s.actors :
                /\ a = <<a[1], a[2]>> /\ a[1] \in Segs /\ DOMAIN s.actors[a] = {"pub", "admin"}
                /\ ~(<<"users", a[2]>> \in DOMAIN s.actors /\ <<"clients", a[2]>> \in DOMAIN s.actors)
           /\ \A k \in DOMAIN s.rows :
                /\ k = <<k[1], k[2], k[3]>> /\ <<k[1], k[2]>> \in DOMAIN s.actors
                /\ DOMAIN s.rows[k] = {"pub", "exp"}
                /\ k[3] = "default" => s.rows[k].pub = s.actors[<<k[1], k[2]>>].pub
           /\ \A k \in DOMAIN s.acls :
                /\ k = <<k[1], k[2]>> /\ IsACL(s.acls[k])
                /\ k[1] \in Segs => k \in DOMAIN s.actors
                /\ \A perm \in aclPerms : \A n \in s.acls[k][perm].actors :
                      n \in living /\ (k[1] = "users" => <<"users", n>> \in DOMAIN s.actors)
           /\ \A m \in s.member : m[2] \in living

VARIABLES
    actors,         \* <<segment, name>> -> its record
    rows,           \* <<segment, name, key name>> -> a stored key
    acls,           \* <<type, name>> -> a stored ACL
    passwords,      \* user -> its password
    member,         \* <<group, name>>
    readers, writer,        \* API.membership
    pc, req, loc, out,      \* goroutines: step, request, locals, answer
    offered, left,          \* the scenario's requests, and how many are still to come
    errors,
    near,           \* history: requests in flight at some moment of p's request
    frayed,         \* history: names that two overlapping writes were about
    failed,         \* history: names that a failed write was about
    byAdmin,        \* history: the holder of a trusted key has sent a request
    valid           \* history: keys listed for p's requester at some moment of its request

store   == <<actors, rows, acls, passwords, member>>
locks   == <<readers, writer>>
vars    == <<actors, rows, acls, passwords, member, readers, writer, pc, req, loc, out,
             offered, left, errors, near, frayed, failed, byAdmin, valid>>

Busy == {p \in Procs : pc[p] # "idle"}

NoRecord  == [pub |-> NoKey, admin |-> FALSE]
NoOne     == [name |-> Nobody, client |-> FALSE, super |-> FALSE, web |-> FALSE]
NoLocals  == [seg |-> "clients", rec |-> NoRecord, who |-> NoOne, preread |-> FALSE,
              pub |-> NoKey, row |-> [pub |-> NoKey, exp |-> "infinity"], acl |-> defaultACL,
              todo |-> {}]

Target(p) == <<req[p].seg, req[p].name>>
KeyRow(a, key) == <<a[1], a[2], key>>
Reply(p, c) == out' = [out EXCEPT ![p] = c] /\ pc' = [pc EXCEPT ![p] = "idle"]
Goto(p, l)  == pc' = [pc EXCEPT ![p] = l] /\ UNCHANGED out
Local(p, l) == loc' = [loc EXCEPT ![p] = l]
Fixed       == UNCHANGED <<req, offered, left, errors, near, frayed, failed, byAdmin>>
Lockless    == Fixed /\ UNCHANGED locks
ReadOnly    == Lockless /\ UNCHANGED store

With(f, k, v) == [x \in DOMAIN f \cup {k} |-> IF x = k THEN v ELSE f[x]]
Less(f, K)    == [x \in DOMAIN f \ K |-> f[x]]

-----------------------------------------------------------------------------
(* Definitions shared by the steps.                                         *)

keyExpired(exp) == exp = "past"

\* Mutant: the actor's own key counts whether or not a row has taken its place.
SigningKeysAlways(a, pub) ==
    {rows[k].pub : k \in {k \in DOMAIN rows : <<k[1], k[2]>> = a /\ ~keyExpired(rows[k].exp)}}
    \cup ({pub} \ {NoKey})

SigningKeys(a, pub) ==
    {rows[k].pub : k \in {k \in DOMAIN rows : <<k[1], k[2]>> = a /\ ~keyExpired(rows[k].exp)}}
    \cup (IF KeyRow(a, "default") \in DOMAIN rows THEN {} ELSE {pub} \ {NoKey})

\* Reference: a key of the list the keys API shows, not marked expired there.
Listed(a) ==
    IF a \notin DOMAIN actors THEN {}
    ELSE LET own == {k \in DOMAIN rows : k[1] = a[1] /\ k[2] = a[2]}
             synthetic == \A k \in own : k[3] # "default"
         IN {rows[k].pub : k \in {k \in own : rows[k].exp # "past"}}
            \cup {x \in {actors[a].pub} : synthetic /\ x # NoKey}

loadACL(k) == IF k \in DOMAIN acls THEN acls[k] ELSE fallbackACL(k[1], k[2])
ACLTarget(r) == <<r.typ, r.obj>>
GroupsOf(name) == {m[1] : m \in {m \in member : m[2] = name}}

\* aclObjectExists, and the existence check of a classified request.
Exists(typ, name) == \/ typ = "organizations"
                     \/ <<typ, name>> \in DOMAIN actors \cup Objects

\* The path a request's operation is registered under.
PathOf(r) ==
    LET base == IF r.seg = "clients" THEN <<"organizations", Org, "clients">> ELSE <<"users">>
        acl  == CASE r.typ = "users" -> <<"users", r.obj, "_acl">>
                  [] r.typ = "organizations" -> <<"organizations", Org, "organizations", "_acl">>
                  [] OTHER -> <<"organizations", Org, r.typ, r.obj, "_acl">>
    IN CASE r.op \in {"createActor", "listActors"} -> base
         [] r.op \in {"getActor", "putActor", "deleteActor"} -> Append(base, r.name)
         [] r.op \in {"listKeys", "addKey"} -> base \o <<r.name, "keys">>
         [] r.op \in {"getKey", "putKey", "deleteKey"} -> base \o <<r.name, "keys", r.key>>
         [] r.op = "getACL" -> acl
         [] r.op = "putACL" -> Append(acl, r.perm)
         [] r.op = "authenticateUser" -> <<"authenticate_user">>
         [] OTHER -> r.path

MethodOf(r) ==
    CASE r.op \in {"createActor", "addKey", "authenticateUser"} -> "POST"
      [] r.op \in {"putActor", "putKey", "putACL"} -> "PUT"
      [] r.op \in {"deleteActor", "deleteKey"} -> "DELETE"
      [] r.op = "other" -> r.method
      [] OTHER -> "GET"

-----------------------------------------------------------------------------
(* Requests, and what the histories make of two that overlap.               *)

Touches(r) == CASE r.op = "putACL" -> r.ace.actors
                [] r.op = "createActor" -> {r.name, r.as}
                [] r.op \in Writes \ {"putACL", "createActor"} -> {r.name}
                [] OTHER -> {}
Clash(r, s) == (Touches(r) \cap Touches(s))
               \cup UNION {Touches(x[1]) : x \in {x \in {<<r, s>>, <<s, r>>} :
                             x[1].op = "deleteActor" /\ x[2].op = "putACL"}}

Init ==
    /\ \E s \in Scenarios : /\ actors = s.actors /\ rows = s.rows /\ acls = s.acls
                            /\ passwords = s.passwords /\ member = s.member
                            /\ offered = s.requests /\ left = s.limit
                            /\ req \in [Procs -> {CHOOSE r \in s.requests : TRUE}]
    /\ readers = {} /\ writer = Nobody
    /\ pc = [p \in Procs |-> "idle"]
    /\ loc = [p \in Procs |-> NoLocals]
    /\ out = [p \in Procs |-> 0]
    /\ errors = 0
    /\ near = [p \in Procs |-> {}]
    /\ frayed = {} /\ failed = {} /\ byAdmin = FALSE
    /\ valid = [p \in Procs |-> {}]

Begin(p) ==
    /\ pc[p] = "idle" /\ left > 0
    /\ \E r \in offered :
        /\ req' = [req EXCEPT ![p] = r]
        /\ near' = [q \in Procs |-> IF q = p THEN {req[b] : b \in Busy}
                                    ELSE IF q \in Busy THEN near[q] \cup {r} ELSE near[q]]
        /\ frayed' = frayed \cup UNION {Clash(r, req[b]) : b \in Busy}
        /\ byAdmin' = (byAdmin \/ r.signer \in TrustedKeys)
    /\ pc' = [pc EXCEPT ![p] = "auth"]
    /\ Local(p, NoLocals)
    /\ out' = [out EXCEPT ![p] = 0]
    /\ left' = left - 1
    /\ UNCHANGED <<actors, rows, acls, passwords, member, readers, writer, offered, errors, failed>>

\* p lets go of API.membership if it holds it.
Release(p) == readers' = readers \ {p} /\ writer' = IF writer = p THEN Nobody ELSE writer

\* Any step but the ones that stay off the store may meet an error.
StoreError(p) ==
    /\ pc[p] \notin {"idle", "authorize", "other"} /\ errors < MaxErrors
    /\ Reply(p, 500) /\ Release(p)
    /\ errors' = errors + 1
    /\ failed' = failed \cup Touches(req[p])
    /\ UNCHANGED <<actors, rows, acls, passwords, member, req, loc, offered, left, near, frayed, byAdmin>>

-----------------------------------------------------------------------------
(* authMiddleware and authorize.                                            *)

\* resolveAuth reads the record: an org's client before a global user.
ReadActor(p) ==
    /\ pc[p] = "auth" /\ ReadOnly
    /\ LET r == req[p]
           scoped == PathOf(r)[1] = "organizations" /\ Len(PathOf(r)) >= 2
           seg == IF loc[p].seg = "clients" /\ scoped /\ <<"clients", r.as>> \in DOMAIN actors
                  THEN "clients" ELSE "users"
       IN \/ /\ <<seg, r.as>> \notin DOMAIN actors
             /\ Reply(p, 401) /\ UNCHANGED loc
          \/ /\ <<seg, r.as>> \in DOMAIN actors
             /\ Local(p, [loc[p] EXCEPT !.seg = seg, !.rec = actors[<<seg, r.as>>]])
             /\ Goto(p, "keys")

\* SigningKeys reads the rows; an actor without a usable key is not found.
\* The web console's own key signs for the user it names.
ReadKeys(p) ==
    /\ pc[p] = "keys" /\ ReadOnly
    /\ LET r == req[p]
           keys == SigningKeys(<<loc[p].seg, r.as>>, loc[p].rec.pub)
           signed == IF r.web THEN r.signer = WebKey ELSE r.signer \in keys
       IN \/ /\ keys = {} /\ loc[p].seg = "clients"
             /\ Local(p, [loc[p] EXCEPT !.seg = "users"]) /\ Goto(p, "auth")
          \/ /\ keys = {} /\ loc[p].seg = "users"
             /\ Reply(p, 401) /\ UNCHANGED loc
          \/ /\ keys # {} /\ (~signed \/ r.skewed)
             /\ Reply(p, 401) /\ UNCHANGED loc
          \/ /\ keys # {} /\ signed /\ ~r.skewed
             /\ Local(p, [loc[p] EXCEPT !.who =
                    [name |-> r.as, client |-> loc[p].seg = "clients", web |-> r.web,
                     super |-> loc[p].seg = "users" /\ loc[p].rec.admin]])
             /\ Goto(p, "authorize")

Check(p) == classifyRequest(MethodOf(req[p]), PathOf(req[p]))

\* authorize, up to its first read.
Authorize(p) ==
    /\ pc[p] = "authorize" /\ ReadOnly /\ UNCHANGED loc
    /\ LET c == Check(p)  who == loc[p].who
       IN \/ /\ \/ who.super
                \/ c = Unclassified /\ ~refuseUnclassifiedWrite(MethodOf(req[p]), PathOf(req[p]))
                \/ c # Unclassified /\ c.self = who.name
             /\ Goto(p, req[p].op)
          \/ /\ ~who.super
             /\ \/ c = Unclassified /\ refuseUnclassifiedWrite(MethodOf(req[p]), PathOf(req[p]))
                \/ c.kind = "superuser" /\ c.self # who.name
             /\ Reply(p, 403)
          \/ /\ ~who.super /\ c.kind = "acl" /\ c.self # who.name
             /\ Goto(p, IF c.exist # <<>> THEN "exist" ELSE "allowed")

\* A missing object is a 404 before it is a 403; what was read of a collection
\* is handed to the handler (withPreread).
Exist(p) ==
    /\ pc[p] = "exist" /\ ReadOnly
    /\ LET e == Check(p).exist
           there == Exists(e[2], e[3]) /\ (e[2] = "users" => Check(p).global)
       IN \/ ~there /\ Reply(p, 404) /\ UNCHANGED loc
          \/ /\ there
             /\ Local(p, [loc[p] EXCEPT
                    !.preread = e[1] = "coll",
                    !.rec = IF <<e[2], e[3]>> \in DOMAIN actors THEN actors[<<e[2], e[3]>>] ELSE @])
             /\ Goto(p, "allowed")

\* actorAllowed: the ACL, and if it does not name the actor, its groups; the
\* global space has none.
ActorAllowed(p) ==
    /\ pc[p] = "allowed" /\ ReadOnly /\ UNCHANGED loc
    /\ LET c == Check(p)
           groups == IF c.global THEN {} ELSE GroupsOf(loc[p].who.name)
       IN IF aceAllows(loadACL(<<c.typ, c.name>>)[c.perm], loc[p].who.name, groups)
          THEN Goto(p, req[p].op) ELSE Reply(p, 403)

-----------------------------------------------------------------------------
(* createActor.                                                             *)

actorNameCollision(seg, name) ==
    IF seg = "clients" THEN <<"users", name>> \in DOMAIN actors
    ELSE <<"clients", name>> \in DOMAIN actors

\* The key a new actor gets: the one it brings, or a generated one.
NewKey(b, api) == IF b.pub # NoKey THEN b.pub
                  ELSE IF api = 0 \/ b.createKey THEN b.gen ELSE NoKey

CreateActor(p) ==
    /\ pc[p] = "createActor" /\ ReadOnly
    /\ LET r == req[p]  b == r.body
           contradictory == r.api >= 1 /\ b.createKey /\ b.pub # NoKey
       IN \/ /\ ~b.ok \/ contradictory
             /\ Reply(p, 400) /\ UNCHANGED loc
          \/ /\ b.ok /\ ~contradictory /\ actorNameCollision(r.seg, r.name)
             /\ Reply(p, 409) /\ UNCHANGED loc
          \/ /\ b.ok /\ ~contradictory /\ ~actorNameCollision(r.seg, r.name)
             /\ Local(p, [loc[p] EXCEPT !.rec = [pub |-> NewKey(b, r.api),
                                                 admin |-> b.admin = "true"]])
             /\ Goto(p, IF b.password # "" THEN "stash" ELSE "create")

\* StashPassword, for a create and for an update.
StashPassword(p) ==
    /\ pc[p] = "stash" /\ Lockless /\ UNCHANGED <<actors, rows, acls, member, loc>>
    /\ passwords' = IF req[p].seg = "users" THEN With(passwords, req[p].name, req[p].body.password)
                    ELSE passwords
    /\ Goto(p, IF req[p].op = "createActor" THEN "create" ELSE "putRecord")

Create(p) ==
    /\ pc[p] = "create" /\ writer = Nobody /\ Fixed /\ UNCHANGED <<rows, acls, passwords, member, loc, writer>>
    /\ \/ /\ Target(p) \in DOMAIN actors
          /\ Reply(p, 409) /\ UNCHANGED <<actors, readers>>
       \/ /\ Target(p) \notin DOMAIN actors
          /\ actors' = With(actors, Target(p), loc[p].rec)
          /\ readers' = readers \cup {p}
          /\ Goto(p, "grantCreator")

GrantCreator(p) ==
    /\ pc[p] = "grantCreator" /\ Fixed /\ UNCHANGED <<actors, rows, passwords, member, loc>>
    /\ acls' = With(acls, Target(p), creatorACL(loc[p].who.name))
    /\ IF req[p].seg = "clients" /\ ~req[p].body.validator
       THEN Goto(p, "join") /\ UNCHANGED locks ELSE Reply(p, 201) /\ Release(p)

\* addClientToOrgGroup.
JoinClients(p) ==
    /\ pc[p] = "join" /\ Fixed /\ UNCHANGED <<actors, rows, acls, passwords, loc>>
    /\ member' = member \cup {<<"clients", req[p].name>>}
    /\ Reply(p, 201) /\ Release(p)

-----------------------------------------------------------------------------
(* scopedList, scopedGet and scopedPut.                                     *)

GetActor(p) ==
    /\ pc[p] \in {"getActor", "listActors"} /\ ReadOnly /\ UNCHANGED loc
    /\ Reply(p, IF pc[p] = "listActors" \/ loc[p].preread \/ Target(p) \in DOMAIN actors
                THEN 200 ELSE 404)

\* Mutant: an update does not ask whether the actor is there.
PutActorUnchecked(p) ==
    /\ pc[p] = "putActor" /\ ReadOnly
    /\ Local(p, [loc[p] EXCEPT !.rec = [pub |-> req[p].body.pub, admin |-> req[p].body.admin = "true"]])
    /\ Goto(p, IF req[p].seg = "users" THEN "merge" ELSE "key")

\* exists, from what authorize read if it did; from API v1 on key fields are
\* refused.
PutActor(p) ==
    /\ pc[p] = "putActor" /\ ReadOnly
    /\ LET r == req[p]
           there == loc[p].preread \/ Target(p) \in DOMAIN actors
           refused == ~r.body.ok \/ (r.api >= 1 /\ (r.body.pub # NoKey \/ r.body.createKey))
       IN \/ ~there /\ Reply(p, 404) /\ UNCHANGED loc
          \/ there /\ refused /\ Reply(p, 400) /\ UNCHANGED loc
          \/ /\ there /\ ~refused
             /\ Local(p, [loc[p] EXCEPT !.rec = [pub |-> r.body.pub, admin |-> r.body.admin = "true"]])
             /\ Goto(p, IF r.seg = "users" THEN "merge" ELSE "key")

\* mergeUser: what the body leaves out keeps its stored value.
MergeUser(p) ==
    /\ pc[p] = "merge" /\ ReadOnly
    /\ LET stored == IF Target(p) \in DOMAIN actors THEN actors[Target(p)] ELSE NoRecord
           b == req[p].body
       IN Local(p, [loc[p] EXCEPT !.rec =
             [pub   |-> IF b.pub = NoKey THEN stored.pub ELSE b.pub,
              admin |-> IF b.admin = "absent" THEN stored.admin ELSE b.admin = "true"]])
    /\ Goto(p, "key")

\* The key to store: a regenerated one (createKey stands for v0's private_key
\* flag), the body's or merged one, for which the stored default row is looked
\* up (setStoredDefaultPublicKey), or else the stored one (storedPublicKey).
ChooseKey(p) ==
    /\ pc[p] = "key" /\ ReadOnly
    /\ LET pub == IF req[p].body.createKey THEN req[p].body.gen ELSE loc[p].rec.pub
           row == KeyRow(Target(p), "default")
       IN \/ /\ pub # NoKey /\ row \in DOMAIN rows
             /\ Local(p, [loc[p] EXCEPT !.rec.pub = pub, !.row = [rows[row] EXCEPT !.pub = pub]])
             /\ Goto(p, "defaultRow")
          \/ /\ pub # NoKey /\ row \notin DOMAIN rows
             /\ Local(p, [loc[p] EXCEPT !.rec.pub = pub])
             /\ Goto(p, "privilege")
          \/ /\ pub = NoKey
             /\ Local(p, [loc[p] EXCEPT !.rec.pub =
                    IF Target(p) \in DOMAIN actors THEN actors[Target(p)].pub ELSE NoKey])
             /\ Goto(p, "privilege")

PutDefaultRow(p) ==
    /\ pc[p] = "defaultRow" /\ Lockless /\ UNCHANGED <<actors, acls, passwords, member, loc>>
    /\ rows' = With(rows, KeyRow(Target(p), "default"), loc[p].row)
    /\ Goto(p, "privilege")

\* Mutant: the body's admin flag is stored, whoever sends it.
PreservePrivilegeNot(p) ==
    /\ pc[p] = "privilege" /\ ReadOnly /\ UNCHANGED loc
    /\ Goto(p, IF req[p].body.password # "" THEN "stash" ELSE "putRecord")

\* preservePrivilege: only the superuser changes a user's admin flag.
PreservePrivilege(p) ==
    /\ pc[p] = "privilege" /\ ReadOnly
    /\ Local(p, IF req[p].seg = "users" /\ ~loc[p].who.super
                THEN [loc[p] EXCEPT !.rec.admin =
                        Target(p) \in DOMAIN actors /\ actors[Target(p)].admin]
                ELSE loc[p])
    /\ Goto(p, IF req[p].body.password # "" THEN "stash" ELSE "putRecord")

PutRecord(p) ==
    /\ pc[p] = "putRecord" /\ Lockless /\ UNCHANGED <<rows, acls, passwords, member, loc>>
    /\ actors' = With(actors, Target(p), loc[p].rec)
    /\ Reply(p, 200)

-----------------------------------------------------------------------------
(* scopedDelete: under the lock, everything that names the actor goes       *)
(* before the actor; its memberships of groups and its invitations in one   *)
(* step here.                                                               *)

DeleteActor(p) ==
    /\ pc[p] = "deleteActor" /\ writer = Nobody /\ readers = {} /\ Fixed
    /\ UNCHANGED <<store, readers, loc>>
    /\ \/ /\ Target(p) \notin DOMAIN actors
          /\ Reply(p, 404) /\ UNCHANGED writer
       \/ /\ Target(p) \in DOMAIN actors
          /\ writer' = p /\ Goto(p, IF req[p].seg = "users" THEN "usersACLs" ELSE "orgACLs")

Without(acl, name) == [perm \in aclPerms |-> [acl[perm] EXCEPT !.actors = @ \ {name}]]
Names(acl, name) == \E perm \in aclPerms : name \in acl[perm].actors

\* removeFromACLs: read all ACLs of the global space or of the organization,
\* then put back each one that names the actor, as it was read, without it.
RangeACLs(p) ==
    /\ pc[p] \in {"usersACLs", "orgACLs"} /\ ReadOnly
    /\ LET name == req[p].name
           named == {k \in DOMAIN acls : (k[1] = "users") = (pc[p] = "usersACLs") /\ Names(acls[k], name)}
       IN Local(p, [loc[p] EXCEPT !.todo = {<<k, Without(acls[k], name)>> : k \in named}])
    /\ Goto(p, IF pc[p] = "usersACLs" THEN "putUsersACLs" ELSE "putOrgACLs")

PutCleanACL(p) ==
    /\ pc[p] \in {"putUsersACLs", "putOrgACLs"} /\ Lockless
    /\ UNCHANGED <<actors, rows, passwords, member>>
    /\ \/ \E x \in loc[p].todo : /\ acls' = With(acls, x[1], x[2])
                                 /\ Local(p, [loc[p] EXCEPT !.todo = @ \ {x}])
                                 /\ UNCHANGED <<pc, out>>
       \/ /\ loc[p].todo = {}
          /\ Goto(p, IF pc[p] = "putOrgACLs" /\ req[p].seg = "users" THEN "ownACL" ELSE "leaveGroups")
          /\ UNCHANGED <<acls, loc>>

LeaveGroups(p) ==
    /\ pc[p] = "leaveGroups" /\ Lockless /\ UNCHANGED <<actors, rows, acls, passwords, loc>>
    /\ member' = {m \in member : m[2] # req[p].name}
    /\ Goto(p, IF req[p].seg = "users" THEN "orgACLs" ELSE "ownACL")

DeleteOwnACL(p) ==
    /\ pc[p] = "ownACL" /\ Lockless /\ UNCHANGED <<actors, rows, passwords, member, loc>>
    /\ acls' = Less(acls, {Target(p)})
    /\ Goto(p, "listRows")

KeyRows(a) == {k \in DOMAIN rows : <<k[1], k[2]>> = a}

\* Mutant: the keys outlive the actor.
ListKeyRowsNone(p) ==
    /\ pc[p] = "listRows" /\ ReadOnly
    /\ Local(p, [loc[p] EXCEPT !.todo = {}])
    /\ Goto(p, "deleteRows")

\* deleteActorKeys: the names first, then each row.
ListKeyRows(p) ==
    /\ pc[p] = "listRows" /\ ReadOnly
    /\ Local(p, [loc[p] EXCEPT !.todo = KeyRows(Target(p))])
    /\ Goto(p, "deleteRows")

DeleteKeyRow(p) ==
    /\ pc[p] = "deleteRows" /\ Lockless /\ UNCHANGED <<actors, acls, passwords, member>>
    /\ \E k \in loc[p].todo :
        /\ rows' = Less(rows, {k})
        /\ Local(p, [loc[p] EXCEPT !.todo = @ \ {k}])
    /\ UNCHANGED <<pc, out>>

DeleteRecord(p) ==
    /\ pc[p] = "deleteRows" /\ loc[p].todo = {} /\ Fixed
    /\ UNCHANGED <<rows, acls, passwords, member, loc>>
    /\ actors' = Less(actors, {Target(p)})
    /\ Reply(p, IF Target(p) \in DOMAIN actors THEN 200 ELSE 404) /\ Release(p)

-----------------------------------------------------------------------------
(* The keys of an actor.                                                    *)

Row(p) == KeyRow(Target(p), req[p].key)

\* loadActor.
LoadActor(p) ==
    /\ pc[p] \in {"listKeys", "getKey"} \cup KeyWrites /\ ReadOnly
    /\ \/ Target(p) \notin DOMAIN actors /\ Reply(p, 404) /\ UNCHANGED loc
       \/ /\ Target(p) \in DOMAIN actors
          /\ Local(p, [loc[p] EXCEPT !.rec = actors[Target(p)]])
          /\ Goto(p, "loaded")

\* listKeys and getKey, the default key being a row or the actor's own.
ShowKeys(p) ==
    /\ pc[p] = "loaded" /\ req[p].op \in {"listKeys", "getKey"} /\ ReadOnly /\ UNCHANGED loc
    /\ Reply(p, IF \/ req[p].op = "listKeys" \/ Row(p) \in DOMAIN rows
                   \/ req[p].key = "default" /\ loc[p].rec.pub # NoKey
                THEN 200 ELSE 404)

AddKey(p) ==
    /\ pc[p] = "loaded" /\ req[p].op = "addKey"
    /\ Lockless /\ UNCHANGED <<actors, acls, passwords, member>>
    /\ LET b == req[p].body
           pub == IF b.pub = NoKey THEN b.gen ELSE b.pub
           taken == \/ req[p].key = "default" /\ loc[p].rec.pub # NoKey
                    \/ Row(p) \in DOMAIN rows
       IN \/ ~b.ok /\ Reply(p, 400) /\ UNCHANGED <<rows, loc>>
          \/ b.ok /\ taken /\ Reply(p, 409) /\ UNCHANGED <<rows, loc>>
          \/ /\ b.ok /\ ~taken
             /\ rows' = With(rows, Row(p), [pub |-> pub, exp |-> b.exp])
             /\ Local(p, [loc[p] EXCEPT !.pub = pub])
             /\ IF req[p].key = "default" THEN Goto(p, "setNewPub") ELSE Reply(p, 201)

\* putKey up to its first write: the stored row, or the synthetic default key,
\* with the fields of the body put over it.
PutKeyGet(p) ==
    /\ pc[p] = "loaded" /\ req[p].op = "putKey" /\ ReadOnly
    /\ LET b == req[p].body
           stored == Row(p) \in DOMAIN rows
           found == stored \/ (req[p].key = "default" /\ loc[p].rec.pub # NoKey)
           old == IF stored THEN rows[Row(p)] ELSE [pub |-> loc[p].rec.pub, exp |-> "infinity"]
           new == IF b.createKey THEN b.gen ELSE b.pub
           row == [pub |-> IF new = NoKey THEN old.pub ELSE new,
                   exp |-> IF b.exp = "" THEN old.exp ELSE b.exp]
           renamed == stored /\ b.name \notin {"", req[p].key}
       IN \/ /\ ~b.ok \/ (b.createKey /\ b.pub # NoKey)
             /\ Reply(p, 400) /\ UNCHANGED loc
          \/ b.ok /\ ~(b.createKey /\ b.pub # NoKey) /\ ~found /\ Reply(p, 404) /\ UNCHANGED loc
          \/ /\ b.ok /\ ~(b.createKey /\ b.pub # NoKey) /\ found
             /\ Local(p, [loc[p] EXCEPT !.row = row, !.pub = row.pub])
             /\ Goto(p, IF renamed THEN "renameCreate" ELSE "putRow")

\* Mutant: the default key is replaced in its row only.
PutRowOnly(p) ==
    /\ pc[p] = "putRow" /\ Lockless /\ UNCHANGED <<actors, acls, passwords, member, loc>>
    /\ rows' = With(rows, Row(p), loc[p].row)
    /\ Reply(p, 200)

PutRow(p) ==
    /\ pc[p] = "putRow" /\ Lockless /\ UNCHANGED <<actors, acls, passwords, member, loc>>
    /\ rows' = With(rows, Row(p), loc[p].row)
    /\ IF req[p].key = "default" THEN Goto(p, "setPub") ELSE Reply(p, 200)

NewRow(p) == KeyRow(Target(p), req[p].body.name)

RenameCreate(p) ==
    /\ pc[p] = "renameCreate" /\ Lockless /\ UNCHANGED <<actors, acls, passwords, member, loc>>
    /\ \/ /\ NewRow(p) \in DOMAIN rows \/ (req[p].body.name = "default" /\ loc[p].rec.pub # NoKey)
          /\ Reply(p, 409) /\ UNCHANGED rows
       \/ /\ NewRow(p) \notin DOMAIN rows /\ ~(req[p].body.name = "default" /\ loc[p].rec.pub # NoKey)
          /\ rows' = With(rows, NewRow(p), loc[p].row)
          /\ Goto(p, "renameDelete")

\* Mutant: renaming the default key away leaves the actor's own as it was.
RenameDeleteKeepsOwn(p) ==
    /\ pc[p] = "renameDelete" /\ Lockless /\ UNCHANGED <<actors, acls, passwords, member, loc>>
    /\ rows' = Less(rows, {Row(p)})
    /\ IF req[p].body.name = "default" THEN Goto(p, "setNewPub") ELSE Reply(p, 201)

\* Renaming the default key away clears the actor's own; renaming a key onto
\* "default" sets it.
RenameDelete(p) ==
    /\ pc[p] = "renameDelete" /\ Lockless /\ UNCHANGED <<actors, acls, passwords, member>>
    /\ rows' = Less(rows, {Row(p)})
    /\ Local(p, IF req[p].key = "default" THEN [loc[p] EXCEPT !.pub = NoKey] ELSE loc[p])
    /\ IF "default" \in {req[p].key, req[p].body.name} THEN Goto(p, "setNewPub") ELSE Reply(p, 201)

\* deleteKey: the row, and the actor's own key if that was the default.
DeleteKey(p) ==
    /\ pc[p] = "loaded" /\ req[p].op = "deleteKey"
    /\ Lockless /\ UNCHANGED <<actors, acls, passwords, member>>
    /\ LET own == req[p].key = "default" /\ loc[p].rec.pub # NoKey
       IN /\ rows' = Less(rows, {Row(p)})
          /\ Local(p, [loc[p] EXCEPT !.pub = NoKey])
          /\ IF own THEN Goto(p, "setPub")
             ELSE Reply(p, IF Row(p) \in DOMAIN rows THEN 200 ELSE 404)

\* setActorPublicKey: the record as loadActor read it, with this key.  A key that
\* was added or renamed is answered 201, one that was replaced or deleted 200.
SetActorPublicKey(p) ==
    /\ pc[p] \in {"setPub", "setNewPub"} /\ Lockless /\ UNCHANGED <<rows, acls, passwords, member, loc>>
    /\ actors' = With(actors, Target(p), [loc[p].rec EXCEPT !.pub = loc[p].pub])
    /\ Reply(p, IF pc[p] = "setNewPub" THEN 201 ELSE 200)

-----------------------------------------------------------------------------
(* ACLs and passwords.                                                      *)

\* aclObjectFound, for reading and for updating an ACL.
FindACLObject(p) ==
    /\ pc[p] \in {"getACL", "putACL"} /\ ReadOnly /\ UNCHANGED loc
    /\ IF req[p].perm \notin aclPerms \/ ~Exists(req[p].typ, req[p].obj) THEN Reply(p, 404)
       ELSE IF pc[p] = "getACL" THEN Reply(p, 200)
       ELSE IF req[p].body.ok THEN Goto(p, "keepAdmins") ELSE Reply(p, 400)

\* removesAdminsFromGrant; a global user's ACL is not checked.
KeepAdmins(p) ==
    /\ pc[p] = "keepAdmins" /\ ReadOnly /\ UNCHANGED loc
    /\ LET r == req[p]
       IN IF /\ r.typ # "users" /\ r.perm = "grant" /\ ~loc[p].who.super
             /\ "admins" \notin r.ace.groups /\ "admins" \in loadACL(ACLTarget(r))["grant"].groups
          THEN Reply(p, 403) ELSE Goto(p, "aceMembers")

\* unknownACEMembers: actors are users, or clients of the organization.
UnknownACEMembers(p) ==
    /\ pc[p] = "aceMembers" /\ ReadOnly /\ UNCHANGED loc
    /\ LET r == req[p]
           segs == IF r.typ = "users" THEN {"users"} ELSE {"users", "clients"}
           known == /\ \A n \in r.ace.actors : \E s \in segs : <<s, n>> \in DOMAIN actors
                    /\ r.typ # "users" => \A g \in r.ace.groups : Exists("groups", g)
       IN IF known THEN Goto(p, "loadACL") ELSE Reply(p, 400)

\* Mutant: the other permissions are taken from the fallback, not from what is stored.
LoadACLFallback(p) ==
    /\ pc[p] = "loadACL" /\ ReadOnly
    /\ Local(p, [loc[p] EXCEPT !.acl =
                    [fallbackACL(req[p].typ, req[p].obj) EXCEPT ![req[p].perm] = req[p].ace]])
    /\ Goto(p, "storeACL")

LoadACL(p) ==
    /\ pc[p] = "loadACL" /\ ReadOnly
    /\ Local(p, [loc[p] EXCEPT !.acl = [loadACL(ACLTarget(req[p])) EXCEPT ![req[p].perm] = req[p].ace]])
    /\ Goto(p, "storeACL")

StoreACL(p) ==
    /\ pc[p] = "storeACL" /\ Lockless /\ UNCHANGED <<actors, rows, passwords, member, loc>>
    /\ acls' = With(acls, ACLTarget(req[p]), loc[p].acl)
    /\ Reply(p, IF req[p].typ = "policy_groups" THEN 201 ELSE 200)

\* authenticateUser: for the superuser and the web console only.
AuthenticateUser(p) ==
    /\ pc[p] = "authenticateUser" /\ ReadOnly /\ UNCHANGED loc
    /\ \/ ~loc[p].who.super /\ ~loc[p].who.web /\ Reply(p, 403)
       \/ /\ loc[p].who.super \/ loc[p].who.web
          /\ IF <<"users", req[p].name>> \in DOMAIN actors THEN Goto(p, "password") ELSE Reply(p, 401)

VerifyPassword(p) ==
    /\ pc[p] = "password" /\ ReadOnly /\ UNCHANGED loc
    /\ Reply(p, IF /\ req[p].name \in DOMAIN passwords
                   /\ passwords[req[p].name] = req[p].body.password THEN 200 ELSE 401)

\* A handler of another module is reached.
Other(p) == pc[p] = "other" /\ ReadOnly /\ UNCHANGED loc /\ Reply(p, 200)

-----------------------------------------------------------------------------

Step(p) ==
    \/ ReadActor(p) \/ ReadKeys(p) \/ Authorize(p) \/ Exist(p) \/ ActorAllowed(p)
    \/ CreateActor(p) \/ StashPassword(p) \/ Create(p) \/ GrantCreator(p) \/ JoinClients(p)
    \/ GetActor(p) \/ PutActor(p) \/ MergeUser(p) \/ ChooseKey(p) \/ PutDefaultRow(p)
    \/ PreservePrivilege(p) \/ PutRecord(p)
    \/ DeleteActor(p) \/ RangeACLs(p) \/ PutCleanACL(p) \/ LeaveGroups(p) \/ DeleteOwnACL(p)
    \/ ListKeyRows(p) \/ DeleteKeyRow(p) \/ DeleteRecord(p)
    \/ LoadActor(p) \/ ShowKeys(p) \/ AddKey(p) \/ PutKeyGet(p) \/ PutRow(p)
    \/ RenameCreate(p) \/ RenameDelete(p) \/ DeleteKey(p) \/ SetActorPublicKey(p)
    \/ FindACLObject(p) \/ KeepAdmins(p) \/ UnknownACEMembers(p) \/ LoadACL(p) \/ StoreACL(p)
    \/ AuthenticateUser(p) \/ VerifyPassword(p) \/ Other(p)

\* The history of keys listed for each requester.
Track ==
    LET now(q) == UNION {{<<s, x>> : x \in Listed(<<s, req[q].as>>)} : s \in {"users", "clients"}}
    IN valid' = [q \in Procs |-> IF pc'[q] = "idle" THEN valid[q]
                                 ELSE IF pc[q] = "idle" THEN now(q)' ELSE valid[q] \cup now(q)']

\* The bound on requests is used up; nothing is left in flight.
Done == left = 0 /\ Busy = {} /\ UNCHANGED vars

Next == (\E p \in Procs : (Begin(p) \/ Step(p) \/ StoreError(p)) /\ Track) \/ Done

Spec == Init /\ [][Next]_vars

-----------------------------------------------------------------------------
(* Correctness.                                                             *)

Steps(p) == pc'[p] # pc[p] \/ loc'[p] # loc[p]
Answers(p) == pc[p] # "idle" /\ pc'[p] = "idle" /\ out'[p] \in {200, 201}

\* The default key's row and the actor's own public key agree once no request
\* is in flight, unless writes to the actor overlapped or one failed half-way
\* (keys.go: "the two never disagree about which key material is the default").
DefaultInStep ==
    Busy = {} => \A a \in DOMAIN actors :
        LET row == KeyRow(a, "default")
        IN a[2] \notin frayed \cup failed /\ row \in DOMAIN rows => rows[row].pub = actors[a].pub

\* What the keys API shows under a name.
Shown(a, key) ==
    LET row == KeyRow(a, key)
    IN IF a \notin DOMAIN actors THEN NoKey
       ELSE IF row \in DOMAIN rows THEN rows[row].pub
       ELSE IF key = "default" THEN actors[a].pub ELSE NoKey

\* When a key operation is answered with success, the key it deleted or renamed
\* is shown no more (the default does not come back as the actor's own), and the
\* public key it brought is shown under the new name if the answer says renamed
\* (201 to a PUT) and under the key's own name if not, unless other writes to the
\* actor overlapped it or had failed before (putKey and deleteKey change two
\* objects in turn).
KeyWritesTake ==
    [][\A p \in Procs : LET r == req[p]  b == r.body IN
        Answers(p) /\ r.op \in KeyWrites /\ r.name \notin frayed \cup failed =>
            /\ r.op = "deleteKey" => Shown(Target(p), r.key)' = NoKey
            /\ r.op = "putKey" /\ out'[p] = 201 =>
                 /\ Shown(Target(p), r.key)' = NoKey
                 /\ b.pub # NoKey => Shown(Target(p), b.name)' = b.pub
            /\ b.pub # NoKey /\ (r.op = "addKey" \/ (r.op = "putKey" /\ out'[p] = 200)) =>
                 Shown(Target(p), r.key)' = b.pub]_vars

\* The keys, the ACLs and the memberships of an actor do not outlive it: once no
\* request is in flight, every stored key, every ACL of an actor, every actor an
\* ACL names and every member of a group is an actor that exists, even after a
\* delete that failed part-way; an overlapping write to the same actor may leave
\* something behind (scopedDelete's ordering).  Passwords are NewUserNewPassword's.
NothingInherited ==
    Busy = {} =>
        LET living == {a[2] : a \in DOMAIN actors} \cup frayed
        IN /\ \A k \in DOMAIN rows : <<k[1], k[2]>> \in DOMAIN actors \/ k[2] \in frayed
           /\ \A k \in DOMAIN acls :
                /\ k[1] \in {"users", "clients"} => k \in DOMAIN actors \/ k[2] \in frayed
                /\ \A perm \in aclPerms : acls[k][perm].actors \subseteq living
           /\ \A m \in member : m[2] \in living

\* An actor that is not there appears only by a create of it, or is written back
\* by an update or a key operation that a delete of it overlapped (scopedPut and
\* the key handlers check for the actor and Put it later, without a lock).
NoRevival ==
    [][\A a \in DOMAIN actors' \ DOMAIN actors :
        \E p \in Procs : /\ Steps(p) /\ Target(p) = a
                         /\ \/ req[p].op = "createActor"
                            \/ \E r \in near[p] : r.op = "deleteActor" /\ <<r.seg, r.name>> = a]_vars

\* Requests that may give an actor another default key, and those that take the
\* row of its default key away.
Rotates(r, name) == r.op \in {"putActor", "addKey", "putKey"} /\ r.name = name
Removes(r, name) ==
    /\ r.name = name /\ r.op \in {"deleteActor", "deleteKey", "putKey"}
    /\ r.op # "deleteActor" => r.key = "default"
    /\ r.op = "putKey" => r.body.name \notin {"", "default"}
Swapped(p) == \E r, s \in near[p] : Rotates(r, req[p].as) /\ Removes(s, req[p].as)
Troubled(p) == req[p].as \in frayed /\ \E r \in near[p] : req[p].as \in Touches(r)

\* A request runs as an actor only if it was signed with a key that the keys API
\* listed as unexpired for that actor at some moment of the request, although
\* resolveAuth reads the record and the key rows one after the other; or if the
\* web console signed it; or if other writes to the actor overlapped it, one that
\* rotates the default key and one that takes the new row away, or one of several
\* that overlapped each other (SigningKeys: "the single definition of that set").
KeysAuthenticate ==
    \A p \in Busy : LET who == loc[p].who IN
        who # NoOne => \/ who.web /\ req[p].signer = WebKey
                       \/ Swapped(p) \/ Troubled(p)
                       \/ <<IF who.client THEN "clients" ELSE "users", req[p].signer>> \in valid[p]

\* What the admins have kept to themselves at the start, with the permission to
\* change that, and the requests that therefore only they, or the superuser, may
\* send.
AdminsOnly(ace) == ace.actors \subseteq Trusted /\ ace.groups \subseteq {"admins"}
Reserved(k, perm) ==
    /\ k[1] \notin Segs /\ perm \in aclPerms
    /\ \A s \in Scenarios : \A x \in {"grant", perm} :
          AdminsOnly(IF k \in DOMAIN s.acls THEN s.acls[k][x] ELSE fallbackACL(k[1], k[2])[x])
Shut(method, path) ==
    LET c == classifyRequest(method, path)
    IN IF c = Unclassified THEN refuseUnclassifiedWrite(method, path)
       ELSE /\ c.self \in Trusted \cup {""}
            /\ c.kind = "acl" => Reserved(<<c.typ, c.name>>, c.perm)

\* The trusted are users, with keys of their own; only they are superusers or
\* admins; and the guarded requests are among those the table shuts to others.
ASSUME TrustedStart ==
    /\ WebKey \in TrustedKeys
    /\ \A g \in Guarded : Shut(g[1], g[2])
    /\ \A k \in Objects \cup {<<"organizations", Org>>} :
          k[1] \in {"organizations", "groups", "containers"} => Reserved(k, "grant")
    /\ \A s \in Scenarios :
          /\ \A a \in DOMAIN s.actors : a[1] = "users" /\ s.actors[a].admin => a[2] \in Trusted
          /\ \A u \in Trusted : /\ <<"users", u>> \in DOMAIN s.actors /\ <<"clients", u>> \notin DOMAIN s.actors
                                 /\ s.actors[<<"users", u>>].pub \in TrustedKeys \cup {NoKey}
          /\ \A k \in DOMAIN s.rows : k[1] = "users" /\ k[2] \in Trusted => s.rows[k].pub \in TrustedKeys
          /\ \A m \in s.member : m[1] = "admins" => m[2] \in Trusted

\* As long as no holder of a trusted key has sent a request, whatever the others
\* send, in any order, failures included: only trusted users are superusers,
\* their keys are their own, no client answers to their name, only admins grant
\* on the organization, its groups and its containers, and no guarded request
\* is answered with success (classifyRequest, preservePrivilege,
\* actorNameCollision and fallbackACL together).
NoEscalation ==
    ~byAdmin =>
        /\ \A a \in DOMAIN actors : a[1] = "users" /\ actors[a].admin => a[2] \in Trusted
        /\ \A t \in Trusted : /\ Listed(<<"users", t>>) \subseteq TrustedKeys
                              /\ <<"clients", t>> \notin DOMAIN actors
        /\ \A k \in Objects \cup {<<"organizations", Org>>} :
             k[1] \in {"organizations", "groups", "containers"} => AdminsOnly(loadACL(k)["grant"])
        /\ \A p \in Procs : <<MethodOf(req[p]), PathOf(req[p])>> \in Guarded => out[p] \notin {200, 201}

\* A permission of an object changes only by an update of that permission, by
\* the creation or the deletion of an actor, or when an update of the object
\* overlapped another request that writes ACLs; and of an organization's objects
\* only the superuser takes the admins off the grant permission
\* (updateACLPermDoc and removesAdminsFromGrant read and write without a lock).
ACLUpdatesKept ==
    [][\A k \in DOMAIN acls \cup DOMAIN acls' : \A perm \in aclPerms :
        loadACL(k)[perm] # loadACL(k)'[perm] =>
            \E p \in Procs : LET r == req[p] IN
                /\ Steps(p)
                /\ \/ r.op \in {"createActor", "deleteActor"}
                   \/ /\ r.op = "putACL" /\ ACLTarget(r) = k
                      /\ \/ \E s \in near[p] : s.op \in {"putACL", "createActor", "deleteActor"}
                         \/ /\ r.perm = perm
                            /\ /\ perm = "grant" /\ k[1] # "users"
                               /\ "admins" \in loadACL(k)[perm].groups \ loadACL(k)'[perm].groups
                               => loc[p].who.super]_vars

-----------------------------------------------------------------------------
(* What the comments of the code say without the exceptions above.          *)

\* A client and a user never share a name (createActor: "the second one must not
\* be created"; it checks before it takes the lock).
OneActorPerName ==
    \A a \in DOMAIN actors :
        ~(<<"users", a[2]>> \in DOMAIN actors /\ <<"clients", a[2]>> \in DOMAIN actors)

\* A user that is created has no password but one that the create brought
\* (scopedDelete: "Everything that names the actor goes before the actor itself").
NewUserNewPassword ==
    [][\A a \in DOMAIN actors' \ DOMAIN actors :
        a[1] = "users" /\ a[2] \in DOMAIN passwords' =>
            \E p \in Procs : /\ Steps(p) /\ Target(p) = a
                             /\ req[p].body.password = passwords'[a[2]]]_vars

\* An update of one permission changes no other (updateACLPermDoc "replaces a
\* single permission's ACE"; it reads the whole ACL and writes it back).
OnePermissionAtATime ==
    [][\A p \in Procs : pc[p] = "storeACL" /\ pc'[p] = "idle" =>
        \A perm \in aclPerms \ {req[p].perm} :
            loadACL(ACLTarget(req[p]))[perm] = loadACL(ACLTarget(req[p]))'[perm]]_vars

\* A request runs as an actor only if the key that signed it was on the actor's
\* list at some moment of the request (parseActorRecord: "the RSA public keys it may
\* currently sign with"; resolveAuth reads the record before the rows).
SignedByListed ==
    \A p \in Busy : LET who == loc[p].who IN
        who # NoOne => \/ who.web /\ req[p].signer = WebKey
                       \/ <<IF who.client THEN "clients" ELSE "users", req[p].signer>> \in valid[p]

=============================================================================
