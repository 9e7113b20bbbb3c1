---------------------------- MODULE AccessProofs ----------------------------
(***************************************************************************)
(* Proofs about Access, for any number of goroutines and requests, any      *)
(* actors, keys and ACLs that are in order at the start, and any number of  *)
(* failures.                                                                *)
(*                                                                          *)
(* Nothing but the deletion of actors excludes anything, so the argument is *)
(* about overlaps: two requests in flight together that are about the same  *)
(* name have frayed it, and of a name that is not frayed the goroutine that *)
(* works on it knows what is stored (Control, below).  Every step is        *)
(* classified once by what it does; the parts of the invariant are proved   *)
(* from that.                                                               *)
(***************************************************************************)
EXTENDS Access, SequenceTheorems, TLAPS

AuthSteps   == {"auth", "keys", "authorize", "exist", "allowed"}
CreateSteps == {"create", "grantCreator", "join"}
UpdateSteps == {"merge", "key", "defaultRow", "privilege", "putRecord"}
DeleteSteps == {"usersACLs", "putUsersACLs", "leaveGroups", "orgACLs", "putOrgACLs", "ownACL",
                "listRows", "deleteRows"}
RenameSteps == {"renameCreate", "renameDelete"}
KeySteps    == {"loaded", "putRow", "setPub", "setNewPub"} \cup RenameSteps
ACLSteps    == {"keepAdmins", "aceMembers", "loadACL", "storeACL"}
Places      == Ops \cup AuthSteps \cup CreateSteps \cup UpdateSteps \cup DeleteSteps \cup KeySteps
               \cup ACLSteps \cup {"idle", "stash", "password"}
LocFields   == {"seg", "rec", "who", "preread", "pub", "row", "acl", "todo"}
AllRequests == UNION {s.requests : s \in Scenarios}

-----------------------------------------------------------------------------
(* The inductive invariant.                                                 *)

Locals(l) == /\ DOMAIN l = LocFields /\ IsACL(l.acl)
             /\ DOMAIN l.rec = {"pub", "admin"} /\ DOMAIN l.row = {"pub", "exp"}
Typed ==
    /\ pc \in [Procs -> Places]
    /\ req \in [Procs -> AllRequests] /\ offered \subseteq AllRequests
    /\ DOMAIN out = Procs /\ DOMAIN near = Procs
    /\ DOMAIN loc = Procs /\ \A p \in Procs : Locals(loc[p])

Shaped ==
    /\ \A a \in DOMAIN actors : a = <<a[1], a[2]>> /\ DOMAIN actors[a] = {"pub", "admin"}
    /\ \A k \in DOMAIN rows : k = <<k[1], k[2], k[3]>> /\ DOMAIN rows[k] = {"pub", "exp"}
    /\ \A k \in DOMAIN acls : k = <<k[1], k[2]>> /\ IsACL(acls[k])

\* Where a goroutine is tells what it serves.
Stage(p) ==
    /\ pc[p] \in Ops => pc[p] = req[p].op
    /\ pc[p] \in CreateSteps => req[p].op = "createActor"
    /\ pc[p] \in UpdateSteps => req[p].op = "putActor"
    /\ pc[p] = "stash" => req[p].op \in {"createActor", "putActor"}
    /\ pc[p] \in DeleteSteps => req[p].op = "deleteActor" /\ writer = p
    /\ pc[p] \in {"usersACLs", "putUsersACLs"} => req[p].seg = "users"
    /\ pc[p] \in KeySteps => req[p].op \in KeyWrites \cup {"listKeys", "getKey"}
    /\ pc[p] \in {"setPub", "setNewPub"} => req[p].op \in KeyWrites
    /\ pc[p] \in RenameSteps \cup {"putRow"} => req[p].op = "putKey"
    /\ pc[p] \in RenameSteps => req[p].body.name \notin {"", req[p].key}
    /\ pc[p] \in ACLSteps => req[p].op = "putACL"
    /\ pc[p] = "password" => req[p].op = "authenticateUser"
    /\ pc[p] \in ACLSteps => req[p].perm \in aclPerms
    /\ pc[p] \notin {"idle", "auth", "keys"} => loc[p].who.name = req[p].as
    /\ pc[p] \in {"auth", "keys", "authorize", "exist"} => ~loc[p].preread
    /\ pc[p] \in {"exist", "allowed"} => Check(p).kind = "acl"
    /\ (pc[p] \in CreateSteps \cup {"createActor", "stash"} /\ req[p].op = "createActor"
        /\ req[p].seg = "users") => loc[p].who.super

\* The ACLs that a delete is putting back, the key rows it removes.
Batch(p) ==
    /\ pc[p] \in {"putUsersACLs", "putOrgACLs"} =>
         \A x \in loc[p].todo : x[1] = <<x[1][1], x[1][2]>> /\ IsACL(x[2])
    /\ pc[p] = "deleteRows" => \A k \in loc[p].todo : <<k[1], k[2]>> = Target(p)

\* Requests in flight together know of each other, and what they are both
\* about is frayed.
Aware == \A p, q \in Busy : p # q => req[p] \in near[q]
Frays == \A p \in Busy : \A r \in near[p] : Clash(req[p], r) \subseteq frayed

Control == Typed /\ Shaped /\ (\A p \in Procs : Stage(p) /\ Batch(p)) /\ Aware /\ Frays

\* p has found its target, and a delete of it has been in flight since if it
\* is gone.
Found(p) ==
    \/ pc[p] \in UpdateSteps \cup KeySteps
    \/ pc[p] = "stash" /\ req[p].op = "putActor"
    \/ pc[p] \in {"allowed", "putActor"} /\ req[p].op = "putActor" /\ loc[p].preread
Gone(p) == \E r \in near[p] : r.op = "deleteActor" /\ <<r.seg, r.name>> = Target(p)
Present(p) == Found(p) => Target(p) \in DOMAIN actors \/ Gone(p)
PresentInv == \A p \in Procs : Present(p)

\* The actor of the same name in the other segment.
Rival(a) == <<IF a[1] = "clients" THEN "users" ELSE "clients", a[2]>>

\* Key rows belong to actors; a delete has the ones that are left on its list.
Owned == \A k \in DOMAIN rows : <<k[1], k[2]>> \in DOMAIN actors \/ k[2] \in frayed
Listing(p) ==
    pc[p] = "deleteRows" => req[p].name \in frayed \/ KeyRows(Target(p)) \subseteq loc[p].todo
RowsInv == Owned /\ \A p \in Procs : Listing(p)

\* The two copies of a default key agree, but for the goroutine between the
\* two writes.
Default(a) == KeyRow(a, "default")
Agree(a) == Default(a) \in DOMAIN rows => rows[Default(a)].pub = actors[a].pub
Between(p) ==
    \/ pc[p] \in {"setPub", "setNewPub"}
    \/ pc[p] \in {"privilege", "stash", "putRecord"} /\ req[p].op = "putActor"
    \/ pc[p] = "renameDelete" /\ req[p].body.name = "default"
\* The row that p has stored, or found, under the key's name.
Holds(k, pub) == k \in DOMAIN rows /\ rows[k].pub = pub
Brought(p, pub) == req[p].body.pub # NoKey => pub = req[p].body.pub
KeyStage(p) ==
    LET l == loc[p]  d == Default(Target(p))
    IN /\ pc[p] = "loaded" /\ req[p].op \in KeyWrites =>
            Target(p) \in DOMAIN actors /\ l.rec = actors[Target(p)]
       /\ pc[p] = "defaultRow" => l.row.pub = l.rec.pub
       /\ pc[p] \in {"privilege", "stash", "putRecord"} /\ req[p].op = "putActor" /\ d \in DOMAIN rows =>
            rows[d].pub = l.rec.pub
       /\ pc[p] \in {"putRow", "renameCreate"} => l.row.pub = l.pub /\ Brought(p, l.pub)
       /\ pc[p] = "renameDelete" => Holds(NewRow(p), l.pub) /\ Brought(p, l.pub)
       /\ pc[p] \in {"setPub", "setNewPub"} =>
            /\ d \in DOMAIN rows => rows[d].pub = l.pub
            /\ req[p].op = "deleteKey" => req[p].key = "default" /\ d \notin DOMAIN rows /\ l.pub = NoKey
            /\ req[p].op = "addKey" => req[p].key = "default" /\ Holds(d, l.pub) /\ Brought(p, l.pub)
       /\ pc[p] = "setPub" /\ req[p].op = "putKey" /\ req[p].body.pub # NoKey =>
            Holds(Row(p), req[p].body.pub)
       /\ pc[p] = "setNewPub" /\ req[p].op = "putKey" =>
            /\ Row(p) \notin DOMAIN rows /\ (req[p].key = "default" => l.pub = NoKey)
            /\ req[p].body.pub # NoKey => Holds(NewRow(p), req[p].body.pub)
Spoilt == frayed \cup failed
KeyInv ==
    /\ \A a \in DOMAIN actors : a[2] \in Spoilt \/ Agree(a) \/ \E p \in Procs : Target(p) = a /\ Between(p)
    /\ \A p \in Procs : req[p].name \in Spoilt \/ KeyStage(p)

\* Who an ACL may name: of a global user's ACL, users only.
Living == {a[2] : a \in DOMAIN actors} \cup frayed
Users  == {n \in Living : <<"users", n>> \in DOMAIN actors} \cup frayed
Nameable(typ) == IF typ = "users" THEN Users ELSE Living
NamesIn(acl, S) == \A perm \in aclPerms : acl[perm].actors \subseteq S
Standing(k) == k[1] \in Segs => k \in DOMAIN actors \/ k[2] \in frayed
Of(k, global) == (k[1] = "users") = global

Creating(p) ==
    req[p].op = "createActor" =>
        /\ pc[p] = "keys" => <<loc[p].seg, req[p].as>> \in DOMAIN actors \/ req[p].as \in frayed
        /\ pc[p] \notin {"idle", "auth", "keys"} =>
             req[p].as \in Living /\ (loc[p].who.super => req[p].as \in Users)
        /\ pc[p] \in {"grantCreator", "join"} => Standing(Target(p))
Granting(p) ==
    /\ pc[p] \in ACLSteps => Standing(ACLTarget(req[p]))
    /\ pc[p] \in {"loadACL", "storeACL"} => req[p].ace.actors \subseteq Nameable(req[p].typ)
    /\ pc[p] = "storeACL" => NamesIn(loc[p].acl, Nameable(req[p].typ))
\* A delete: the ACLs it is putting back, and what it has cleaned.
Cleaned(p, global) ==
    req[p].name \in frayed \/ \A k \in DOMAIN acls : Of(k, global) => ~Names(acls[k], req[p].name)
Cleaning(p, global) ==
    /\ \A x \in loc[p].todo :
         /\ x[1] \in DOMAIN acls /\ Of(x[1], global) /\ IsACL(x[2])
         /\ NamesIn(x[2], Nameable(x[1][1])) /\ ~Names(x[2], req[p].name)
    /\ \/ req[p].name \in frayed
       \/ \A k \in DOMAIN acls : Of(k, global) /\ Names(acls[k], req[p].name) => \E x \in loc[p].todo : x[1] = k
Deleting(p) ==
    LET last == pc[p] \in {"ownACL", "listRows", "deleteRows"}
        user == req[p].seg = "users"
    IN /\ pc[p] = "putUsersACLs" => Cleaning(p, TRUE)
       /\ pc[p] = "putOrgACLs" => Cleaning(p, FALSE)
       /\ user /\ (pc[p] \in {"leaveGroups", "orgACLs", "putOrgACLs"} \/ last) => Cleaned(p, TRUE)
       /\ (~user /\ pc[p] = "leaveGroups") \/ last => Cleaned(p, FALSE)
       /\ (user /\ pc[p] \in {"orgACLs", "putOrgACLs"}) \/ last =>
            req[p].name \in frayed \/ \A m \in member : m[2] # req[p].name
       /\ pc[p] \in {"listRows", "deleteRows"} => req[p].name \in frayed \/ Target(p) \notin DOMAIN acls
ACLInv ==
    /\ \A k \in DOMAIN acls : Standing(k) /\ NamesIn(acls[k], Nameable(k[1]))
    /\ \A m \in member : m[2] \in Living
    /\ \A p \in Procs : Creating(p) /\ Granting(p) /\ Deleting(p)

\* An update of an ACL that no other writer of ACLs overlaps has read what is
\* stored.
Crowded(p) == \E r \in near[p] : r.op \in {"putACL", "createActor", "deleteActor"}
Alone(p) ==
    LET r == req[p]  acl == loadACL(ACLTarget(req[p]))
    IN /\ pc[p] = "storeACL" => loc[p].acl = [acl EXCEPT ![r.perm] = r.ace]
       /\ (pc[p] \in {"aceMembers", "loadACL", "storeACL"} /\ r.perm = "grant" /\ r.typ # "users"
           /\ ~loc[p].who.super) => "admins" \in r.ace.groups \/ "admins" \notin acl["grant"].groups
AloneInv == \A p \in Procs : Crowded(p) \/ Alone(p)


-----------------------------------------------------------------------------
(* What the steps do.  A step of p is p's own: it leaves the others where    *)
(* they are, and changes at most one of the stored maps.                     *)

Admin(rec) == rec.admin
\* p writes no answer but its own, when it ends.
Answering(p) ==
    /\ byAdmin' = byAdmin /\ \A q \in Procs \ {p} : out'[q] = out[q]
    /\ pc'[p] # "idle" => out'[p] = out[p]
Moves(p) ==
    /\ p \in Procs /\ pc[p] # "idle" /\ Typed' /\ Answering(p)
    /\ UNCHANGED <<req, near, frayed>> /\ failed \subseteq failed'
    /\ writer = p /\ pc'[p] # "idle" => writer' = p
    /\ \A q \in Procs \ {p} : pc'[q] = pc[q] /\ loc'[q] = loc[q] /\ (writer = q => writer' = q)
SameStore == UNCHANGED <<actors, rows, acls, member>>
Stays(p) == loc'[p] = loc[p]
Reads(p, from, to) == Moves(p) /\ SameStore /\ pc[p] \in from /\ pc'[p] \in to
SameWho(p) == loc'[p].who = loc[p].who

\* p answers and has changed nothing: an error, or none of its writes half done.
Refused(p) == out'[p] \notin {200, 201}
Ends(p) ==
    /\ Moves(p) /\ SameStore /\ pc'[p] = "idle"
    /\ Touches(req[p]) \subseteq failed' \/ ~Between(p)
    /\ req[p].op \in KeyWrites => out'[p] \notin {200, 201}
    /\ pc[p] \in AuthSteps => Refused(p)

\* Authentication and authorization.
Recorded(p) == loc'[p].seg \in Segs /\ loc'[p].rec = actors[<<loc'[p].seg, req[p].as>>]
Signed(p) ==
    /\ \/ loc'[p].who.web /\ req[p].signer = WebKey
       \/ req[p].signer \in SigningKeys(<<loc[p].seg, req[p].as>>, loc[p].rec.pub)
    /\ loc'[p].who.super => Admin(loc[p].rec)
    /\ loc[p].seg \in Segs => loc[p].seg = IF loc'[p].who.client THEN "clients" ELSE "users"
Admitted(p) ==
    LET c == Check(p)  who == loc[p].who
    IN \/ who.super
       \/ c = Unclassified /\ ~refuseUnclassifiedWrite(MethodOf(req[p]), PathOf(req[p]))
       \/ c # Unclassified /\ c.self = who.name
       \/ /\ c.kind = "acl"
          /\ \E groups \in SUBSET GroupsOf(who.name) :
                aceAllows(loadACL(<<c.typ, c.name>>)[c.perm], who.name, groups)
Finds(p) == /\ Reads(p, {"auth"}, {"keys"}) /\ loc'[p].preread = loc[p].preread
            /\ <<loc'[p].seg, req[p].as>> \in DOMAIN actors /\ Recorded(p) /\ SameWho(p)
Retries(p) == Reads(p, {"keys"}, {"auth"}) /\ loc'[p].preread = loc[p].preread /\ SameWho(p)
Knows(p) == /\ Reads(p, {"keys"}, {"authorize"}) /\ loc'[p].preread = loc[p].preread
            /\ loc'[p].who.name = req[p].as
            /\ loc'[p].who.super => loc[p].seg = "users"
            /\ Signed(p)
Looks(p) == Reads(p, {"authorize"}, {"exist", "allowed"}) /\ Stays(p) /\ Check(p).kind = "acl"
Sees(p) == /\ Reads(p, {"exist"}, {"allowed"}) /\ SameWho(p)
           /\ req[p].op = "putActor" /\ loc'[p].preread => Target(p) \in DOMAIN actors
Admits(p) == /\ Reads(p, {"authorize", "allowed"}, {req[p].op}) /\ Stays(p)
             /\ req[p].op = "createActor" /\ req[p].seg = "users" => loc[p].who.super
             /\ Admitted(p)
Asks(p) == Reads(p, {"authenticateUser"}, {"password"}) /\ Stays(p)

\* Creating and updating an actor.
Claims(p) == /\ Reads(p, {"createActor"}, {"stash", "create"}) /\ SameWho(p)
             /\ Rival(Target(p)) \notin DOMAIN actors
Stashes(p) == /\ Reads(p, {"stash"}, {IF req[p].op = "createActor" THEN "create" ELSE "putRecord"})
              /\ Stays(p)
Creates(p) ==
    /\ Moves(p) /\ pc[p] = "create" /\ pc'[p] = "grantCreator" /\ Stays(p)
    /\ Target(p) \notin DOMAIN actors
    /\ actors' = With(actors, Target(p), loc[p].rec) /\ UNCHANGED <<rows, acls, member>>
Grants(p) ==
    /\ Moves(p) /\ pc[p] = "grantCreator" /\ pc'[p] \in {"join", "idle"} /\ Stays(p)
    /\ acls' = With(acls, Target(p), creatorACL(loc[p].who.name)) /\ UNCHANGED <<actors, rows, member>>
Joins(p) ==
    /\ Moves(p) /\ pc[p] = "join" /\ pc'[p] = "idle" /\ Stays(p)
    /\ member' = member \cup {<<"clients", req[p].name>>} /\ UNCHANGED <<actors, rows, acls>>
Starts(p) == /\ Reads(p, {"putActor"}, {"merge", "key"}) /\ SameWho(p)
             /\ loc[p].preread \/ Target(p) \in DOMAIN actors
Merges(p) == Reads(p, {"merge"}, {"key"}) /\ SameWho(p)
Chooses(p) ==
    /\ Reads(p, {"key"}, {"defaultRow", "privilege"}) /\ SameWho(p)
    /\ pc'[p] = "defaultRow" => loc'[p].row.pub = loc'[p].rec.pub
    /\ pc'[p] = "privilege" => \/ Default(Target(p)) \notin DOMAIN rows
                               \/ Target(p) \in DOMAIN actors => loc'[p].rec.pub = actors[Target(p)].pub
PutsDefault(p) ==
    /\ Moves(p) /\ pc[p] = "defaultRow" /\ pc'[p] = "privilege" /\ Stays(p)
    /\ rows' = With(rows, Default(Target(p)), loc[p].row) /\ UNCHANGED <<actors, acls, member>>
Preserved(p) ==
    req[p].seg = "users" /\ ~loc[p].who.super /\ Admin(loc'[p].rec) =>
        Target(p) \in DOMAIN actors /\ Admin(actors[Target(p)])
Preserves(p) == /\ Reads(p, {"privilege"}, {"stash", "putRecord"}) /\ SameWho(p)
                /\ loc'[p].rec.pub = loc[p].rec.pub /\ Preserved(p)
PutsRecord(p) ==
    /\ Moves(p) /\ pc[p] = "putRecord" /\ pc'[p] = "idle" /\ Stays(p)
    /\ actors' = With(actors, Target(p), loc[p].rec) /\ UNCHANGED <<rows, acls, member>>

\* Deleting an actor.
Locks(p) == /\ Reads(p, {"deleteActor"}, {IF req[p].seg = "users" THEN "usersACLs" ELSE "orgACLs"})
            /\ Stays(p) /\ writer' = p
Named(p, global) == {k \in DOMAIN acls : Of(k, global) /\ Names(acls[k], req[p].name)}
Ranges(p) ==
    LET global == pc[p] = "usersACLs"
    IN /\ Reads(p, {"usersACLs", "orgACLs"}, {IF global THEN "putUsersACLs" ELSE "putOrgACLs"})
       /\ SameWho(p)
       /\ loc'[p].todo = {<<k, Without(acls[k], req[p].name)>> : k \in Named(p, global)}
PutsClean(p) ==
    /\ Moves(p) /\ pc[p] \in {"putUsersACLs", "putOrgACLs"} /\ pc'[p] = pc[p] /\ SameWho(p)
    /\ \E x \in loc[p].todo : acls' = With(acls, x[1], x[2]) /\ loc'[p].todo = loc[p].todo \ {x}
    /\ UNCHANGED <<actors, rows, member>>
Finishes(p) ==
    /\ Reads(p, {"putUsersACLs", "putOrgACLs"},
             {IF pc[p] = "putOrgACLs" /\ req[p].seg = "users" THEN "ownACL" ELSE "leaveGroups"})
    /\ Stays(p) /\ loc[p].todo = {}
Leaves(p) ==
    /\ Moves(p) /\ pc[p] = "leaveGroups" /\ Stays(p)
    /\ pc'[p] = IF req[p].seg = "users" THEN "orgACLs" ELSE "ownACL"
    /\ member' = {m \in member : m[2] # req[p].name} /\ UNCHANGED <<actors, rows, acls>>
DropsACL(p) ==
    /\ Moves(p) /\ pc[p] = "ownACL" /\ pc'[p] = "listRows" /\ Stays(p)
    /\ acls' = Less(acls, {Target(p)}) /\ UNCHANGED <<actors, rows, member>>
Lists(p) == /\ Reads(p, {"listRows"}, {"deleteRows"}) /\ SameWho(p)
            /\ loc'[p].todo = KeyRows(Target(p))
DropsRow(p) ==
    /\ Moves(p) /\ pc[p] = "deleteRows" /\ pc'[p] = "deleteRows" /\ SameWho(p)
    /\ \E k \in loc[p].todo : rows' = Less(rows, {k}) /\ loc'[p].todo = loc[p].todo \ {k}
    /\ UNCHANGED <<actors, acls, member>>
DropsActor(p) ==
    /\ Moves(p) /\ pc[p] = "deleteRows" /\ pc'[p] = "idle" /\ Stays(p) /\ loc[p].todo = {}
    /\ actors' = Less(actors, {Target(p)}) /\ UNCHANGED <<rows, acls, member>>

\* The keys of an actor.
SameRec(p) == loc'[p].rec = loc[p].rec
Loads(p) == /\ Reads(p, KeyWrites \cup {"listKeys", "getKey"}, {"loaded"}) /\ SameWho(p)
            /\ Target(p) \in DOMAIN actors /\ loc'[p].rec = actors[Target(p)]
AddsKey(p) ==
    /\ Moves(p) /\ pc[p] = "loaded" /\ req[p].op = "addKey" /\ SameWho(p) /\ SameRec(p)
    /\ pc'[p] = IF req[p].key = "default" THEN "setNewPub" ELSE "idle"
    /\ Brought(p, loc'[p].pub)
    /\ rows' = With(rows, Row(p), [pub |-> loc'[p].pub, exp |-> req[p].body.exp])
    /\ UNCHANGED <<actors, acls, member>>
Plans(p) ==
    /\ Reads(p, {"loaded"}, {"putRow", "renameCreate"}) /\ SameWho(p) /\ SameRec(p) /\ req[p].op = "putKey"
    /\ loc'[p].row.pub = loc'[p].pub /\ Brought(p, loc'[p].pub)
    /\ pc'[p] = "renameCreate" => req[p].body.name \notin {"", req[p].key}
PutsKey(p) ==
    /\ Moves(p) /\ pc[p] = "putRow" /\ Stays(p)
    /\ IF req[p].key = "default" THEN pc'[p] = "setPub" ELSE pc'[p] = "idle" /\ out'[p] = 200
    /\ rows' = With(rows, Row(p), loc[p].row) /\ UNCHANGED <<actors, acls, member>>
RenamesTo(p) ==
    /\ Moves(p) /\ pc[p] = "renameCreate" /\ pc'[p] = "renameDelete" /\ Stays(p)
    /\ rows' = With(rows, NewRow(p), loc[p].row) /\ UNCHANGED <<actors, acls, member>>
RenamesFrom(p) ==
    /\ Moves(p) /\ pc[p] = "renameDelete" /\ SameWho(p) /\ SameRec(p)
    /\ IF "default" \in {req[p].key, req[p].body.name} THEN pc'[p] = "setNewPub"
       ELSE pc'[p] = "idle" /\ out'[p] = 201
    /\ loc'[p].pub = IF req[p].key = "default" THEN NoKey ELSE loc[p].pub
    /\ rows' = Less(rows, {Row(p)}) /\ UNCHANGED <<actors, acls, member>>
DeletesKey(p) ==
    /\ Moves(p) /\ pc[p] = "loaded" /\ req[p].op = "deleteKey" /\ SameWho(p) /\ SameRec(p)
    /\ pc'[p] = IF req[p].key = "default" /\ loc[p].rec.pub # NoKey THEN "setPub" ELSE "idle"
    /\ loc'[p].pub = NoKey
    /\ rows' = Less(rows, {Row(p)}) /\ UNCHANGED <<actors, acls, member>>
SetsPub(p) ==
    /\ Moves(p) /\ pc[p] \in {"setPub", "setNewPub"} /\ pc'[p] = "idle" /\ Stays(p)
    /\ out'[p] = IF pc[p] = "setNewPub" THEN 201 ELSE 200
    /\ actors' = With(actors, Target(p), [loc[p].rec EXCEPT !.pub = loc[p].pub])
    /\ UNCHANGED <<rows, acls, member>>

\* Updating an ACL.
Checks(p) == /\ Reads(p, {"putACL"}, {"keepAdmins"}) /\ Stays(p) /\ req[p].perm \in aclPerms
             /\ Exists(req[p].typ, req[p].obj)
Guards(p) ==
    /\ Reads(p, {"keepAdmins"}, {"aceMembers"}) /\ Stays(p)
    /\ req[p].typ # "users" /\ req[p].perm = "grant" /\ ~loc[p].who.super =>
         "admins" \in req[p].ace.groups \/ "admins" \notin loadACL(ACLTarget(req[p]))["grant"].groups
Vets(p) ==
    /\ Reads(p, {"aceMembers"}, {"loadACL"}) /\ Stays(p)
    /\ \A n \in req[p].ace.actors :
         \E s \in IF req[p].typ = "users" THEN {"users"} ELSE Segs : <<s, n>> \in DOMAIN actors
LoadsACL(p) ==
    /\ Reads(p, {"loadACL"}, {"storeACL"}) /\ SameWho(p)
    /\ loc'[p].acl = [loadACL(ACLTarget(req[p])) EXCEPT ![req[p].perm] = req[p].ace]
StoresACL(p) ==
    /\ Moves(p) /\ pc[p] = "storeACL" /\ pc'[p] = "idle" /\ Stays(p)
    /\ acls' = With(acls, ACLTarget(req[p]), loc[p].acl) /\ UNCHANGED <<actors, rows, member>>

\* A new request.
Arrives(p) ==
    /\ out'[p] = 0 /\ \A q \in Procs \ {p} : out'[q] = out[q]
    /\ ~byAdmin' => ~byAdmin /\ req'[p].signer \notin TrustedKeys
Begins(p) ==
    /\ p \in Procs /\ pc[p] = "idle" /\ Typed' /\ SameStore /\ UNCHANGED <<writer, failed>>
    /\ pc'[p] = "auth" /\ loc'[p] = NoLocals
    /\ \A q \in Procs \ {p} : pc'[q] = pc[q] /\ loc'[q] = loc[q] /\ req'[q] = req[q]
    /\ \A q \in Busy : near[q] \subseteq near'[q]
    /\ frayed \subseteq frayed' /\ Arrives(p)

AuthEffect(p)   == Finds(p) \/ Retries(p) \/ Knows(p) \/ Looks(p) \/ Sees(p) \/ Admits(p) \/ Asks(p)
ActorEffect(p)  == \/ Claims(p) \/ Stashes(p) \/ Creates(p) \/ Grants(p) \/ Joins(p)
                   \/ Starts(p) \/ Merges(p) \/ Chooses(p) \/ PutsDefault(p) \/ Preserves(p) \/ PutsRecord(p)
DeleteEffect(p) == \/ Locks(p) \/ Ranges(p) \/ PutsClean(p) \/ Finishes(p) \/ Leaves(p) \/ DropsACL(p)
                   \/ Lists(p) \/ DropsRow(p) \/ DropsActor(p)
KeyEffect(p)    == \/ Loads(p) \/ AddsKey(p) \/ Plans(p) \/ PutsKey(p) \/ RenamesTo(p) \/ RenamesFrom(p)
                   \/ DeletesKey(p) \/ SetsPub(p)
ACLEffect(p)    == Checks(p) \/ Guards(p) \/ Vets(p) \/ LoadsACL(p) \/ StoresACL(p)
Effect(p)       == \/ Ends(p) \/ AuthEffect(p) \/ ActorEffect(p) \/ DeleteEffect(p) \/ KeyEffect(p)
                   \/ ACLEffect(p)


-----------------------------------------------------------------------------
(* The steps have these effects.                                            *)

\* The common part of every step.
LEMMA Moving ==
    ASSUME Typed, NEW p \in Procs, pc[p] # "idle", NEW to \in Places, NEW l, Locals(l),
           pc' = [pc EXCEPT ![p] = to], loc' = [loc EXCEPT ![p] = l],
           DOMAIN out' = Procs, Answering(p),
           UNCHANGED <<req, near, frayed, offered>>, failed \subseteq failed',
           writer = p /\ to # "idle" => writer' = p,
           \A q \in Procs \ {p} : writer = q => writer' = q
    PROVE  Moves(p) /\ pc'[p] = to /\ loc'[p] = l
<1>1. /\ pc'[p] = to /\ loc'[p] = l
      /\ \A q \in Procs \ {p} : pc'[q] = pc[q] /\ loc'[q] = loc[q]
      /\ pc' \in [Procs -> Places] /\ DOMAIN loc' = Procs
  BY DEF Typed
<1>2. \A q \in Procs : Locals(loc'[q])
  BY <1>1 DEF Typed
<1>3. Typed'
  BY <1>1, <1>2 DEF Typed
<1> QED
  BY <1>1, <1>3 DEF Moves

\* The same step when the locals stay as they are.
LEMMA Staying ==
    ASSUME Typed, NEW p \in Procs, pc[p] # "idle", NEW to \in Places,
           pc' = [pc EXCEPT ![p] = to], loc' = loc,
           DOMAIN out' = Procs, Answering(p),
           UNCHANGED <<req, near, frayed, offered>>, failed \subseteq failed',
           writer = p /\ to # "idle" => writer' = p,
           \A q \in Procs \ {p} : writer = q => writer' = q
    PROVE  Moves(p) /\ pc'[p] = to /\ Stays(p)
<1>1. /\ pc'[p] = to /\ \A q \in Procs \ {p} : pc'[q] = pc[q]
      /\ pc' \in [Procs -> Places]
  BY DEF Typed
<1>2. Typed'
  BY <1>1 DEF Typed
<1> QED
  BY <1>1, <1>2 DEF Moves, Stays

\* A step that keeps the locks and the histories, and goes on or answers.
LEMMA Going ==
    ASSUME Typed, NEW p \in Procs, pc[p] # "idle", Lockless,
           NEW to \in Places, Goto(p, to)
    PROVE  /\ loc' = loc => Moves(p) /\ pc'[p] = to /\ Stays(p)
           /\ \A l : Locals(l) /\ Local(p, l) => Moves(p) /\ pc'[p] = to /\ loc'[p] = l
<1>1. /\ pc' = [pc EXCEPT ![p] = to] /\ DOMAIN out' = Procs /\ Answering(p)
      /\ UNCHANGED <<req, near, frayed, offered, failed, writer>>
  BY DEF Goto, Lockless, Fixed, locks, Typed, Answering
<1>2. loc' = loc => Moves(p) /\ pc'[p] = to /\ Stays(p)
  BY <1>1, Staying
<1>3. ASSUME NEW l, Locals(l), Local(p, l)
      PROVE  Moves(p) /\ pc'[p] = to /\ loc'[p] = l
  BY <1>1, <1>3, Moving DEF Local
<1> QED
  BY <1>2, <1>3

LEMMA Replying ==
    ASSUME Typed, NEW p \in Procs, pc[p] # "idle", Fixed, UNCHANGED locks \/ Release(p),
           NEW c, Reply(p, c)
    PROVE  /\ out'[p] = c
           /\ loc' = loc => Moves(p) /\ pc'[p] = "idle" /\ Stays(p)
           /\ \A l : Locals(l) /\ Local(p, l) => Moves(p) /\ pc'[p] = "idle" /\ loc'[p] = l
<1>1. /\ pc' = [pc EXCEPT ![p] = "idle"] /\ DOMAIN out' = Procs /\ out'[p] = c
      /\ UNCHANGED <<req, near, frayed, offered, failed>>
  BY DEF Reply, Fixed, Typed
<1>2. \A q \in Procs \ {p} : writer = q => writer' = q
  BY DEF locks, Release
<1>0. "idle" \in Places /\ Answering(p)
  BY DEF Places, Answering, Reply, Fixed, Typed
<1>3. loc' = loc => Moves(p) /\ pc'[p] = "idle" /\ Stays(p)
  BY <1>0, <1>1, <1>2, Staying
<1>4. ASSUME NEW l, Locals(l), Local(p, l)
      PROVE  Moves(p) /\ pc'[p] = "idle" /\ loc'[p] = l
  BY <1>0, <1>1, <1>2, <1>4, Moving DEF Local
<1> QED
  BY <1>1, <1>3, <1>4

\* A step that only reads and answers.
LEMMA Ending ==
    ASSUME Typed, NEW p \in Procs, pc[p] # "idle", ReadOnly, NEW c, Reply(p, c), UNCHANGED loc,
           ~Between(p), req[p].op \in KeyWrites \/ pc[p] \in AuthSteps => c \notin {200, 201}
    PROVE  Ends(p)
<1>1. Moves(p) /\ pc'[p] = "idle" /\ out'[p] = c
  BY Replying DEF ReadOnly, Lockless
<1> QED
  BY <1>1 DEF Ends, Refused, ReadOnly, SameStore, store


\* A request in flight is a routed one.
LEMMA Routed ==
    ASSUME Typed, NEW p \in Procs
    PROVE  /\ req[p].op \in Ops /\ req[p].as # ""
           /\ req[p].op \in {"createActor", "putActor", "deleteActor"} => req[p].seg \in Segs
           /\ req[p].op = "putACL" => DOMAIN req[p].ace = {"actors", "groups"} /\ req[p].typ \in aclTypes
<1>1. PICK s \in Scenarios : req[p] \in s.requests
  BY DEF Typed, AllRequests
<1> QED
  BY <1>1, RoutedRequests


LEMMA ReadActorEffect ==
    ASSUME Control, NEW p \in Procs, ReadActor(p)
    PROVE  Ends(p) \/ Finds(p)
<1>0. /\ pc[p] = "auth" /\ ReadOnly /\ pc[p] # "idle" /\ ~Between(p)
      /\ Typed /\ Shaped /\ Locals(loc[p]) /\ "keys" \in Places
  BY DEF ReadActor, Between, Control, Typed, Places, AuthSteps
<1> DEFINE scoped == PathOf(req[p])[1] = "organizations" /\ Len(PathOf(req[p])) >= 2
           seg == IF loc[p].seg = "clients" /\ scoped /\ <<"clients", req[p].as>> \in DOMAIN actors
                  THEN "clients" ELSE "users"
<1>1. \/ /\ Reply(p, 401) /\ UNCHANGED loc
      \/ /\ <<seg, req[p].as>> \in DOMAIN actors
         /\ Local(p, [loc[p] EXCEPT !.seg = seg, !.rec = actors[<<seg, req[p].as>>]])
         /\ Goto(p, "keys")
  BY Zenon DEF ReadActor
<1>11. seg \in Segs
  <2> HIDE DEF scoped
  <2> QED BY DEF Segs
<1> HIDE DEF seg
<1>2. CASE Reply(p, 401) /\ UNCHANGED loc
  BY <1>0, <1>2, Ending
<1>3. CASE /\ <<seg, req[p].as>> \in DOMAIN actors
           /\ Local(p, [loc[p] EXCEPT !.seg = seg, !.rec = actors[<<seg, req[p].as>>]])
           /\ Goto(p, "keys")
  <2> DEFINE l == [loc[p] EXCEPT !.seg = seg, !.rec = actors[<<seg, req[p].as>>]]
  <2>1. /\ Locals(l) /\ l.seg = seg /\ l.preread = loc[p].preread
        /\ l.rec = actors[<<seg, req[p].as>>] /\ l.who = loc[p].who
    BY <1>0, <1>3 DEF Locals, LocFields, Shaped
  <2>2. Moves(p) /\ pc'[p] = "keys" /\ loc'[p] = l
    <3> HIDE DEF l
    <3> QED BY <1>0, <1>3, <2>1, Going DEF ReadOnly, l
  <2> QED
    BY <1>0, <1>11, <1>3, <2>1, <2>2 DEF Finds, Recorded, SameWho, Reads, ReadOnly, SameStore, store
<1> QED
  BY <1>1, <1>2, <1>3

LEMMA ReadKeysEffect ==
    ASSUME Control, NEW p \in Procs, ReadKeys(p)
    PROVE  Ends(p) \/ Retries(p) \/ Knows(p)
<1>0. /\ pc[p] = "keys" /\ ReadOnly /\ pc[p] # "idle" /\ ~Between(p)
      /\ Typed /\ Locals(loc[p]) /\ "auth" \in Places /\ "authorize" \in Places
  BY DEF ReadKeys, Between, Control, Typed, Places, AuthSteps
<1> DEFINE super == loc[p].seg = "users" /\ loc[p].rec.admin
           client == loc[p].seg = "clients"
           who == [name |-> req[p].as, client |-> client, web |-> req[p].web,
                   super |-> super]
           back == [loc[p] EXCEPT !.seg = "users"]
           known == [loc[p] EXCEPT !.who = who]
           keys == SigningKeys(<<loc[p].seg, req[p].as>>, loc[p].rec.pub)
           signed == (req[p].web /\ req[p].signer = WebKey) \/ req[p].signer \in keys
<1>1. \/ Reply(p, 401) /\ UNCHANGED loc
      \/ Local(p, back) /\ Goto(p, "auth")
      \/ Local(p, known) /\ Goto(p, "authorize") /\ signed
  BY Zenon DEF ReadKeys
<1>2. CASE Reply(p, 401) /\ UNCHANGED loc
  BY <1>0, <1>2, Ending
<1>3. CASE Local(p, back) /\ Goto(p, "auth")
  <2>1. Locals(back) /\ back.preread = loc[p].preread /\ back.who = loc[p].who
    BY <1>0 DEF Locals, LocFields
  <2>2. Moves(p) /\ pc'[p] = "auth" /\ loc'[p] = back
    <3> HIDE DEF back
    <3> QED BY <1>0, <1>3, <2>1, Going DEF ReadOnly
  <2> QED
    BY <1>0, <2>1, <2>2 DEF Retries, SameWho, Reads, ReadOnly, SameStore, store
<1>4. CASE Local(p, known) /\ Goto(p, "authorize") /\ signed
  <2>1. Locals(known) /\ known.preread = loc[p].preread /\ known.who = who
    BY <1>0 DEF Locals, LocFields
  <2>2. Moves(p) /\ pc'[p] = "authorize" /\ loc'[p] = known
    <3> HIDE DEF known
    <3> QED BY <1>0, <1>4, <2>1, Going DEF ReadOnly
  <2>3. /\ known.who.name = req[p].as /\ known.who.super = super
        /\ known.who.client = client /\ known.who.web = req[p].web
    <3> HIDE DEF super, client
    <3> QED BY <2>1
  <2>4. loc'[p].who.super => Admin(loc[p].rec)
    <3> HIDE DEF known
    <3> QED BY <2>2, <2>3, Zenon DEF Admin
  <2>5. loc'[p].who.client <=> loc[p].seg = "clients"
    <3> HIDE DEF known
    <3> QED BY <2>2, <2>3, Zenon
  <2>6. loc[p].seg \in Segs => loc[p].seg = IF loc'[p].who.client THEN "clients" ELSE "users"
    BY <2>5 DEF Segs
  <2>7. signed => (loc'[p].who.web /\ req[p].signer = WebKey) \/ req[p].signer \in keys
    <3> HIDE DEF known, keys
    <3> QED BY <2>2, <2>3, Zenon
  <2>8. Signed(p)
    <3> HIDE DEF known
    <3> QED BY <1>4, <2>4, <2>6, <2>7, Zenon DEF Signed
  <2> QED
    BY <1>0, <2>1, <2>2, <2>3, <2>8 DEF Knows, Reads, ReadOnly, SameStore, store
<1> QED
  BY <1>1, <1>2, <1>3, <1>4


\* What the paths of actors are classified as.
LEMMA AppendOne == ASSUME NEW a, NEW b PROVE Append(<<a>>, b) = <<a, b>>
<1> DEFINE s == Append(<<a>>, b)
           t == <<a, b>>
<1>1. <<a>> \in Seq({a, b}) /\ t \in Seq({a, b}) /\ Len(t) = 2 /\ t[1] = a /\ t[2] = b
  OBVIOUS
<1>2. s \in Seq({a, b}) /\ Len(s) = 2 /\ s[1] = a /\ s[2] = b
  BY <1>1, AppendProperties
<1> HIDE DEF s, t
<1>3. s = t
  BY <1>1, <1>2, SeqEqual
<1> QED
  BY <1>3 DEF s, t

LEMMA AppendThree == ASSUME NEW a, NEW b, NEW c, NEW d PROVE Append(<<a, b, c>>, d) = <<a, b, c, d>>
<1> DEFINE s == Append(<<a, b, c>>, d)
           t == <<a, b, c, d>>
<1>1. /\ <<a, b, c>> \in Seq({a, b, c, d}) /\ t \in Seq({a, b, c, d})
      /\ Len(t) = 4 /\ t[1] = a /\ t[2] = b /\ t[3] = c /\ t[4] = d
  OBVIOUS
<1>2. s \in Seq({a, b, c, d}) /\ Len(s) = 4 /\ s[1] = a /\ s[2] = b /\ s[3] = c /\ s[4] = d
  BY <1>1, AppendProperties
<1> HIDE DEF s, t
<1>3. s = t
  BY <1>1, <1>2, SeqEqual
<1> QED
  BY <1>3 DEF s, t

LEMMA RestOfPath ==
    ASSUME NEW a, NEW b, NEW c, NEW d
    PROVE  SubSeq(<<a, b, c, d>>, 3, Len(<<a, b, c, d>>)) = <<c, d>>
<1> DEFINE path == <<a, b, c, d>>
           s == SubSeq(path, 3, 4)
           t == <<c, d>>
<1>1. /\ path \in Seq({a, b, c, d}) /\ t \in Seq({a, b, c, d})
      /\ Len(path) = 4 /\ Len(t) = 2 /\ t[1] = path[3] /\ t[2] = path[4]
  OBVIOUS
<1>2. s \in Seq({a, b, c, d}) /\ Len(s) = 2 /\ s[1] = path[3] /\ s[2] = path[4]
  BY <1>1, SubSeqProperties
<1> HIDE DEF s, t
<1>3. s = t
  BY <1>1, <1>2, SeqEqual
<1> QED
  BY <1>1, <1>3 DEF s, t

\* The routes of global users are the superuser's, or the user's own.
LEMMA UsersPath ==
    ASSUME NEW p, req[p].op \in {"createActor", "putActor"}, req[p].seg = "users"
    PROVE  Check(p).kind = "superuser" /\ (req[p].op = "createActor" => Check(p) = Superuser)
<1>0. ASSUME NEW m, NEW path, path[1] = "users"
      PROVE  classifyRequest(m, path) = classifyUsers(m, Tail(path))
  BY <1>0, SMT DEF classifyRequest
<1>1. CASE req[p].op = "createActor"
  <2>1. PathOf(req[p]) = <<"users">> /\ MethodOf(req[p]) = "POST"
    BY <1>1 DEF PathOf, MethodOf
  <2>2. Tail(<<"users">>) = <<>> /\ <<"users">>[1] = "users"
    OBVIOUS
  <2>3. classifyUsers("POST", <<>>) = Superuser
    BY DEF classifyUsers
  <2>4. Check(p) = classifyRequest("POST", <<"users">>)
    BY <2>1 DEF Check
  <2>5. Check(p) = Superuser
    BY <1>0, <2>2, <2>3, <2>4
  <2>6. Superuser.kind = "superuser"
    BY DEF Superuser
  <2> QED
    BY <1>1, <2>5, <2>6
<1>2. CASE req[p].op = "putActor"
  <2>1. PathOf(req[p]) = Append(<<"users">>, req[p].name) /\ MethodOf(req[p]) = "PUT"
    BY <1>2 DEF PathOf, MethodOf
  <2>2. PathOf(req[p]) = <<"users", req[p].name>>
    BY <2>1, AppendOne
  <2>3. Tail(<<"users", req[p].name>>) = <<req[p].name>> /\ <<"users", req[p].name>>[1] = "users"
    OBVIOUS
  <2>4. classifyUsers("PUT", <<req[p].name>>) = SelfOr(req[p].name)
    BY DEF classifyUsers, itemPerm, Reading
  <2>5. Check(p) = classifyRequest("PUT", <<"users", req[p].name>>)
    BY <2>1, <2>2 DEF Check
  <2>6. Check(p) = SelfOr(req[p].name)
    BY <1>0, <2>3, <2>4, <2>5
  <2> QED
    BY <1>2, <2>6 DEF SelfOr
<1> QED
  BY <1>1, <1>2

\* An update of a client needs its ACL, and reads the client first.
LEMMA ClientRoute ==
    ASSUME NEW m, NEW o, NEW n, n # "_acl"
    PROVE  classifyRequest(m, <<"organizations", o, "clients", n>>)
            = classifyGeneric(m, "clients", <<"clients", n>>)
<1> DEFINE path == <<"organizations", o, "clients", n>>
           rest == <<"clients", n>>
<1>1. SubSeq(path, 3, Len(path)) = rest
  BY RestOfPath
<1>2. {i \in DOMAIN rest : rest[i] = "_acl"} = {}
  OBVIOUS
<1>3. path[1] = "organizations" /\ path # <<"organizations">> /\ Len(path) # 2 /\ rest[1] = "clients"
  OBVIOUS
<1> HIDE DEF path, rest
<1>4. classifyRequest(m, path) = classifyGeneric(m, rest[1], rest)
  BY <1>1, <1>2, <1>3 DEF classifyRequest, enforceSegs
<1> QED
  BY <1>3, <1>4 DEF path, rest

LEMMA ClientNamedACL ==
    ASSUME NEW m, NEW o
    PROVE  classifyRequest(m, <<"organizations", o, "clients", "_acl">>) = Unclassified
<1> DEFINE path == <<"organizations", o, "clients", "_acl">>
           rest == <<"clients", "_acl">>
<1>1. SubSeq(path, 3, Len(path)) = rest
  BY RestOfPath
<1>2. {i \in DOMAIN rest : rest[i] = "_acl"} = {2}
  OBVIOUS
<1>3. path[1] = "organizations" /\ path # <<"organizations">> /\ Len(path) = 4 /\ rest[1] = "clients"
  OBVIOUS
<1>4. (CHOOSE i \in {2} : \A j \in {2} : i <= j) = 2
  OBVIOUS
<1> HIDE DEF path, rest
<1>5. classifyRequest(m, path) = Unclassified
  BY <1>1, <1>2, <1>3, <1>4 DEF classifyRequest, enforceSegs
<1> QED
  BY <1>3, <1>5 DEF path, rest

LEMMA ClientsPath ==
    ASSUME NEW p, req[p].op = "putActor", req[p].seg = "clients", Check(p).kind = "acl"
    PROVE  Check(p).exist = <<"coll", "clients", req[p].name>>
<1> DEFINE n == req[p].name
           rest == <<"clients", n>>
<1>1. Check(p) = classifyRequest("PUT", <<"organizations", Org, "clients", n>>)
  BY AppendThree DEF Check, PathOf, MethodOf
<1>2. n # "_acl"
  BY <1>1, ClientNamedACL DEF Unclassified
<1>3. NeedsItem("PUT", "clients", n) = Needs("clients", n, "update")
  BY DEF NeedsItem, itemPerm, Reading
<1>4. Needs("clients", n, "update") # Unclassified
  BY DEF Needs, Unclassified
<1>5. rest[1] = "clients" /\ rest[2] = n /\ Len(rest) = 2
  OBVIOUS
<1>6. classifyGeneric("PUT", "clients", rest) = After(Needs("clients", n, "update"), <<"coll", "clients", n>>)
  <2> HIDE DEF rest, n
  <2> QED BY <1>3, <1>4, <1>5 DEF classifyGeneric, existenceSegs, enforceSegs
<1>7. Check(p) = After(Needs("clients", n, "update"), <<"coll", "clients", n>>)
  BY <1>1, <1>2, <1>6, ClientRoute
<1> QED
  BY <1>7 DEF After, Needs


LEMMA AuthorizeEffect ==
    ASSUME Control, NEW p \in Procs, Authorize(p)
    PROVE  Ends(p) \/ Looks(p) \/ Admits(p)
<1> DEFINE c == Check(p)
           who == loc[p].who
<1>0. /\ pc[p] = "authorize" /\ ReadOnly /\ UNCHANGED loc /\ pc[p] # "idle" /\ ~Between(p)
      /\ Typed /\ Stage(p) /\ "exist" \in Places /\ "allowed" \in Places
  BY DEF Authorize, Between, Control, Places, AuthSteps
<1>00. req[p].op \in Places /\ who.name = req[p].as /\ req[p].as # ""
  BY <1>0, Routed DEF Stage, Places
<1>1. \/ /\ Admitted(p) /\ (who.super \/ c = Unclassified \/ c.self = who.name)
         /\ Goto(p, req[p].op)
      \/ Reply(p, 403)
      \/ c.kind = "acl" /\ (Goto(p, "exist") \/ Goto(p, "allowed"))
  BY Zenon DEF Authorize, Admitted
<1>2. CASE /\ Admitted(p) /\ (who.super \/ c = Unclassified \/ c.self = who.name)
           /\ Goto(p, req[p].op)
  <2>1. ASSUME req[p].op = "createActor", req[p].seg = "users"
        PROVE  who.super
    <3>1. c = Superuser
      BY <2>1, UsersPath
    <3>2. Superuser # Unclassified /\ Superuser.self = ""
      BY DEF Superuser, Unclassified
    <3> QED
      BY <1>00, <1>2, <3>1, <3>2
  <2>2. Moves(p) /\ pc'[p] = req[p].op /\ Stays(p)
    BY <1>0, <1>00, <1>2, Going DEF ReadOnly
  <2> QED
    BY <1>0, <1>2, <2>1, <2>2 DEF Admits, Reads, ReadOnly, SameStore, store
<1>3. CASE Reply(p, 403)
  BY <1>0, <1>3, Ending
<1>4. CASE c.kind = "acl" /\ (Goto(p, "exist") \/ Goto(p, "allowed"))
  <2>1. Moves(p) /\ pc'[p] \in {"exist", "allowed"} /\ Stays(p)
    BY <1>0, <1>4, Going DEF ReadOnly
  <2> QED
    BY <1>0, <1>4, <2>1 DEF Looks, Reads, ReadOnly, SameStore, store
<1> QED
  BY <1>1, <1>2, <1>3, <1>4

LEMMA ExistEffect ==
    ASSUME Control, NEW p \in Procs, Exist(p)
    PROVE  Ends(p) \/ Sees(p)
<1> DEFINE e == Check(p).exist
           there == Exists(e[2], e[3])
           rec == IF <<e[2], e[3]>> \in DOMAIN actors THEN actors[<<e[2], e[3]>>] ELSE loc[p].rec
           coll == e[1] = "coll"
           l == [loc[p] EXCEPT !.preread = coll, !.rec = rec]
<1>0. /\ pc[p] = "exist" /\ ReadOnly /\ pc[p] # "idle" /\ ~Between(p)
      /\ Typed /\ Shaped /\ Stage(p) /\ Locals(loc[p]) /\ "allowed" \in Places /\ Check(p).kind = "acl"
  BY DEF Exist, Between, Control, Typed, Stage, Places, AuthSteps
<1>1. \/ Reply(p, 404) /\ UNCHANGED loc
      \/ there /\ Local(p, l) /\ Goto(p, "allowed")
  BY DEF Exist
<1>2. CASE Reply(p, 404) /\ UNCHANGED loc
  BY <1>0, <1>2, Ending
<1>3. CASE there /\ Local(p, l) /\ Goto(p, "allowed")
  <2>1. Locals(l) /\ l.who = loc[p].who
    <3>1. DOMAIN rec = {"pub", "admin"}
      BY <1>0 DEF Shaped, Locals
    <3> HIDE DEF rec, coll
    <3> QED BY <1>0, <3>1 DEF Locals, LocFields
  <2>2. Moves(p) /\ pc'[p] = "allowed" /\ loc'[p] = l
    <3> HIDE DEF l
    <3> QED BY <1>0, <1>3, <2>1, Going DEF ReadOnly
  <2>3. req[p].op = "putActor" => Target(p) \in DOMAIN actors
    <3> SUFFICES ASSUME req[p].op = "putActor" PROVE Target(p) \in DOMAIN actors
      OBVIOUS
    <3>1. req[p].seg = "clients"
      <4>1. req[p].seg \in Segs /\ "superuser" # "acl"
        BY <1>0, Routed
      <4> QED
        BY <1>0, <4>1, UsersPath DEF Segs
    <3>2. e = <<"coll", "clients", req[p].name>>
      BY <1>0, <3>1, ClientsPath
    <3>3. <<"clients", req[p].name>> \in DOMAIN actors \cup Objects
      BY <1>3, <3>2 DEF Exists
    <3>4. <<"clients", req[p].name>> \notin Objects
      BY RoutedRequests DEF Segs
    <3> QED
      BY <3>1, <3>3, <3>4 DEF Target
  <2> QED
    BY <1>0, <2>1, <2>2, <2>3 DEF Sees, Reads, SameWho, ReadOnly, SameStore, store
<1> QED
  BY <1>1, <1>2, <1>3

LEMMA ActorAllowedEffect ==
    ASSUME Control, NEW p \in Procs, ActorAllowed(p)
    PROVE  Ends(p) \/ Admits(p)
<1>0. /\ pc[p] = "allowed" /\ ReadOnly /\ UNCHANGED loc /\ pc[p] # "idle" /\ ~Between(p)
      /\ Typed /\ Stage(p)
  BY DEF ActorAllowed, Between, Control
<1>00. req[p].op \in Places /\ Check(p).kind = "acl"
  BY <1>0, Routed DEF Stage, Places
<1>1. (Goto(p, req[p].op) /\ Admitted(p)) \/ Reply(p, 403)
  <2> DEFINE c == Check(p)
             groups == IF c.global THEN {} ELSE GroupsOf(loc[p].who.name)
             allows == aceAllows(loadACL(<<c.typ, c.name>>)[c.perm], loc[p].who.name, groups)
  <2>1. (Goto(p, req[p].op) /\ allows) \/ Reply(p, 403)
    BY Zenon DEF ActorAllowed
  <2>2. groups \in SUBSET GroupsOf(loc[p].who.name)
    OBVIOUS
  <2>3. allows => Admitted(p)
    <3> HIDE DEF groups
    <3> QED BY <1>00, <2>2, Zenon DEF Admitted
  <2> QED
    BY <2>1, <2>3, Zenon
<1>2. CASE Goto(p, req[p].op) /\ Admitted(p)
  <2>1. ~(req[p].op = "createActor" /\ req[p].seg = "users")
    BY <1>00, UsersPath
  <2>2. Moves(p) /\ pc'[p] = req[p].op /\ Stays(p)
    BY <1>0, <1>00, <1>2, Going DEF ReadOnly
  <2> QED
    BY <1>0, <1>2, <2>1, <2>2 DEF Admits, Reads, ReadOnly, SameStore, store
<1>3. CASE Reply(p, 403)
  BY <1>0, <1>3, Ending
<1> QED
  BY <1>1, <1>2, <1>3

LEMMA AuthenticateEffect ==
    ASSUME Control, NEW p \in Procs, AuthenticateUser(p)
    PROVE  Ends(p) \/ Asks(p)
<1>0. /\ pc[p] = "authenticateUser" /\ ReadOnly /\ UNCHANGED loc /\ pc[p] # "idle" /\ ~Between(p)
      /\ Typed /\ "password" \in Places
  BY DEF AuthenticateUser, Between, Control, Places
<1>1. Goto(p, "password") \/ Reply(p, 403) \/ Reply(p, 401)
  BY Zenon DEF AuthenticateUser
<1>2. CASE Goto(p, "password")
  <2>1. Moves(p) /\ pc'[p] = "password" /\ Stays(p)
    BY <1>0, <1>2, Going DEF ReadOnly
  <2> QED
    BY <1>0, <2>1 DEF Asks, Reads, ReadOnly, SameStore, store
<1>3. CASE Reply(p, 403) \/ Reply(p, 401)
  BY <1>0, <1>3, Ending
<1> QED
  BY <1>1, <1>2, <1>3

\* The steps that only answer.
LEMMA AnswerEffect ==
    ASSUME Control, NEW p \in Procs, GetActor(p) \/ ShowKeys(p) \/ VerifyPassword(p) \/ Other(p)
    PROVE  Ends(p)
<1>0. Typed /\ Stage(p)
  BY DEF Control
<1>1. CASE GetActor(p)
  <2>1. /\ pc[p] \in {"getActor", "listActors"} /\ ReadOnly /\ UNCHANGED loc
        /\ \E c : Reply(p, c)
    BY <1>1, Zenon DEF GetActor
  <2> QED
    BY <1>0, <2>1, Ending DEF Between, Stage, Ops, KeyWrites, AuthSteps
<1>2. CASE ShowKeys(p)
  <2>1. /\ pc[p] = "loaded" /\ req[p].op \in {"listKeys", "getKey"} /\ ReadOnly /\ UNCHANGED loc
        /\ \E c : Reply(p, c)
    BY <1>2, Zenon DEF ShowKeys
  <2> QED
    BY <1>0, <2>1, Ending DEF Between, KeyWrites, AuthSteps
<1>3. CASE VerifyPassword(p)
  <2>1. /\ pc[p] = "password" /\ ReadOnly /\ UNCHANGED loc
        /\ \E c : Reply(p, c)
    BY <1>3, Zenon DEF VerifyPassword
  <2> QED
    BY <1>0, <2>1, Ending DEF Between, KeyWrites, Stage, AuthSteps
<1>4. CASE Other(p)
  BY <1>0, <1>4, Ending DEF Other, Between, Stage, Ops, KeyWrites, AuthSteps
<1> QED
  BY <1>1, <1>2, <1>3, <1>4


\* Setting fields of the locals.
LEMMA SetRec ==
    ASSUME NEW l, Locals(l), NEW r, DOMAIN r = {"pub", "admin"}
    PROVE  LET m == [l EXCEPT !.rec = r]
           IN Locals(m) /\ m.rec = r /\ m.who = l.who /\ m.row = l.row
BY DEF Locals, LocFields

LEMMA SetRecPub ==
    ASSUME NEW l, Locals(l), NEW x
    PROVE  LET m == [l EXCEPT !.rec.pub = x]
           IN Locals(m) /\ m.rec.pub = x /\ m.who = l.who
BY DEF Locals, LocFields

LEMMA SetTodo ==
    ASSUME NEW l, Locals(l), NEW x
    PROVE  LET m == [l EXCEPT !.todo = x]
           IN Locals(m) /\ m.todo = x /\ m.who = l.who
BY DEF Locals, LocFields

LEMMA SetPub ==
    ASSUME NEW l, Locals(l), NEW x
    PROVE  LET m == [l EXCEPT !.pub = x]
           IN Locals(m) /\ m.pub = x /\ m.who = l.who /\ m.rec = l.rec
BY DEF Locals, LocFields

LEMMA CreateActorEffect ==
    ASSUME Control, NEW p \in Procs, CreateActor(p)
    PROVE  Ends(p) \/ Claims(p)
<1> DEFINE admin == req[p].body.admin = "true"
           rec == [pub |-> NewKey(req[p].body, req[p].api), admin |-> admin]
           l == [loc[p] EXCEPT !.rec = rec]
<1>0. /\ pc[p] = "createActor" /\ ReadOnly /\ pc[p] # "idle" /\ ~Between(p)
      /\ Typed /\ Stage(p) /\ Locals(loc[p]) /\ "stash" \in Places /\ "create" \in Places
  BY DEF CreateActor, Between, Control, Typed, Places, CreateSteps
<1>00. req[p].op = "createActor" /\ req[p].seg \in Segs
  BY <1>0, Routed DEF Stage, Ops, Writes
<1>1. \/ (Reply(p, 400) \/ Reply(p, 409)) /\ UNCHANGED loc
      \/ /\ ~actorNameCollision(req[p].seg, req[p].name) /\ Local(p, l)
         /\ Goto(p, "stash") \/ Goto(p, "create")
  BY Zenon DEF CreateActor
<1>2. CASE (Reply(p, 400) \/ Reply(p, 409)) /\ UNCHANGED loc
  BY <1>0, <1>2, Ending
<1>3. CASE /\ ~actorNameCollision(req[p].seg, req[p].name) /\ Local(p, l)
           /\ Goto(p, "stash") \/ Goto(p, "create")
  <2>1. DOMAIN rec = {"pub", "admin"}
    <3> HIDE DEF admin
    <3> QED OBVIOUS
  <2>2. Locals(l) /\ l.who = loc[p].who
    <3> HIDE DEF rec
    <3> QED BY <1>0, <2>1, SetRec
  <2>3. Moves(p) /\ pc'[p] \in {"stash", "create"} /\ loc'[p] = l
    <3> HIDE DEF l
    <3> QED BY <1>0, <1>3, <2>2, Going DEF ReadOnly
  <2>4. Rival(Target(p)) \notin DOMAIN actors
    BY <1>00, <1>3 DEF actorNameCollision, Rival, Target, Segs
  <2> QED
    BY <1>0, <2>2, <2>3, <2>4 DEF Claims, Reads, SameWho, ReadOnly, SameStore, store
<1> QED
  BY <1>1, <1>2, <1>3

LEMMA StashEffect ==
    ASSUME Control, NEW p \in Procs, StashPassword(p)
    PROVE  Stashes(p)
<1>0. /\ pc[p] = "stash" /\ Lockless /\ UNCHANGED <<actors, rows, acls, member, loc>> /\ pc[p] # "idle"
      /\ Typed /\ Goto(p, IF req[p].op = "createActor" THEN "create" ELSE "putRecord")
      /\ "create" \in Places /\ "putRecord" \in Places
  BY DEF StashPassword, Control, Places, CreateSteps, UpdateSteps
<1>1. Moves(p) /\ pc'[p] = (IF req[p].op = "createActor" THEN "create" ELSE "putRecord") /\ Stays(p)
  BY <1>0, Going
<1> QED
  BY <1>0, <1>1 DEF Stashes, Reads, SameStore

LEMMA CreateEffect ==
    ASSUME Control, NEW p \in Procs, Create(p)
    PROVE  Ends(p) \/ Creates(p)
<1>0. /\ pc[p] = "create" /\ writer = Nobody /\ Fixed /\ UNCHANGED <<rows, acls, passwords, member, loc, writer>>
      /\ pc[p] # "idle" /\ ~Between(p) /\ Typed /\ Stage(p) /\ "grantCreator" \in Places
  BY DEF Create, Between, Control, Places, CreateSteps
<1>1. \/ Reply(p, 409) /\ UNCHANGED <<actors, readers>>
      \/ /\ Target(p) \notin DOMAIN actors
         /\ actors' = With(actors, Target(p), loc[p].rec)
         /\ Goto(p, "grantCreator")
  BY Zenon DEF Create
<1>2. CASE Reply(p, 409) /\ UNCHANGED <<actors, readers>>
  <2>1. Moves(p) /\ pc'[p] = "idle" /\ out'[p] = 409
    BY <1>0, <1>2, Replying DEF locks
  <2> QED
    BY <1>0, <1>2, <2>1 DEF Ends, Refused, SameStore
<1>3. CASE /\ Target(p) \notin DOMAIN actors
           /\ actors' = With(actors, Target(p), loc[p].rec)
           /\ Goto(p, "grantCreator")
  <2>1. /\ pc' = [pc EXCEPT ![p] = "grantCreator"] /\ DOMAIN out' = Procs /\ Answering(p)
        /\ UNCHANGED <<req, near, frayed, offered, failed, writer>>
    BY <1>0, <1>3 DEF Goto, Fixed, Typed, Answering
  <2>2. Moves(p) /\ pc'[p] = "grantCreator" /\ Stays(p)
    BY <1>0, <2>1, Staying
  <2> QED
    BY <1>0, <1>3, <2>2 DEF Creates
<1> QED
  BY <1>1, <1>2, <1>3

LEMMA GrantCreatorEffect ==
    ASSUME Control, NEW p \in Procs, GrantCreator(p)
    PROVE  Grants(p)
<1>0. /\ pc[p] = "grantCreator" /\ Fixed /\ UNCHANGED <<actors, rows, passwords, member, loc>>
      /\ acls' = With(acls, Target(p), creatorACL(loc[p].who.name))
      /\ pc[p] # "idle" /\ Typed /\ "join" \in Places
  BY DEF GrantCreator, Control, Places, CreateSteps
<1>1. (Goto(p, "join") /\ UNCHANGED locks) \/ (Reply(p, 201) /\ Release(p))
  <2>1. CASE req[p].seg = "clients" /\ ~req[p].body.validator
    BY <2>1, Zenon DEF GrantCreator
  <2>2. CASE ~(req[p].seg = "clients" /\ ~req[p].body.validator)
    BY <2>2, Zenon DEF GrantCreator
  <2> QED
    BY <2>1, <2>2
<1>2. Moves(p) /\ pc'[p] \in {"join", "idle"} /\ Stays(p)
  BY <1>0, <1>1, Going, Replying DEF Lockless
<1> QED
  BY <1>0, <1>2 DEF Grants

LEMMA JoinEffect ==
    ASSUME Control, NEW p \in Procs, JoinClients(p)
    PROVE  Joins(p)
<1>0. /\ pc[p] = "join" /\ Fixed /\ UNCHANGED <<actors, rows, acls, passwords, loc>>
      /\ member' = member \cup {<<"clients", req[p].name>>}
      /\ pc[p] # "idle" /\ Typed /\ Reply(p, 201) /\ Release(p)
  BY DEF JoinClients, Control
<1>1. Moves(p) /\ pc'[p] = "idle" /\ Stays(p)
  BY <1>0, Replying
<1> QED
  BY <1>0, <1>1 DEF Joins


LEMMA PutActorEffect ==
    ASSUME Control, NEW p \in Procs, PutActor(p)
    PROVE  Ends(p) \/ Starts(p)
<1> DEFINE admin == req[p].body.admin = "true"
           rec == [pub |-> req[p].body.pub, admin |-> admin]
           l == [loc[p] EXCEPT !.rec = rec]
<1>0. /\ pc[p] = "putActor" /\ ReadOnly /\ pc[p] # "idle" /\ ~Between(p)
      /\ Typed /\ Stage(p) /\ Locals(loc[p]) /\ "merge" \in Places /\ "key" \in Places
  BY DEF PutActor, Between, Control, Typed, Places, UpdateSteps
<1>1. \/ (Reply(p, 400) \/ Reply(p, 404)) /\ UNCHANGED loc
      \/ /\ loc[p].preread \/ Target(p) \in DOMAIN actors
         /\ Local(p, l) /\ (Goto(p, "merge") \/ Goto(p, "key"))
  BY Zenon DEF PutActor
<1>2. CASE (Reply(p, 400) \/ Reply(p, 404)) /\ UNCHANGED loc
  BY <1>0, <1>2, Ending
<1>3. CASE /\ loc[p].preread \/ Target(p) \in DOMAIN actors
           /\ Local(p, l) /\ (Goto(p, "merge") \/ Goto(p, "key"))
  <2>1. DOMAIN rec = {"pub", "admin"}
    <3> HIDE DEF admin
    <3> QED OBVIOUS
  <2>2. Locals(l) /\ l.who = loc[p].who
    <3> HIDE DEF rec
    <3> QED BY <1>0, <2>1, SetRec
  <2>3. Moves(p) /\ pc'[p] \in {"merge", "key"} /\ loc'[p] = l
    <3> HIDE DEF l
    <3> QED BY <1>0, <1>3, <2>2, Going DEF ReadOnly
  <2> QED
    BY <1>0, <1>3, <2>2, <2>3 DEF Starts, Reads, SameWho, ReadOnly, SameStore, store
<1> QED
  BY <1>1, <1>2, <1>3

LEMMA MergeEffect ==
    ASSUME Control, NEW p \in Procs, MergeUser(p)
    PROVE  Merges(p)
<1>0. /\ pc[p] = "merge" /\ ReadOnly /\ pc[p] # "idle" /\ Goto(p, "key")
      /\ Typed /\ Locals(loc[p]) /\ "key" \in Places
  BY DEF MergeUser, Control, Typed, Places, UpdateSteps
<1>1. PICK pub, admin : Local(p, [loc[p] EXCEPT !.rec = [pub |-> pub, admin |-> admin]])
  BY Zenon DEF MergeUser
<1> DEFINE rec == [pub |-> pub, admin |-> admin]
           l == [loc[p] EXCEPT !.rec = rec]
<1>2. Locals(l) /\ l.who = loc[p].who
  <2>1. DOMAIN rec = {"pub", "admin"}
    OBVIOUS
  <2> HIDE DEF rec
  <2> QED BY <1>0, <2>1, SetRec
<1>3. Moves(p) /\ pc'[p] = "key" /\ loc'[p] = l
  <2> HIDE DEF l
  <2> QED BY <1>0, <1>1, <1>2, Going DEF ReadOnly, l
<1> QED
  BY <1>0, <1>2, <1>3 DEF Merges, Reads, SameWho, ReadOnly, SameStore, store

LEMMA ChooseKeyEffect ==
    ASSUME Control, NEW p \in Procs, ChooseKey(p)
    PROVE  Chooses(p)
<1> DEFINE d == Default(Target(p))
           own == IF Target(p) \in DOMAIN actors THEN actors[Target(p)].pub ELSE NoKey
           put(pub) == [loc[p] EXCEPT !.rec.pub = pub, !.row = [rows[d] EXCEPT !.pub = pub]]
           set(pub) == [loc[p] EXCEPT !.rec.pub = pub]
<1>0. /\ pc[p] = "key" /\ ReadOnly /\ pc[p] # "idle"
      /\ Typed /\ Shaped /\ Locals(loc[p]) /\ "defaultRow" \in Places /\ "privilege" \in Places
  BY DEF ChooseKey, Control, Typed, Places, UpdateSteps
<1>1. PICK pub : \/ d \in DOMAIN rows /\ Local(p, put(pub)) /\ Goto(p, "defaultRow")
                 \/ d \notin DOMAIN rows /\ Local(p, set(pub)) /\ Goto(p, "privilege")
                 \/ Local(p, set(own)) /\ Goto(p, "privilege")
  BY Zenon DEF ChooseKey, Default
<1>2. CASE d \in DOMAIN rows /\ Local(p, put(pub)) /\ Goto(p, "defaultRow")
  <2>1. DOMAIN rows[d] = {"pub", "exp"}
    BY <1>0, <1>2 DEF Shaped
  <2>2. Locals(put(pub)) /\ put(pub).who = loc[p].who /\ put(pub).rec.pub = pub /\ put(pub).row.pub = pub
    <3> HIDE DEF d
    <3> QED BY <1>0, <2>1 DEF Locals, LocFields
  <2>3. Moves(p) /\ pc'[p] = "defaultRow" /\ loc'[p] = put(pub)
    <3> HIDE DEF put
    <3> QED BY <1>0, <1>2, <2>2, Going DEF ReadOnly
  <2> HIDE DEF put
  <2> QED
    BY <1>0, <2>2, <2>3 DEF Chooses, Reads, SameWho, ReadOnly, SameStore, store
<1>3. CASE d \notin DOMAIN rows /\ Local(p, set(pub)) /\ Goto(p, "privilege")
  <2>1. Locals(set(pub)) /\ set(pub).who = loc[p].who
    BY <1>0, SetRecPub
  <2>2. Moves(p) /\ pc'[p] = "privilege" /\ loc'[p] = set(pub)
    <3> HIDE DEF set
    <3> QED BY <1>0, <1>3, <2>1, Going DEF ReadOnly
  <2> HIDE DEF set
  <2> QED
    BY <1>0, <1>3, <2>1, <2>2 DEF Chooses, Reads, SameWho, ReadOnly, SameStore, store
<1>4. CASE Local(p, set(own)) /\ Goto(p, "privilege")
  <2>1. Locals(set(own)) /\ set(own).who = loc[p].who /\ set(own).rec.pub = own
    <3> HIDE DEF own
    <3> QED BY <1>0, SetRecPub
  <2>2. Moves(p) /\ pc'[p] = "privilege" /\ loc'[p] = set(own)
    <3> HIDE DEF set, own
    <3> QED BY <1>0, <1>4, <2>1, Going DEF ReadOnly
  <2> HIDE DEF set
  <2> QED
    BY <1>0, <2>1, <2>2 DEF Chooses, Reads, SameWho, ReadOnly, SameStore, store
<1> QED
  BY <1>1, <1>2, <1>3, <1>4

LEMMA PutDefaultEffect ==
    ASSUME Control, NEW p \in Procs, PutDefaultRow(p)
    PROVE  PutsDefault(p)
<1>0. /\ pc[p] = "defaultRow" /\ Lockless /\ UNCHANGED <<actors, acls, passwords, member, loc>>
      /\ rows' = With(rows, Default(Target(p)), loc[p].row) /\ Goto(p, "privilege")
      /\ pc[p] # "idle" /\ Typed /\ "privilege" \in Places
  BY DEF PutDefaultRow, Control, Places, UpdateSteps, Default
<1>1. Moves(p) /\ pc'[p] = "privilege" /\ Stays(p)
  BY <1>0, Going
<1> QED
  BY <1>0, <1>1 DEF PutsDefault

LEMMA PreserveEffect ==
    ASSUME Control, NEW p \in Procs, PreservePrivilege(p)
    PROVE  Preserves(p)
<1> DEFINE lower == req[p].seg = "users" /\ ~loc[p].who.super
           flag == Target(p) \in DOMAIN actors /\ actors[Target(p)].admin
<1>0. /\ pc[p] = "privilege" /\ ReadOnly /\ pc[p] # "idle"
      /\ Typed /\ Locals(loc[p]) /\ "stash" \in Places /\ "putRecord" \in Places
  BY DEF PreservePrivilege, Control, Typed, Places, UpdateSteps
<1>1. /\ Goto(p, "stash") \/ Goto(p, "putRecord")
      /\ Local(p, IF lower THEN [loc[p] EXCEPT !.rec.admin = flag] ELSE loc[p])
  BY Zenon DEF PreservePrivilege
<1>2. CASE ~lower
  <2>1. Moves(p) /\ pc'[p] \in {"stash", "putRecord"} /\ loc'[p] = loc[p]
    <3>1. Local(p, loc[p])
      BY <1>1, <1>2, Zenon
    <3> QED
      BY <1>0, <1>1, <3>1, Going DEF ReadOnly
  <2>2. Preserved(p)
    BY <1>2, Zenon DEF Preserved
  <2> QED
    BY <1>0, <2>1, <2>2 DEF Preserves, Reads, SameWho, ReadOnly, SameStore, store
<1>3. CASE lower
  <2> DEFINE l == [loc[p] EXCEPT !.rec.admin = flag]
  <2>1. Locals(l) /\ l.who = loc[p].who /\ l.rec.pub = loc[p].rec.pub /\ l.rec.admin = flag
    <3> HIDE DEF flag
    <3> QED BY <1>0 DEF Locals, LocFields
  <2>2. Moves(p) /\ pc'[p] \in {"stash", "putRecord"} /\ loc'[p] = l
    <3>1. Local(p, l)
      BY <1>1, <1>3, Zenon
    <3> HIDE DEF l
    <3> QED BY <1>0, <1>1, <2>1, <3>1, Going DEF ReadOnly
  <2> HIDE DEF l
  <2>3. Admin(loc'[p].rec) => flag
    BY <2>1, <2>2, Zenon DEF Admin
  <2>4. Preserved(p)
    BY <2>3, Zenon DEF Preserved, Admin
  <2> QED
    BY <1>0, <2>1, <2>2, <2>4 DEF Preserves, Reads, SameWho, ReadOnly, SameStore, store
<1> QED
  BY <1>2, <1>3

LEMMA PutRecordEffect ==
    ASSUME Control, NEW p \in Procs, PutRecord(p)
    PROVE  PutsRecord(p)
<1>0. /\ pc[p] = "putRecord" /\ Lockless /\ UNCHANGED <<rows, acls, passwords, member, loc>>
      /\ actors' = With(actors, Target(p), loc[p].rec) /\ Reply(p, 200)
      /\ pc[p] # "idle" /\ Typed
  BY DEF PutRecord, Control
<1>1. Moves(p) /\ pc'[p] = "idle" /\ Stays(p)
  BY <1>0, Replying DEF Lockless
<1> QED
  BY <1>0, <1>1 DEF PutsRecord


LEMMA DeleteActorEffect ==
    ASSUME Control, NEW p \in Procs, DeleteActor(p)
    PROVE  Ends(p) \/ Locks(p)
<1> DEFINE to == IF req[p].seg = "users" THEN "usersACLs" ELSE "orgACLs"
<1>0. /\ pc[p] = "deleteActor" /\ writer = Nobody /\ Fixed /\ UNCHANGED <<store, readers, loc>>
      /\ pc[p] # "idle" /\ ~Between(p) /\ Typed /\ Stage(p)
  BY DEF DeleteActor, Between, Control
<1>00. to \in Places /\ SameStore
  BY <1>0 DEF Places, DeleteSteps, SameStore, store
<1>1. (Reply(p, 404) /\ UNCHANGED writer) \/ (writer' = p /\ Goto(p, to))
  BY Zenon DEF DeleteActor
<1>2. CASE Reply(p, 404) /\ UNCHANGED writer
  <2>1. Moves(p) /\ pc'[p] = "idle" /\ out'[p] = 404
    BY <1>0, <1>2, Replying DEF locks
  <2> QED
    BY <1>0, <1>00, <2>1 DEF Ends, Refused
<1>3. CASE writer' = p /\ Goto(p, to)
  <2>1. /\ pc' = [pc EXCEPT ![p] = to] /\ DOMAIN out' = Procs /\ Answering(p)
        /\ UNCHANGED <<req, near, frayed, offered, failed>>
        /\ \A q \in Procs \ {p} : writer = q => writer' = q
    BY <1>0, <1>3, RoutedRequests DEF Goto, Fixed, Typed, Answering
  <2>2. Moves(p) /\ pc'[p] = to /\ Stays(p)
    BY <1>0, <1>00, <1>3, <2>1, Staying
  <2> QED
    BY <1>0, <1>00, <1>3, <2>2 DEF Locks, Reads
<1> QED
  BY <1>1, <1>2, <1>3

LEMMA RangeEffect ==
    ASSUME Control, NEW p \in Procs, RangeACLs(p)
    PROVE  Ranges(p)
<1> DEFINE to == IF pc[p] = "usersACLs" THEN "putUsersACLs" ELSE "putOrgACLs"
           named == {k \in DOMAIN acls : (k[1] = "users") = (pc[p] = "usersACLs")
                                         /\ Names(acls[k], req[p].name)}
           todo == {<<k, Without(acls[k], req[p].name)>> : k \in named}
           l == [loc[p] EXCEPT !.todo = todo]
<1>0. /\ pc[p] \in {"usersACLs", "orgACLs"} /\ ReadOnly /\ pc[p] # "idle" /\ Typed /\ Locals(loc[p])
      /\ to \in Places
  BY DEF RangeACLs, Control, Typed, Places, DeleteSteps
<1>1. Local(p, l) /\ Goto(p, to)
  BY Zenon DEF RangeACLs
<1>2. Locals(l) /\ l.todo = todo /\ l.who = loc[p].who
  <2> HIDE DEF todo
  <2> QED BY <1>0, SetTodo
<1>3. Moves(p) /\ pc'[p] = to /\ loc'[p] = l
  <2> HIDE DEF l, to
  <2> QED BY <1>0, <1>1, <1>2, Going DEF ReadOnly
<1>4. named = Named(p, pc[p] = "usersACLs")
  BY DEF Named, Of
<1>5. loc'[p].todo = {<<k, Without(acls[k], req[p].name)>> : k \in Named(p, pc[p] = "usersACLs")}
  BY <1>2, <1>3, <1>4, Zenon
<1>6. SameStore /\ SameWho(p)
  <2> HIDE DEF l
  <2> QED BY <1>0, <1>2, <1>3 DEF ReadOnly, SameStore, store, SameWho
<1> HIDE DEF l, named, todo
<1> QED
  BY <1>0, <1>3, <1>5, <1>6, Zenon DEF Ranges, Reads

LEMMA PutCleanEffect ==
    ASSUME Control, NEW p \in Procs, PutCleanACL(p)
    PROVE  PutsClean(p) \/ Finishes(p)
<1> DEFINE to == IF pc[p] = "putOrgACLs" /\ req[p].seg = "users" THEN "ownACL" ELSE "leaveGroups"
<1>0. /\ pc[p] \in {"putUsersACLs", "putOrgACLs"} /\ Lockless /\ UNCHANGED <<actors, rows, passwords, member>>
      /\ pc[p] # "idle" /\ Typed /\ Locals(loc[p]) /\ to \in Places
  BY DEF PutCleanACL, Control, Typed, Places, DeleteSteps
<1>1. \/ \E x \in loc[p].todo : /\ acls' = With(acls, x[1], x[2])
                                /\ Local(p, [loc[p] EXCEPT !.todo = @ \ {x}])
                                /\ UNCHANGED <<pc, out>>
      \/ loc[p].todo = {} /\ Goto(p, to) /\ UNCHANGED <<acls, loc>>
  BY Zenon DEF PutCleanACL
<1>2. CASE \E x \in loc[p].todo : /\ acls' = With(acls, x[1], x[2])
                                  /\ Local(p, [loc[p] EXCEPT !.todo = @ \ {x}])
                                  /\ UNCHANGED <<pc, out>>
  <2>1. PICK x \in loc[p].todo : /\ acls' = With(acls, x[1], x[2])
                                 /\ Local(p, [loc[p] EXCEPT !.todo = @ \ {x}])
                                 /\ UNCHANGED <<pc, out>>
    BY <1>2
  <2> DEFINE left1 == loc[p].todo \ {x}
             l == [loc[p] EXCEPT !.todo = left1]
  <2>2. Local(p, l)
    BY <2>1
  <2>3. Locals(l) /\ l.todo = left1 /\ l.who = loc[p].who
    <3> HIDE DEF left1
    <3> QED BY <1>0, SetTodo
  <2>4. /\ pc' = [pc EXCEPT ![p] = pc[p]] /\ DOMAIN out' = Procs /\ pc[p] \in Places /\ Answering(p)
        /\ UNCHANGED <<req, near, frayed, offered, failed, writer>>
    BY <1>0, <2>1 DEF Lockless, Fixed, locks, Typed, Answering
  <2>5. Moves(p) /\ pc'[p] = pc[p] /\ loc'[p] = l
    <3> HIDE DEF l
    <3> QED BY <1>0, <2>2, <2>3, <2>4, Moving DEF Local
  <2>6. SameWho(p) /\ loc'[p].todo = loc[p].todo \ {x}
    <3> HIDE DEF l
    <3> QED BY <2>3, <2>5 DEF SameWho
  <2> QED
    BY <1>0, <2>1, <2>5, <2>6 DEF PutsClean
<1>3. CASE loc[p].todo = {} /\ Goto(p, to) /\ UNCHANGED <<acls, loc>>
  <2>1. Moves(p) /\ pc'[p] = to /\ Stays(p)
    BY <1>0, <1>3, Going
  <2> QED
    BY <1>0, <1>3, <2>1 DEF Finishes, Reads, SameStore
<1> QED
  BY <1>1, <1>2, <1>3

LEMMA LeaveEffect ==
    ASSUME Control, NEW p \in Procs, LeaveGroups(p)
    PROVE  Leaves(p)
<1> DEFINE to == IF req[p].seg = "users" THEN "orgACLs" ELSE "ownACL"
<1>0. /\ pc[p] = "leaveGroups" /\ Lockless /\ UNCHANGED <<actors, rows, acls, passwords, loc>>
      /\ member' = {m \in member : m[2] # req[p].name} /\ Goto(p, to)
      /\ pc[p] # "idle" /\ Typed /\ to \in Places
  BY DEF LeaveGroups, Control, Places, DeleteSteps
<1>1. Moves(p) /\ pc'[p] = to /\ Stays(p)
  BY <1>0, Going
<1> QED
  BY <1>0, <1>1 DEF Leaves

LEMMA OwnACLEffect ==
    ASSUME Control, NEW p \in Procs, DeleteOwnACL(p)
    PROVE  DropsACL(p)
<1>0. /\ pc[p] = "ownACL" /\ Lockless /\ UNCHANGED <<actors, rows, passwords, member, loc>>
      /\ acls' = Less(acls, {Target(p)}) /\ Goto(p, "listRows")
      /\ pc[p] # "idle" /\ Typed /\ "listRows" \in Places
  BY DEF DeleteOwnACL, Control, Places, DeleteSteps
<1>1. Moves(p) /\ pc'[p] = "listRows" /\ Stays(p)
  BY <1>0, Going
<1> QED
  BY <1>0, <1>1 DEF DropsACL

LEMMA ListEffect ==
    ASSUME Control, NEW p \in Procs, ListKeyRows(p)
    PROVE  Lists(p)
<1> DEFINE l == [loc[p] EXCEPT !.todo = KeyRows(Target(p))]
<1>0. /\ pc[p] = "listRows" /\ ReadOnly /\ Local(p, l) /\ Goto(p, "deleteRows")
      /\ pc[p] # "idle" /\ Typed /\ Locals(loc[p]) /\ "deleteRows" \in Places
  BY DEF ListKeyRows, Control, Typed, Places, DeleteSteps
<1>1. Locals(l) /\ l.todo = KeyRows(Target(p)) /\ l.who = loc[p].who
  BY <1>0, SetTodo
<1> HIDE DEF l
<1>2. Moves(p) /\ pc'[p] = "deleteRows" /\ loc'[p] = l
  BY <1>0, <1>1, Going DEF ReadOnly
<1> QED
  BY <1>0, <1>1, <1>2 DEF Lists, Reads, SameWho, ReadOnly, SameStore, store

LEMMA DropRowEffect ==
    ASSUME Control, NEW p \in Procs, DeleteKeyRow(p)
    PROVE  DropsRow(p)
<1>0. /\ pc[p] = "deleteRows" /\ Lockless /\ UNCHANGED <<actors, acls, passwords, member>>
      /\ UNCHANGED <<pc, out>> /\ pc[p] # "idle" /\ Typed /\ Locals(loc[p])
  BY DEF DeleteKeyRow, Control, Typed
<1>1. PICK k \in loc[p].todo : rows' = Less(rows, {k}) /\ Local(p, [loc[p] EXCEPT !.todo = @ \ {k}])
  BY DEF DeleteKeyRow
<1> DEFINE left1 == loc[p].todo \ {k}
           l == [loc[p] EXCEPT !.todo = left1]
<1>2. Local(p, l)
  BY <1>1
<1>3. Locals(l) /\ l.todo = left1 /\ l.who = loc[p].who
  <2> HIDE DEF left1
  <2> QED BY <1>0, SetTodo
<1>4. /\ pc' = [pc EXCEPT ![p] = pc[p]] /\ DOMAIN out' = Procs /\ pc[p] \in Places /\ Answering(p)
      /\ UNCHANGED <<req, near, frayed, offered, failed, writer>>
  BY <1>0 DEF Lockless, Fixed, locks, Typed, Answering
<1>5. Moves(p) /\ pc'[p] = pc[p] /\ loc'[p] = l
  <2>1. loc' = [loc EXCEPT ![p] = l] /\ failed \subseteq failed'
    BY <1>2, <1>4 DEF Local
  <2>2. /\ writer = p /\ pc[p] # "idle" => writer' = p
        /\ \A q \in Procs \ {p} : writer = q => writer' = q
    BY <1>4
  <2>3. Typed /\ pc[p] # "idle"
    BY <1>0
  <2> HIDE DEF l
  <2> QED BY <1>3, <1>4, <2>1, <2>2, <2>3, Moving
<1>6. SameWho(p) /\ loc'[p].todo = loc[p].todo \ {k}
  <2> HIDE DEF l
  <2> QED BY <1>3, <1>5 DEF SameWho
<1> QED
  BY <1>0, <1>1, <1>5, <1>6 DEF DropsRow

LEMMA DropActorEffect ==
    ASSUME Control, NEW p \in Procs, DeleteRecord(p)
    PROVE  DropsActor(p)
<1>0. /\ pc[p] = "deleteRows" /\ loc[p].todo = {} /\ Fixed /\ UNCHANGED <<rows, acls, passwords, member, loc>>
      /\ actors' = Less(actors, {Target(p)}) /\ Release(p)
      /\ pc[p] # "idle" /\ Typed
  BY DEF DeleteRecord, Control
<1>1. PICK c : Reply(p, c)
  BY DEF DeleteRecord
<1>2. Moves(p) /\ pc'[p] = "idle" /\ Stays(p)
  BY <1>0, <1>1, Replying
<1> QED
  BY <1>0, <1>2 DEF DropsActor


LEMMA LoadEffect ==
    ASSUME Control, NEW p \in Procs, LoadActor(p)
    PROVE  Ends(p) \/ Loads(p)
<1> DEFINE l == [loc[p] EXCEPT !.rec = actors[Target(p)]]
<1>0. /\ pc[p] \in {"listKeys", "getKey"} \cup KeyWrites /\ ReadOnly /\ pc[p] # "idle" /\ ~Between(p)
      /\ Typed /\ Shaped /\ Locals(loc[p]) /\ "loaded" \in Places
  BY DEF LoadActor, Between, Control, Typed, Places, KeySteps, KeyWrites
<1>1. \/ Reply(p, 404) /\ UNCHANGED loc
      \/ Target(p) \in DOMAIN actors /\ Local(p, l) /\ Goto(p, "loaded")
  BY Zenon DEF LoadActor
<1>2. CASE Reply(p, 404) /\ UNCHANGED loc
  BY <1>0, <1>2, Ending
<1>3. CASE Target(p) \in DOMAIN actors /\ Local(p, l) /\ Goto(p, "loaded")
  <2>1. DOMAIN actors[Target(p)] = {"pub", "admin"}
    BY <1>0, <1>3 DEF Shaped
  <2>2. Locals(l) /\ l.rec = actors[Target(p)] /\ l.who = loc[p].who
    BY <1>0, <2>1, SetRec
  <2> HIDE DEF l
  <2>3. Moves(p) /\ pc'[p] = "loaded" /\ loc'[p] = l
    BY <1>0, <1>3, <2>2, Going DEF ReadOnly
  <2> QED
    BY <1>0, <1>3, <2>2, <2>3 DEF Loads, Reads, SameWho, ReadOnly, SameStore, store
<1> QED
  BY <1>1, <1>2, <1>3

LEMMA AddKeyEffect ==
    ASSUME Control, NEW p \in Procs, AddKey(p)
    PROVE  Ends(p) \/ AddsKey(p)
<1> DEFINE b == req[p].body
           pub == IF b.pub = NoKey THEN b.gen ELSE b.pub
           l == [loc[p] EXCEPT !.pub = pub]
<1>0. /\ pc[p] = "loaded" /\ req[p].op = "addKey" /\ Lockless /\ UNCHANGED <<actors, acls, passwords, member>>
      /\ pc[p] # "idle" /\ ~Between(p) /\ Typed /\ Locals(loc[p]) /\ "setNewPub" \in Places
  BY DEF AddKey, Between, Control, Typed, Places, KeySteps
<1>1. \/ (Reply(p, 400) \/ Reply(p, 409)) /\ UNCHANGED <<rows, loc>>
      \/ /\ rows' = With(rows, Row(p), [pub |-> pub, exp |-> b.exp])
         /\ Local(p, l)
         /\ IF req[p].key = "default" THEN Goto(p, "setNewPub") ELSE Reply(p, 201)
  BY Zenon DEF AddKey
<1>2. CASE (Reply(p, 400) \/ Reply(p, 409)) /\ UNCHANGED <<rows, loc>>
  <2>1. ReadOnly
    BY <1>0, <1>2 DEF ReadOnly, store
  <2> QED
    BY <1>0, <1>2, <2>1, Ending
<1>3. CASE /\ rows' = With(rows, Row(p), [pub |-> pub, exp |-> b.exp])
           /\ Local(p, l)
           /\ IF req[p].key = "default" THEN Goto(p, "setNewPub") ELSE Reply(p, 201)
  <2>1. Locals(l) /\ l.pub = pub /\ l.who = loc[p].who /\ l.rec = loc[p].rec
    <3> HIDE DEF pub
    <3> QED BY <1>0, SetPub
  <2>2. /\ Moves(p) /\ loc'[p] = l
        /\ pc'[p] = IF req[p].key = "default" THEN "setNewPub" ELSE "idle"
    <3> HIDE DEF l, pub
    <3>1. CASE req[p].key = "default"
      BY <1>0, <1>3, <2>1, <3>1, Going
    <3>2. CASE req[p].key # "default"
      BY <1>0, <1>3, <2>1, <3>2, Replying DEF Lockless
    <3> QED
      BY <3>1, <3>2
  <2>3. Brought(p, pub)
    BY DEF Brought
  <2>4. loc'[p].pub = pub /\ SameWho(p) /\ SameRec(p)
    <3> HIDE DEF l, pub
    <3> QED BY <2>1, <2>2 DEF SameWho, SameRec
  <2> HIDE DEF l, pub
  <2> QED
    BY <1>0, <1>3, <2>2, <2>3, <2>4 DEF AddsKey
<1> QED
  BY <1>1, <1>2, <1>3

LEMMA PutKeyEffect ==
    ASSUME Control, NEW p \in Procs, PutKeyGet(p)
    PROVE  Ends(p) \/ Plans(p)
<1> DEFINE b == req[p].body
           stored == Row(p) \in DOMAIN rows
           old == IF stored THEN rows[Row(p)] ELSE [pub |-> loc[p].rec.pub, exp |-> "infinity"]
           new == IF b.createKey THEN b.gen ELSE b.pub
           pub == IF new = NoKey THEN old.pub ELSE new
           exp == IF b.exp = "" THEN old.exp ELSE b.exp
           row == [pub |-> pub, exp |-> exp]
           l == [loc[p] EXCEPT !.row = row, !.pub = row.pub]
           renamed == stored /\ b.name \notin {"", req[p].key}
<1>0. /\ pc[p] = "loaded" /\ req[p].op = "putKey" /\ ReadOnly
      /\ pc[p] # "idle" /\ ~Between(p) /\ Typed /\ Locals(loc[p])
      /\ "putRow" \in Places /\ "renameCreate" \in Places
  BY DEF PutKeyGet, Between, Control, Typed, Places, KeySteps, RenameSteps
<1>1. \/ (Reply(p, 400) \/ Reply(p, 404)) /\ UNCHANGED loc
      \/ /\ ~(b.createKey /\ b.pub # NoKey)
         /\ Local(p, l) /\ Goto(p, IF renamed THEN "renameCreate" ELSE "putRow")
  BY Zenon DEF PutKeyGet
<1>2. CASE (Reply(p, 400) \/ Reply(p, 404)) /\ UNCHANGED loc
  BY <1>0, <1>2, Ending
<1>3. CASE /\ ~(b.createKey /\ b.pub # NoKey)
           /\ Local(p, l) /\ Goto(p, IF renamed THEN "renameCreate" ELSE "putRow")
  <2>1. Brought(p, pub)
    <3> HIDE DEF old, stored
    <3> QED BY <1>3 DEF Brought
  <2>2. Locals(l) /\ l.pub = pub /\ l.row.pub = pub /\ l.who = loc[p].who /\ l.rec = loc[p].rec
    <3> HIDE DEF pub, exp
    <3> QED BY <1>0 DEF Locals, LocFields
  <2> HIDE DEF l, pub
  <2>3. /\ Moves(p) /\ loc'[p] = l /\ pc'[p] \in {"putRow", "renameCreate"}
        /\ pc'[p] = "renameCreate" => renamed
    BY <1>0, <1>3, <2>2, Going DEF ReadOnly
  <2>4. pc'[p] = "renameCreate" => req[p].body.name \notin {"", req[p].key}
    BY <2>3
  <2> QED
    BY <1>0, <2>1, <2>2, <2>3, <2>4 DEF Plans, Reads, SameWho, SameRec, ReadOnly, SameStore, store
<1> QED
  BY <1>1, <1>2, <1>3

LEMMA PutRowEffect ==
    ASSUME Control, NEW p \in Procs, PutRow(p)
    PROVE  PutsKey(p)
<1>0. /\ pc[p] = "putRow" /\ Lockless /\ UNCHANGED <<actors, acls, passwords, member, loc>>
      /\ rows' = With(rows, Row(p), loc[p].row)
      /\ pc[p] # "idle" /\ Typed /\ "setPub" \in Places
  BY DEF PutRow, Control, Places, KeySteps
<1>1. CASE req[p].key = "default"
  <2>1. Goto(p, "setPub")
    BY <1>1, Zenon DEF PutRow
  <2>2. Moves(p) /\ pc'[p] = "setPub" /\ Stays(p)
    BY <1>0, <2>1, Going
  <2> QED
    BY <1>0, <1>1, <2>2 DEF PutsKey
<1>2. CASE req[p].key # "default"
  <2>1. Reply(p, 200)
    BY <1>2, Zenon DEF PutRow
  <2>2. Moves(p) /\ pc'[p] = "idle" /\ out'[p] = 200 /\ Stays(p)
    BY <1>0, <2>1, Replying DEF Lockless
  <2> QED
    BY <1>0, <1>2, <2>2 DEF PutsKey
<1> QED
  BY <1>1, <1>2

LEMMA RenameCreateEffect ==
    ASSUME Control, NEW p \in Procs, RenameCreate(p)
    PROVE  Ends(p) \/ RenamesTo(p)
<1>0. /\ pc[p] = "renameCreate" /\ Lockless /\ UNCHANGED <<actors, acls, passwords, member, loc>>
      /\ pc[p] # "idle" /\ ~Between(p) /\ Typed /\ "renameDelete" \in Places
  BY DEF RenameCreate, Between, Control, Places, KeySteps, RenameSteps
<1>1. \/ Reply(p, 409) /\ UNCHANGED rows
      \/ rows' = With(rows, NewRow(p), loc[p].row) /\ Goto(p, "renameDelete")
  BY Zenon DEF RenameCreate
<1>2. CASE Reply(p, 409) /\ UNCHANGED rows
  <2>1. ReadOnly
    BY <1>0, <1>2 DEF ReadOnly, store
  <2> QED
    BY <1>0, <1>2, <2>1, Ending
<1>3. CASE rows' = With(rows, NewRow(p), loc[p].row) /\ Goto(p, "renameDelete")
  <2>1. Moves(p) /\ pc'[p] = "renameDelete" /\ Stays(p)
    BY <1>0, <1>3, Going
  <2> QED
    BY <1>0, <1>3, <2>1 DEF RenamesTo
<1> QED
  BY <1>1, <1>2, <1>3

LEMMA RenameDeleteEffect ==
    ASSUME Control, NEW p \in Procs, RenameDelete(p)
    PROVE  RenamesFrom(p)
<1> DEFINE c == "default" \in {req[p].key, req[p].body.name}
           l == IF req[p].key = "default" THEN [loc[p] EXCEPT !.pub = NoKey] ELSE loc[p]
<1>0. /\ pc[p] = "renameDelete" /\ Lockless /\ UNCHANGED <<actors, acls, passwords, member>>
      /\ rows' = Less(rows, {Row(p)}) /\ Local(p, l)
      /\ pc[p] # "idle" /\ Typed /\ Locals(loc[p]) /\ "setNewPub" \in Places
  BY DEF RenameDelete, Control, Typed, Places, KeySteps
<1>1. /\ Locals(l) /\ l.who = loc[p].who /\ l.rec = loc[p].rec
      /\ l.pub = IF req[p].key = "default" THEN NoKey ELSE loc[p].pub
  BY <1>0, SetPub
<1>2. /\ Moves(p) /\ loc'[p] = l
      /\ IF c THEN pc'[p] = "setNewPub" ELSE pc'[p] = "idle" /\ out'[p] = 201
  <2>1. CASE c
    <3>1. Goto(p, "setNewPub")
      BY <2>1, Zenon DEF RenameDelete
    <3> HIDE DEF l
    <3> QED BY <1>0, <1>1, <2>1, <3>1, Going
  <2>2. CASE ~c
    <3>1. Reply(p, 201)
      BY <2>2, Zenon DEF RenameDelete
    <3> HIDE DEF l
    <3> QED BY <1>0, <1>1, <2>2, <3>1, Replying DEF Lockless
  <2> QED
    BY <2>1, <2>2
<1> HIDE DEF l
<1> QED
  BY <1>0, <1>1, <1>2 DEF RenamesFrom, SameWho, SameRec

LEMMA DeleteKeyEffect ==
    ASSUME Control, NEW p \in Procs, DeleteKey(p)
    PROVE  DeletesKey(p)
<1> DEFINE own == req[p].key = "default" /\ loc[p].rec.pub # NoKey
           l == [loc[p] EXCEPT !.pub = NoKey]
<1>0. /\ pc[p] = "loaded" /\ req[p].op = "deleteKey" /\ Lockless /\ UNCHANGED <<actors, acls, passwords, member>>
      /\ rows' = Less(rows, {Row(p)}) /\ Local(p, l)
      /\ pc[p] # "idle" /\ Typed /\ Locals(loc[p]) /\ "setPub" \in Places
  BY DEF DeleteKey, Control, Typed, Places, KeySteps
<1>1. Locals(l) /\ l.who = loc[p].who /\ l.rec = loc[p].rec /\ l.pub = NoKey
  BY <1>0, SetPub
<1>2. Moves(p) /\ loc'[p] = l /\ pc'[p] = IF own THEN "setPub" ELSE "idle"
  <2>1. CASE own
    <3>1. Goto(p, "setPub")
      BY <2>1, Zenon DEF DeleteKey
    <3> HIDE DEF l
    <3> QED BY <1>0, <1>1, <2>1, <3>1, Going
  <2>2. CASE ~own
    <3>1. \E c : Reply(p, c)
      BY <2>2, Zenon DEF DeleteKey
    <3> HIDE DEF l
    <3> QED BY <1>0, <1>1, <2>2, <3>1, Replying DEF Lockless
  <2> QED
    BY <2>1, <2>2
<1> HIDE DEF l
<1> QED
  BY <1>0, <1>1, <1>2 DEF DeletesKey, SameWho, SameRec

LEMMA SetPubEffect ==
    ASSUME Control, NEW p \in Procs, SetActorPublicKey(p)
    PROVE  SetsPub(p)
<1> DEFINE c == IF pc[p] = "setNewPub" THEN 201 ELSE 200
<1>0. /\ pc[p] \in {"setPub", "setNewPub"} /\ Lockless /\ UNCHANGED <<rows, acls, passwords, member, loc>>
      /\ actors' = With(actors, Target(p), [loc[p].rec EXCEPT !.pub = loc[p].pub])
      /\ Reply(p, c) /\ pc[p] # "idle" /\ Typed
  BY DEF SetActorPublicKey, Control
<1>1. Moves(p) /\ pc'[p] = "idle" /\ out'[p] = c /\ Stays(p)
  BY <1>0, Replying DEF Lockless
<1> QED
  BY <1>0, <1>1 DEF SetsPub


LEMMA FindACLEffect ==
    ASSUME Control, NEW p \in Procs, FindACLObject(p)
    PROVE  Ends(p) \/ Checks(p)
<1>0. /\ pc[p] \in {"getACL", "putACL"} /\ ReadOnly /\ UNCHANGED loc
      /\ pc[p] # "idle" /\ ~Between(p) /\ Typed /\ Stage(p) /\ "keepAdmins" \in Places
  BY DEF FindACLObject, Between, Control, Places, ACLSteps
<1>00. req[p].op \notin KeyWrites /\ pc[p] \notin AuthSteps
  BY <1>0 DEF Stage, Ops, Writes, KeyWrites, AuthSteps
<1>1. \/ \E c : Reply(p, c)
      \/ /\ pc[p] # "getACL" /\ req[p].perm \in aclPerms /\ Exists(req[p].typ, req[p].obj)
         /\ Goto(p, "keepAdmins")
  <2>1. CASE req[p].perm \notin aclPerms \/ ~Exists(req[p].typ, req[p].obj)
    <3>1. Reply(p, 404)
      BY <2>1, Zenon DEF FindACLObject
    <3> QED BY <3>1
  <2>2. CASE ~(req[p].perm \notin aclPerms \/ ~Exists(req[p].typ, req[p].obj)) /\ pc[p] = "getACL"
    <3>1. Reply(p, 200)
      BY <2>2, Zenon DEF FindACLObject
    <3> QED BY <3>1
  <2>3. CASE ~(req[p].perm \notin aclPerms \/ ~Exists(req[p].typ, req[p].obj)) /\ pc[p] # "getACL"
    <3>1. CASE req[p].body.ok
      <4>1. Goto(p, "keepAdmins")
        BY <2>3, <3>1, Zenon DEF FindACLObject
      <4> QED BY <2>3, <4>1
    <3>2. CASE ~req[p].body.ok
      <4>1. Reply(p, 400)
        BY <2>3, <3>2, Zenon DEF FindACLObject
      <4> QED BY <4>1
    <3> QED BY <3>1, <3>2
  <2> QED
    BY <2>1, <2>2, <2>3
<1>2. CASE \E c : Reply(p, c)
  BY <1>0, <1>00, <1>2, Ending
<1>3. CASE /\ pc[p] # "getACL" /\ req[p].perm \in aclPerms /\ Exists(req[p].typ, req[p].obj)
           /\ Goto(p, "keepAdmins")
  <2>1. Moves(p) /\ pc'[p] = "keepAdmins" /\ Stays(p)
    BY <1>0, <1>3, Going DEF ReadOnly
  <2> QED
    BY <1>0, <1>3, <2>1 DEF Checks, Reads, ReadOnly, SameStore, store
<1> QED
  BY <1>1, <1>2, <1>3

LEMMA KeepAdminsEffect ==
    ASSUME Control, NEW p \in Procs, KeepAdmins(p)
    PROVE  Ends(p) \/ Guards(p)
<1> DEFINE c == /\ req[p].typ # "users" /\ req[p].perm = "grant" /\ ~loc[p].who.super
                /\ "admins" \notin req[p].ace.groups
                /\ "admins" \in loadACL(ACLTarget(req[p]))["grant"].groups
<1>0. /\ pc[p] = "keepAdmins" /\ ReadOnly /\ UNCHANGED loc
      /\ pc[p] # "idle" /\ ~Between(p) /\ Typed /\ "aceMembers" \in Places
  BY DEF KeepAdmins, Between, Control, Places, ACLSteps
<1>1. Reply(p, 403) \/ (~c /\ Goto(p, "aceMembers"))
  <2>1. CASE c
    <3>1. Reply(p, 403)
      BY <2>1, Zenon DEF KeepAdmins
    <3> QED BY <3>1
  <2>2. CASE ~c
    <3>1. Goto(p, "aceMembers")
      BY <2>2, Zenon DEF KeepAdmins
    <3> QED BY <2>2, <3>1
  <2> QED BY <2>1, <2>2
<1>2. CASE Reply(p, 403)
  BY <1>0, <1>2, Ending
<1>3. CASE ~c /\ Goto(p, "aceMembers")
  <2>1. Moves(p) /\ pc'[p] = "aceMembers" /\ Stays(p)
    BY <1>0, <1>3, Going DEF ReadOnly
  <2>2. req[p].typ # "users" /\ req[p].perm = "grant" /\ ~loc[p].who.super =>
         "admins" \in req[p].ace.groups \/ "admins" \notin loadACL(ACLTarget(req[p]))["grant"].groups
    BY <1>3, Zenon
  <2>3. Reads(p, {"keepAdmins"}, {"aceMembers"})
    BY <1>0, <2>1 DEF Reads, ReadOnly, SameStore, store
  <2> QED
    BY <2>1, <2>2, <2>3, Zenon DEF Guards
<1> QED
  BY <1>1, <1>2, <1>3

LEMMA VetEffect ==
    ASSUME Control, NEW p \in Procs, UnknownACEMembers(p)
    PROVE  Ends(p) \/ Vets(p)
<1> DEFINE segs == IF req[p].typ = "users" THEN {"users"} ELSE {"users", "clients"}
           known == \A n \in req[p].ace.actors : \E s \in segs : <<s, n>> \in DOMAIN actors
<1>0. /\ pc[p] = "aceMembers" /\ ReadOnly /\ UNCHANGED loc
      /\ pc[p] # "idle" /\ ~Between(p) /\ Typed /\ "loadACL" \in Places
  BY DEF UnknownACEMembers, Between, Control, Places, ACLSteps
<1>1. Reply(p, 400) \/ (known /\ Goto(p, "loadACL"))
  <2> DEFINE c == known /\ (req[p].typ # "users" => \A g \in req[p].ace.groups : Exists("groups", g))
  <2>1. CASE c
    <3>1. Goto(p, "loadACL")
      BY <2>1, Zenon DEF UnknownACEMembers
    <3> QED BY <2>1, <3>1
  <2>2. CASE ~c
    <3>1. Reply(p, 400)
      BY <2>2, Zenon DEF UnknownACEMembers
    <3> QED BY <3>1
  <2> QED BY <2>1, <2>2
<1>2. CASE Reply(p, 400)
  BY <1>0, <1>2, Ending
<1>3. CASE known /\ Goto(p, "loadACL")
  <2>1. Moves(p) /\ pc'[p] = "loadACL" /\ Stays(p)
    BY <1>0, <1>3, Going DEF ReadOnly
  <2>2. Reads(p, {"aceMembers"}, {"loadACL"})
    BY <1>0, <2>1 DEF Reads, ReadOnly, SameStore, store
  <2> QED
    BY <1>3, <2>1, <2>2, Zenon DEF Vets, Segs
<1> QED
  BY <1>1, <1>2, <1>3

\* The ACLs that are not stored are ACLs, and name no actor.
LEMMA FallbackACLs ==
    ASSUME NEW typ, NEW name
    PROVE  /\ IsACL(fallbackACL(typ, name))
           /\ \A perm \in aclPerms : fallbackACL(typ, name)[perm].actors = {}
<1> DEFINE Bare(acl) == IsACL(acl) /\ \A perm \in aclPerms : acl[perm].actors = {}
<1>1. ASSUME NEW grants
      PROVE  Bare(policyACL(grants))
  BY DEF policyACL, IsACL, ACE
<1>2. Bare(groupACL(name))
  <2>1. CASE name = "billing-admins"
    <3> DEFINE groups(perm) == IF perm \in {"read", "update"} THEN {"billing-admins"} ELSE {}
    <3>1. groupACL(name) = [perm \in aclPerms |-> ACE({}, groups(perm))]
      BY <2>1 DEF groupACL
    <3> HIDE DEF groups
    <3> QED BY <3>1 DEF IsACL, ACE
  <2>2. CASE name # "billing-admins"
    <3>1. \E grants : groupACL(name) = policyACL(grants)
      BY <2>2 DEF groupACL, containerACL
    <3> HIDE DEF Bare
    <3> QED BY <1>1, <3>1
  <2> QED
    BY <2>1, <2>2
<1>3. \/ fallbackACL(typ, name) = groupACL(name)
      \/ \E grants : fallbackACL(typ, name) = policyACL(grants)
  BY DEF fallbackACL, orgACL, containerACL, defaultACL
<1> HIDE DEF Bare
<1>4. Bare(fallbackACL(typ, name))
  BY <1>1, <1>2, <1>3
<1> QED
  BY <1>4 DEF Bare

LEMMA LoadedACLs ==
    ASSUME Shaped, NEW k
    PROVE  IsACL(loadACL(k))
BY FallbackACLs DEF Shaped, loadACL

LEMMA LoadACLEffect ==
    ASSUME Control, NEW p \in Procs, LoadACL(p)
    PROVE  LoadsACL(p)
<1> DEFINE acl == loadACL(ACLTarget(req[p]))
           new == [acl EXCEPT ![req[p].perm] = req[p].ace]
           l == [loc[p] EXCEPT !.acl = new]
<1>0. /\ pc[p] = "loadACL" /\ ReadOnly /\ Local(p, l) /\ Goto(p, "storeACL")
      /\ pc[p] # "idle" /\ Typed /\ Shaped /\ Stage(p) /\ Locals(loc[p]) /\ "storeACL" \in Places
  BY DEF LoadACL, Control, Typed, Places, ACLSteps
<1>1. req[p].op = "putACL" /\ DOMAIN req[p].ace = {"actors", "groups"}
  BY <1>0, Routed DEF Stage, ACLSteps
<1>2. IsACL(new)
  <2>1. IsACL(acl)
    BY <1>0, LoadedACLs
  <2> HIDE DEF acl
  <2> QED BY <1>1, <2>1 DEF IsACL
<1>3. Locals(l) /\ l.acl = new /\ l.who = loc[p].who
  <2> HIDE DEF new
  <2> QED BY <1>0, <1>2 DEF Locals, LocFields
<1> HIDE DEF l
<1>4. Moves(p) /\ pc'[p] = "storeACL" /\ loc'[p] = l
  BY <1>0, <1>3, Going DEF ReadOnly
<1> QED
  BY <1>0, <1>3, <1>4 DEF LoadsACL, Reads, SameWho, ReadOnly, SameStore, store

LEMMA StoreACLEffect ==
    ASSUME Control, NEW p \in Procs, StoreACL(p)
    PROVE  StoresACL(p)
<1> DEFINE c == IF req[p].typ = "policy_groups" THEN 201 ELSE 200
<1>0. /\ pc[p] = "storeACL" /\ Lockless /\ UNCHANGED <<actors, rows, passwords, member, loc>>
      /\ acls' = With(acls, ACLTarget(req[p]), loc[p].acl) /\ Reply(p, c)
      /\ pc[p] # "idle" /\ Typed
  BY DEF StoreACL, Control
<1>1. Moves(p) /\ pc'[p] = "idle" /\ Stays(p)
  BY <1>0, Replying DEF Lockless
<1> QED
  BY <1>0, <1>1 DEF StoresACL

LEMMA StoreErrorEffect ==
    ASSUME Control, NEW p \in Procs, StoreError(p)
    PROVE  Ends(p)
<1>0. /\ pc[p] # "idle" /\ Reply(p, 500) /\ Release(p) /\ failed' = failed \cup Touches(req[p])
      /\ UNCHANGED <<actors, rows, acls, member, req, loc, offered, near, frayed, byAdmin>> /\ Typed
  BY DEF StoreError, Control
<1>1. /\ pc' = [pc EXCEPT ![p] = "idle"] /\ DOMAIN out' = Procs /\ out'[p] = 500
      /\ \A q \in Procs \ {p} : writer = q => writer' = q
      /\ "idle" \in Places /\ failed \subseteq failed'
  BY <1>0 DEF Reply, Release, Typed, Places
<1>2. Moves(p) /\ pc'[p] = "idle"
  <2>1. pc'[p] = "idle" /\ \A q \in Procs \ {p} : pc'[q] = pc[q]
    BY <1>0, <1>1 DEF Typed
  <2>2. Typed'
    BY <1>0, <1>1 DEF Typed
  <2>3. Answering(p)
    BY <1>0, <2>1 DEF Answering, Reply, Typed
  <2> QED
    BY <1>0, <1>1, <2>1, <2>2, <2>3 DEF Moves
<1> QED
  BY <1>0, <1>1, <1>2 DEF Ends, Refused, SameStore

LEMMA StepEffect ==
    ASSUME Control, NEW p \in Procs, Step(p) \/ StoreError(p)
    PROVE  Effect(p)
BY StoreErrorEffect, ReadActorEffect, ReadKeysEffect, AuthorizeEffect, ExistEffect, ActorAllowedEffect,
   CreateActorEffect, StashEffect, CreateEffect, GrantCreatorEffect, JoinEffect, PutActorEffect,
   MergeEffect, ChooseKeyEffect, PutDefaultEffect, PreserveEffect, PutRecordEffect, DeleteActorEffect,
   RangeEffect, PutCleanEffect, LeaveEffect, OwnACLEffect, ListEffect, DropRowEffect, DropActorEffect,
   LoadEffect, AddKeyEffect, PutKeyEffect, PutRowEffect, RenameCreateEffect, RenameDeleteEffect,
   DeleteKeyEffect, SetPubEffect, FindACLEffect, KeepAdminsEffect, VetEffect, LoadACLEffect,
   StoreACLEffect, AuthenticateEffect, AnswerEffect, Zenon
   DEF Step, Effect, AuthEffect, ActorEffect, DeleteEffect, KeyEffect, ACLEffect

LEMMA BeginEffect ==
    ASSUME Control, NEW p \in Procs, Begin(p)
    PROVE  Begins(p)
<1>0. /\ pc[p] = "idle" /\ pc' = [pc EXCEPT ![p] = "auth"] /\ loc' = [loc EXCEPT ![p] = NoLocals]
      /\ out' = [out EXCEPT ![p] = 0] /\ Typed
      /\ UNCHANGED <<actors, rows, acls, member, writer, offered, failed>>
  BY DEF Begin, Local, Control
<1>1. PICK r \in offered :
        /\ req' = [req EXCEPT ![p] = r]
        /\ near' = [q \in Procs |-> IF q = p THEN {req[b] : b \in Busy}
                                    ELSE IF q \in Busy THEN near[q] \cup {r} ELSE near[q]]
        /\ frayed' = frayed \cup UNION {Clash(r, req[b]) : b \in Busy}
        /\ byAdmin' = (byAdmin \/ r.signer \in TrustedKeys)
  BY Zenon DEF Begin
<1>2. Locals(NoLocals)
  <2>1. defaultACL = fallbackACL("", "")
    BY DEF fallbackACL
  <2>2. IsACL(defaultACL)
    BY <2>1, FallbackACLs
  <2> QED
    BY <2>2 DEF Locals, NoLocals, LocFields, NoRecord
<1>3. /\ pc'[p] = "auth" /\ loc'[p] = NoLocals
      /\ \A q \in Procs \ {p} : pc'[q] = pc[q] /\ loc'[q] = loc[q] /\ req'[q] = req[q]
      /\ pc' \in [Procs -> Places] /\ req' \in [Procs -> AllRequests] /\ DOMAIN loc' = Procs
      /\ DOMAIN out' = Procs /\ DOMAIN near' = Procs
  BY <1>0, <1>1 DEF Typed, Places, AuthSteps
<1>4. \A q \in Procs : Locals(loc'[q])
  BY <1>0, <1>2, <1>3 DEF Typed
<1>5. Typed'
  BY <1>0, <1>3, <1>4 DEF Typed
<1>6. \A q \in Busy : near[q] \subseteq near'[q]
  BY <1>0, <1>1 DEF Busy
<1>7. Arrives(p)
  <2>1. out'[p] = 0 /\ req'[p] = r /\ \A q \in Procs \ {p} : out'[q] = out[q]
    BY <1>0, <1>1 DEF Typed
  <2>2. ~byAdmin' => ~byAdmin /\ r.signer \notin TrustedKeys
    BY <1>1, Zenon
  <2> QED
    BY <2>1, <2>2, Zenon DEF Arrives
<1> QED
  BY <1>0, <1>1, <1>3, <1>5, <1>6, <1>7 DEF Begins, SameStore


-----------------------------------------------------------------------------
(* Control.                                                                 *)

LEMMA WithFacts ==
    ASSUME NEW f, NEW k, NEW v
    PROVE  /\ DOMAIN With(f, k, v) = DOMAIN f \cup {k} /\ With(f, k, v)[k] = v
           /\ \A x \in DOMAIN f : x # k => With(f, k, v)[x] = f[x]
BY DEF With

LEMMA LessFacts ==
    ASSUME NEW f, NEW K
    PROVE  DOMAIN Less(f, K) = DOMAIN f \ K /\ \A x \in DOMAIN Less(f, K) : Less(f, K)[x] = f[x]
BY DEF Less

LEMMA StageOther ==
    ASSUME NEW p \in Procs, Moves(p), NEW q \in Procs \ {p}, Stage(q)
    PROVE  Stage(q)'
<1>1. pc'[q] = pc[q] /\ loc'[q] = loc[q] /\ req' = req /\ (writer = q => writer' = q)
  BY DEF Moves
<1>2. Check(q)' = Check(q)
  BY <1>1 DEF Check
<1> QED
  BY <1>1, <1>2 DEF Stage

LEMMA EffectMoves ==
    ASSUME NEW p, Effect(p)
    PROVE  Moves(p)
BY DEF Effect, AuthEffect, ActorEffect, DeleteEffect, KeyEffect, ACLEffect, Ends, Reads, Finds, Retries,
       Knows, Looks, Sees, Admits, Asks, Claims, Stashes, Creates, Grants, Joins, Starts, Merges, Chooses,
       PutsDefault, Preserves, PutsRecord, Locks, Ranges, PutsClean, Finishes, Leaves, DropsACL, Lists,
       DropsRow, DropsActor, Loads, AddsKey, Plans, PutsKey, RenamesTo, RenamesFrom, DeletesKey, SetsPub,
       Checks, Guards, Vets, LoadsACL, StoresACL

LEMMA StageOwn ==
    ASSUME Control, NEW p \in Procs, Effect(p)
    PROVE  Stage(p)'
<1>0. Moves(p) /\ Stage(p) /\ Typed
  BY EffectMoves DEF Control
<1>1. req' = req /\ Check(p)' = Check(p) /\ (writer = p /\ pc'[p] # "idle" => writer' = p)
  BY <1>0 DEF Moves, Check
<1>2. /\ req[p].op \in Ops
      /\ req[p].op \in {"createActor", "putActor", "deleteActor"} => req[p].seg \in Segs
  BY <1>0, Routed
<1> USE DEF Stage, Ops, Writes, KeyWrites, CreateSteps, UpdateSteps, DeleteSteps, KeySteps, RenameSteps,
            ACLSteps
<1>3. CASE Ends(p)
  BY <1>1, <1>3 DEF Ends
<1>4. CASE AuthEffect(p)
  <2>1. CASE Finds(p) \/ Retries(p) \/ Knows(p)
    BY <1>0, <1>1, <2>1 DEF Finds, Retries, Knows, Reads
  <2>2. CASE Looks(p)
    BY <1>0, <1>1, <2>2 DEF Looks, Reads, Stays
  <2>3. CASE Sees(p)
    BY <1>0, <1>1, <2>3 DEF Sees, Reads, SameWho
  <2>4. CASE Admits(p)
    BY <1>0, <1>1, <1>2, <2>4 DEF Admits, Reads, Stays
  <2>5. CASE Asks(p)
    BY <1>0, <1>1, <2>5 DEF Asks, Reads, Stays
  <2> QED
    BY <1>4, <2>1, <2>2, <2>3, <2>4, <2>5 DEF AuthEffect
<1>5. CASE ActorEffect(p)
  <2>1. CASE Claims(p) \/ Stashes(p) \/ Creates(p) \/ Grants(p) \/ Joins(p)
    BY <1>0, <1>1, <2>1 DEF Claims, Stashes, Creates, Grants, Joins, Reads, Stays, SameWho
  <2>2. CASE Starts(p) \/ Merges(p) \/ Chooses(p)
    BY <1>0, <1>1, <2>2 DEF Starts, Merges, Chooses, Reads, SameWho
  <2>3. CASE PutsDefault(p) \/ Preserves(p) \/ PutsRecord(p)
    BY <1>0, <1>1, <2>3 DEF PutsDefault, Preserves, PutsRecord, Reads, Stays, SameWho
  <2> QED
    BY <1>5, <2>1, <2>2, <2>3 DEF ActorEffect
<1>6. CASE DeleteEffect(p)
  <2>1. CASE Locks(p)
    BY <1>0, <1>1, <2>1 DEF Locks, Reads, Stays
  <2>2. CASE Ranges(p) \/ Lists(p)
    BY <1>0, <1>1, <2>2 DEF Ranges, Lists, Reads, SameWho
  <2>3. CASE PutsClean(p) \/ DropsRow(p)
    BY <1>0, <1>1, <2>3 DEF PutsClean, DropsRow, SameWho
  <2>4. CASE Finishes(p)
    BY <1>0, <1>1, <2>4 DEF Finishes, Reads, Stays
  <2>5. CASE Leaves(p) \/ DropsACL(p) \/ DropsActor(p)
    BY <1>0, <1>1, <2>5 DEF Leaves, DropsACL, DropsActor, Stays
  <2> QED
    BY <1>6, <2>1, <2>2, <2>3, <2>4, <2>5 DEF DeleteEffect
<1>7. CASE KeyEffect(p)
  <2>1. CASE Loads(p) \/ Plans(p)
    BY <1>0, <1>1, <2>1 DEF Loads, Plans, Reads, SameWho
  <2>2. CASE AddsKey(p) \/ RenamesFrom(p) \/ DeletesKey(p)
    BY <1>0, <1>1, <2>2 DEF AddsKey, RenamesFrom, DeletesKey, SameWho
  <2>3. CASE PutsKey(p) \/ RenamesTo(p) \/ SetsPub(p)
    BY <1>0, <1>1, <2>3 DEF PutsKey, RenamesTo, SetsPub, Stays
  <2> QED
    BY <1>7, <2>1, <2>2, <2>3 DEF KeyEffect
<1>8. CASE ACLEffect(p)
  BY <1>0, <1>1, <1>8 DEF ACLEffect, Checks, Guards, Vets, LoadsACL, StoresACL, Reads, Stays, SameWho
<1> QED
  BY <1>3, <1>4, <1>5, <1>6, <1>7, <1>8 DEF Effect


LEMMA WithoutFacts ==
    ASSUME NEW acl, IsACL(acl), NEW name
    PROVE  /\ IsACL(Without(acl, name)) /\ ~Names(Without(acl, name), name)
           /\ \A perm \in aclPerms : Without(acl, name)[perm].actors = acl[perm].actors \ {name}
BY DEF IsACL, Without, Names

LEMMA CreatorFacts ==
    ASSUME NEW name
    PROVE  /\ IsACL(creatorACL(name))
           /\ \A perm \in aclPerms : creatorACL(name)[perm].actors = {name}
<1>1. defaultACL = fallbackACL("", "")
  BY DEF fallbackACL
<1>2. IsACL(defaultACL) /\ \A perm \in aclPerms : defaultACL[perm].actors = {}
  BY <1>1, FallbackACLs
<1> QED
  BY <1>2 DEF IsACL, creatorACL

\* The one thing that a step changes in the store.
PutsActor(p) ==
    /\ actors' = With(actors, Target(p), actors'[Target(p)]) /\ UNCHANGED <<rows, acls, member>>
    /\ DOMAIN actors'[Target(p)] = {"pub", "admin"}
    /\ req[p].op \in {"createActor", "putActor"} \cup KeyWrites
    /\ req[p].op # "createActor" => Found(p)
    /\ req[p].op = "createActor" => pc[p] = "create" /\ Target(p) \notin DOMAIN actors
    /\ pc'[p] # pc[p]
LosesActor(p) ==
    /\ actors' = Less(actors, {Target(p)}) /\ UNCHANGED <<rows, acls, member>>
    /\ pc[p] = "deleteRows" /\ pc'[p] = "idle" /\ loc[p].todo = {}
PutsRow(p, k) ==
    /\ rows' = With(rows, k, rows'[k]) /\ UNCHANGED <<actors, acls, member>>
    /\ k = KeyRow(Target(p), k[3]) /\ DOMAIN rows'[k] = {"pub", "exp"}
    /\ req[p].op \in {"putActor"} \cup KeyWrites /\ Found(p)
LosesRow(p, k) ==
    /\ rows' = Less(rows, {k}) /\ UNCHANGED <<actors, acls, member>>
    /\ <<k[1], k[2]>> = Target(p)
    /\ req[p].op \in {"deleteActor"} \cup KeyWrites
ChangesACLs(p) ==
    /\ UNCHANGED <<actors, rows, member>>
    /\ Grants(p) \/ PutsClean(p) \/ DropsACL(p) \/ StoresACL(p)
ChangesMembers(p) == UNCHANGED <<actors, rows, acls>> /\ (Joins(p) \/ Leaves(p))

Change(p) == \/ SameStore \/ PutsActor(p) \/ LosesActor(p) \/ (\E k : PutsRow(p, k))
             \/ (\E k : LosesRow(p, k)) \/ ChangesACLs(p) \/ ChangesMembers(p)


LEMMA BatchOwn ==
    ASSUME Control, NEW p \in Procs, Effect(p)
    PROVE  Batch(p)'
<1>0. Moves(p) /\ Stage(p) /\ Batch(p) /\ Typed /\ Shaped /\ req' = req /\ Target(p)' = Target(p)
  BY EffectMoves DEF Control, Moves, Target
<1>00. req[p].op \in Ops
  BY <1>0, Routed
<1>1. CASE Ranges(p)
  <2>1. /\ pc'[p] # "deleteRows"
        /\ \A x \in loc'[p].todo : \E k \in DOMAIN acls : x = <<k, Without(acls[k], req[p].name)>>
    BY <1>1 DEF Ranges, Reads, Named
  <2>2. ASSUME NEW x \in loc'[p].todo
        PROVE  x[1] = <<x[1][1], x[1][2]>> /\ IsACL(x[2])
    <3>1. PICK k \in DOMAIN acls : x = <<k, Without(acls[k], req[p].name)>>
      BY <2>1
    <3>2. k = <<k[1], k[2]>> /\ IsACL(acls[k])
      BY <1>0 DEF Shaped
    <3>3. IsACL(Without(acls[k], req[p].name))
      BY <3>2, WithoutFacts
    <3> QED
      BY <3>1, <3>2, <3>3
  <2> QED
    BY <2>1, <2>2 DEF Batch
<1>2. CASE PutsClean(p)
  BY <1>0, <1>2 DEF Batch, PutsClean
<1>3. CASE Lists(p)
  BY <1>0, <1>3 DEF Batch, Lists, Reads, KeyRows
<1>4. CASE DropsRow(p)
  BY <1>0, <1>4 DEF Batch, DropsRow
<1>5. CASE ~(Ranges(p) \/ PutsClean(p) \/ Lists(p) \/ DropsRow(p))
  <2>1. pc'[p] \notin {"putUsersACLs", "putOrgACLs", "deleteRows"}
    BY <1>00, <1>5
       DEF Effect, AuthEffect, ActorEffect, DeleteEffect, KeyEffect, ACLEffect, Ends, Reads, Finds, Retries,
       Knows, Looks, Sees, Admits, Asks, Claims, Stashes, Creates, Grants, Joins, Starts, Merges, Chooses,
       PutsDefault, Preserves, PutsRecord, Locks, Finishes, Leaves, DropsACL,
       DropsActor, Loads, AddsKey, Plans, PutsKey, RenamesTo, RenamesFrom, DeletesKey, SetsPub,
       Checks, Guards, Vets, LoadsACL, StoresACL, Ops, Writes, KeyWrites
  <2> QED
    BY <2>1 DEF Batch
<1> QED
  BY <1>1, <1>2, <1>3, <1>4, <1>5

LEMMA Changing ==
    ASSUME Control, NEW p \in Procs, Effect(p)
    PROVE  Change(p)
<1>0. Stage(p) /\ Batch(p) /\ Typed /\ Locals(loc[p])
  BY DEF Control, Typed
<1>1. CASE Creates(p)
  <2>1. actors'[Target(p)] = loc[p].rec
    BY <1>1 DEF Creates, With
  <2> QED
    BY <1>0, <1>1, <2>1 DEF Change, PutsActor, Creates, Stage, CreateSteps, Locals
<1>2. CASE PutsRecord(p)
  <2>1. actors'[Target(p)] = loc[p].rec
    BY <1>2 DEF PutsRecord, With
  <2> QED
    BY <1>0, <1>2, <2>1 DEF Change, PutsActor, PutsRecord, Stage, UpdateSteps, Found, Locals
<1>3. CASE SetsPub(p)
  <2> DEFINE rec == [loc[p].rec EXCEPT !.pub = loc[p].pub]
  <2>0. actors' = With(actors, Target(p), rec)
    BY <1>3 DEF SetsPub
  <2>1. actors'[Target(p)] = rec
    <3> HIDE DEF rec
    <3> QED BY <2>0 DEF With
  <2>2. DOMAIN rec = {"pub", "admin"}
    BY <1>0 DEF Locals
  <2> HIDE DEF rec
  <2>3. req[p].op \in KeyWrites /\ Found(p) /\ req[p].op # "createActor"
    BY <1>0, <1>3 DEF SetsPub, Stage, KeyWrites, Found, KeySteps
  <2> QED
    BY <1>3, <2>0, <2>1, <2>2, <2>3 DEF Change, PutsActor, SetsPub
<1>4. CASE DropsActor(p)
  BY <1>4 DEF Change, LosesActor, DropsActor
<1>5. CASE PutsDefault(p)
  <2> DEFINE k == Default(Target(p))
  <2>0. k = KeyRow(Target(p), k[3]) /\ rows' = With(rows, k, loc[p].row)
    BY <1>5 DEF PutsDefault, Default, KeyRow
  <2>1. rows'[k] = loc[p].row
    <3> HIDE DEF k
    <3> QED BY <2>0 DEF With
  <2>2. PutsRow(p, k)
    <3> HIDE DEF k
    <3> QED BY <1>0, <1>5, <2>0, <2>1 DEF PutsRow, PutsDefault, Stage, UpdateSteps, Found, Locals
  <2> QED
    BY <2>2 DEF Change
<1>6. CASE AddsKey(p) \/ PutsKey(p)
  <2> DEFINE k == Row(p)
  <2>0. k = KeyRow(Target(p), k[3])
    BY DEF Row, KeyRow
  <2>1. DOMAIN rows'[k] = {"pub", "exp"} /\ rows' = With(rows, k, rows'[k])
    <3>1. PICK v : rows' = With(rows, k, v) /\ DOMAIN v = {"pub", "exp"}
      BY <1>0, <1>6 DEF AddsKey, PutsKey, Locals
    <3>2. rows'[k] = v
      <4> HIDE DEF k
      <4> QED BY <3>1 DEF With
    <3> QED
      BY <3>1, <3>2
  <2>2. PutsRow(p, k)
    <3> HIDE DEF k
    <3> QED BY <1>0, <1>6, <2>0, <2>1 DEF PutsRow, AddsKey, PutsKey, Stage, KeySteps, RenameSteps, KeyWrites, Found
  <2> QED
    BY <2>2 DEF Change
<1>7. CASE RenamesTo(p)
  <2> DEFINE k == NewRow(p)
  <2>0. k = KeyRow(Target(p), k[3])
    BY DEF NewRow, KeyRow
  <2>1. DOMAIN rows'[k] = {"pub", "exp"} /\ rows' = With(rows, k, rows'[k])
    <3>1. rows' = With(rows, k, loc[p].row) /\ DOMAIN loc[p].row = {"pub", "exp"}
      BY <1>0, <1>7 DEF RenamesTo, Locals
    <3>2. rows'[k] = loc[p].row
      <4> HIDE DEF k
      <4> QED BY <3>1 DEF With
    <3> QED
      BY <3>1, <3>2
  <2>2. PutsRow(p, k)
    <3> HIDE DEF k
    <3> QED BY <1>0, <1>7, <2>0, <2>1 DEF PutsRow, RenamesTo, Stage, KeySteps, RenameSteps, KeyWrites, Found
  <2> QED
    BY <2>2 DEF Change
<1>8. CASE RenamesFrom(p) \/ DeletesKey(p)
  <2>1. <<Row(p)[1], Row(p)[2]>> = Target(p)
    BY DEF Row, KeyRow, Target
  <2>2. LosesRow(p, Row(p))
    BY <1>0, <1>8, <2>1 DEF LosesRow, RenamesFrom, DeletesKey, Stage, RenameSteps, KeyWrites
  <2> QED
    BY <2>2 DEF Change
<1>9. CASE DropsRow(p)
  <2>1. PICK k \in loc[p].todo : rows' = Less(rows, {k})
    BY <1>9 DEF DropsRow
  <2>2. LosesRow(p, k)
    BY <1>0, <1>9, <2>1 DEF LosesRow, DropsRow, Stage, Batch, DeleteSteps
  <2> QED
    BY <2>2 DEF Change
<1>10. CASE Grants(p) \/ PutsClean(p) \/ DropsACL(p) \/ StoresACL(p)
  BY <1>10 DEF Change, ChangesACLs, Grants, PutsClean, DropsACL, StoresACL
<1>11. CASE Joins(p) \/ Leaves(p)
  BY <1>11 DEF Change, ChangesMembers, Joins, Leaves
<1>12. CASE ~(\/ Creates(p) \/ PutsRecord(p) \/ SetsPub(p) \/ DropsActor(p) \/ PutsDefault(p)
              \/ AddsKey(p) \/ PutsKey(p) \/ RenamesTo(p) \/ RenamesFrom(p) \/ DeletesKey(p)
              \/ DropsRow(p) \/ Grants(p) \/ PutsClean(p) \/ DropsACL(p) \/ StoresACL(p)
              \/ Joins(p) \/ Leaves(p))
  BY <1>12, Zenon
     DEF Change, Effect, AuthEffect, ActorEffect, DeleteEffect, KeyEffect, ACLEffect, Ends, Reads, Finds,
         Retries, Knows, Looks, Sees, Admits, Asks, Claims, Stashes, Starts, Merges, Chooses,
         Preserves, Locks, Ranges, Finishes, Lists, Loads, Plans, Checks, Guards, Vets, LoadsACL
<1> QED
  BY <1>1, <1>2, <1>3, <1>4, <1>5, <1>6, <1>7, <1>8, <1>9, <1>10, <1>11, <1>12


LEMMA ShapedStep ==
    ASSUME Control, NEW p \in Procs, Effect(p)
    PROVE  Shaped'
<1>0. Shaped /\ Typed /\ Stage(p) /\ Batch(p) /\ Locals(loc[p]) /\ Moves(p)
  BY EffectMoves DEF Control, Typed
<1>1. Change(p)
  BY Changing
<1>2. CASE SameStore
  BY <1>0, <1>2 DEF Shaped, SameStore
<1>3. CASE PutsActor(p)
  <2>1. Target(p) = <<Target(p)[1], Target(p)[2]>>
    BY DEF Target
  <2>2. \A a \in DOMAIN actors' : a = Target(p) \/ (a \in DOMAIN actors /\ actors'[a] = actors[a])
    BY <1>3 DEF PutsActor, With
  <2> QED
    BY <1>0, <1>3, <2>1, <2>2 DEF PutsActor, Shaped
<1>4. CASE LosesActor(p)
  BY <1>0, <1>4 DEF LosesActor, Shaped, Less
<1>5. CASE \E k : PutsRow(p, k)
  <2>1. PICK k : PutsRow(p, k)
    BY <1>5
  <2>2. k = <<k[1], k[2], k[3]>>
    BY <2>1 DEF PutsRow, KeyRow
  <2>3. \A x \in DOMAIN rows' : x = k \/ (x \in DOMAIN rows /\ rows'[x] = rows[x])
    BY <2>1 DEF PutsRow, With
  <2> QED
    BY <1>0, <2>1, <2>2, <2>3 DEF PutsRow, Shaped
<1>6. CASE \E k : LosesRow(p, k)
  BY <1>0, <1>6 DEF LosesRow, Shaped, Less
<1>7. CASE ChangesACLs(p)
  <2>0. UNCHANGED <<actors, rows>>
    BY <1>7 DEF ChangesACLs
  <2>1. ASSUME NEW k, NEW acl, acls' = With(acls, k, acl), k = <<k[1], k[2]>>, IsACL(acl)
        PROVE  Shaped'
    <3>1. \A x \in DOMAIN acls' : (x = k /\ acls'[x] = acl) \/ (x \in DOMAIN acls /\ acls'[x] = acls[x])
      BY <2>1 DEF With
    <3> QED
      BY <1>0, <2>0, <2>1, <3>1 DEF Shaped
  <2>2. CASE Grants(p)
    <3>1. IsACL(creatorACL(loc[p].who.name)) /\ Target(p) = <<Target(p)[1], Target(p)[2]>>
      BY CreatorFacts DEF Target
    <3> QED
      BY <2>1, <2>2, <3>1 DEF Grants
  <2>3. CASE PutsClean(p)
    <3>1. PICK x \in loc[p].todo : acls' = With(acls, x[1], x[2])
      BY <2>3 DEF PutsClean
    <3>2. x[1] = <<x[1][1], x[1][2]>> /\ IsACL(x[2])
      BY <1>0, <2>3 DEF PutsClean, Batch
    <3> QED
      BY <2>1, <3>1, <3>2
  <2>4. CASE DropsACL(p)
    BY <1>0, <2>0, <2>4 DEF DropsACL, Shaped, Less
  <2>5. CASE StoresACL(p)
    <3>1. IsACL(loc[p].acl) /\ ACLTarget(req[p]) = <<ACLTarget(req[p])[1], ACLTarget(req[p])[2]>>
      BY <1>0 DEF Locals, ACLTarget
    <3> QED
      BY <2>1, <2>5, <3>1 DEF StoresACL
  <2> QED
    BY <1>7, <2>2, <2>3, <2>4, <2>5 DEF ChangesACLs
<1>8. CASE ChangesMembers(p)
  BY <1>0, <1>8 DEF ChangesMembers, Shaped
<1> QED
  BY <1>1, <1>2, <1>3, <1>4, <1>5, <1>6, <1>7, <1>8 DEF Change

LEMMA ControlStep ==
    ASSUME Control, NEW p \in Procs, Effect(p)
    PROVE  Control'
<1>0. Moves(p)
  BY EffectMoves
<1>1. Typed'
  BY <1>0 DEF Moves
<1>2. Shaped'
  BY ShapedStep
<1>3. ASSUME NEW q \in Procs
      PROVE  Stage(q)' /\ Batch(q)'
  <2>1. CASE q = p
    BY <2>1, StageOwn, BatchOwn
  <2>2. CASE q # p
    <3>1. Stage(q)'
      BY <1>0, <2>2, StageOther DEF Control
    <3>2. pc'[q] = pc[q] /\ loc'[q] = loc[q] /\ req' = req
      BY <1>0, <2>2 DEF Moves
    <3>3. Batch(q)'
      BY <3>2 DEF Control, Batch, Target
    <3> QED
      BY <3>1, <3>3
  <2> QED
    BY <2>1, <2>2
<1>4. Busy' \subseteq Busy /\ UNCHANGED <<req, near, frayed>>
  BY <1>0 DEF Moves, Busy
<1>5. Aware' /\ Frays'
  BY <1>4 DEF Control, Aware, Frays
<1> QED
  BY <1>1, <1>2, <1>3, <1>5 DEF Control

LEMMA ClashSym ==
    ASSUME NEW r, NEW s
    PROVE  Clash(r, s) = Clash(s, r)
<1>1. {<<r, s>>, <<s, r>>} = {<<s, r>>, <<r, s>>}
  OBVIOUS
<1>2. Touches(r) \cap Touches(s) = Touches(s) \cap Touches(r)
  OBVIOUS
<1> QED
  BY <1>1, <1>2, Zenon DEF Clash

LEMMA ControlBegin ==
    ASSUME Control, NEW p \in Procs, Begin(p)
    PROVE  Control'
<1>0. Begins(p)
  BY BeginEffect
<1>1. Typed' /\ Shaped'
  BY <1>0 DEF Begins, Control, Shaped, SameStore
<1>2. ASSUME NEW q \in Procs
      PROVE  Stage(q)' /\ Batch(q)'
  <2>1. CASE q = p
    <3>1. pc'[p] = "auth" /\ ~loc'[p].preread
      BY <1>0 DEF Begins, NoLocals
    <3> QED
      BY <2>1, <3>1 DEF Stage, Batch, Ops, Writes, KeyWrites, CreateSteps, UpdateSteps, DeleteSteps,
                        KeySteps, RenameSteps, ACLSteps
  <2>2. CASE q # p
    <3>1. pc'[q] = pc[q] /\ loc'[q] = loc[q] /\ req'[q] = req[q] /\ writer' = writer
      BY <1>0, <2>2 DEF Begins
    <3>2. Check(q)' = Check(q) /\ Target(q)' = Target(q) /\ Stage(q) /\ Batch(q)
      BY <3>1 DEF Check, Control, Target
    <3>3. Stage(q)'
      BY <3>1, <3>2 DEF Stage
    <3>4. Batch(q)'
      BY <3>1, <3>2 DEF Batch
    <3> QED
      BY <3>3, <3>4
  <2> QED
    BY <2>1, <2>2
<1>3. PICK r \in offered :
        /\ req' = [req EXCEPT ![p] = r]
        /\ near' = [q \in Procs |-> IF q = p THEN {req[b] : b \in Busy}
                                    ELSE IF q \in Busy THEN near[q] \cup {r} ELSE near[q]]
        /\ frayed' = frayed \cup UNION {Clash(r, req[b]) : b \in Busy}
  BY DEF Begin
<1>4. /\ Busy' = Busy \cup {p} /\ p \notin Busy /\ Busy \subseteq Procs
      /\ req'[p] = r /\ \A q \in Busy : req'[q] = req[q]
  BY <1>0, <1>3 DEF Begins, Busy, Control, Typed
<1>5. near'[p] = {req[b] : b \in Busy} /\ \A q \in Busy : near'[q] = near[q] \cup {r}
  BY <1>3, <1>4
<1>6. Aware'
  BY <1>4, <1>5 DEF Aware, Control
<1>7. \A b \in Busy : Clash(r, req[b]) \subseteq frayed' /\ Clash(req[b], r) \subseteq frayed'
  BY <1>3, ClashSym
<1>8. Frays'
  <2> SUFFICES ASSUME NEW q \in Busy', NEW s \in near'[q]
               PROVE  Clash(req'[q], s) \subseteq frayed'
    BY DEF Frays
  <2>1. CASE q = p
    BY <1>4, <1>5, <1>7, <2>1
  <2>2. CASE q # p /\ s = r
    BY <1>4, <1>7, <2>2
  <2>3. CASE q # p /\ s # r
    <3>1. q \in Busy /\ s \in near[q] /\ req'[q] = req[q]
      BY <1>4, <1>5, <2>3
    <3>2. Clash(req[q], s) \subseteq frayed
      BY <3>1 DEF Control, Frays
    <3> QED
      BY <1>3, <3>1, <3>2
  <2> QED
    BY <2>1, <2>2, <2>3
<1> QED
  BY <1>1, <1>2, <1>6, <1>8 DEF Control


LEMMA ControlInit == Init => Control
<1> SUFFICES ASSUME Init PROVE Control
  OBVIOUS
<1>1. PICK s \in Scenarios : /\ actors = s.actors /\ rows = s.rows /\ acls = s.acls
                             /\ offered = s.requests
                             /\ req \in [Procs -> {CHOOSE r \in s.requests : TRUE}]
  BY DEF Init
<1>2. /\ pc = [p \in Procs |-> "idle"] /\ loc = [p \in Procs |-> NoLocals]
      /\ out = [p \in Procs |-> 0] /\ near = [p \in Procs |-> {}]
  BY DEF Init
<1>3. (CHOOSE r \in s.requests : TRUE) \in s.requests
  BY RoutedRequests
<1>4. s.requests \subseteq AllRequests
  BY DEF AllRequests
<1>5. Locals(NoLocals)
  <2>1. defaultACL = fallbackACL("", "")
    BY DEF fallbackACL
  <2>2. IsACL(defaultACL)
    BY <2>1, FallbackACLs
  <2> QED
    BY <2>2 DEF Locals, NoLocals, LocFields, NoRecord
<1>6. req \in [Procs -> AllRequests]
  BY <1>1, <1>3, <1>4
<1>7. Typed
  BY <1>1, <1>2, <1>4, <1>5, <1>6 DEF Typed, Places
<1>8. Shaped
  BY <1>1, SoundScenarios DEF Shaped
<1>9. \A p \in Procs : Stage(p) /\ Batch(p)
  BY <1>2 DEF Stage, Batch, Ops, Writes, KeyWrites, CreateSteps, UpdateSteps, DeleteSteps,
              KeySteps, RenameSteps, ACLSteps
<1>10. Aware /\ Frays
  BY <1>2 DEF Aware, Frays, Busy
<1> QED
  BY <1>7, <1>8, <1>9, <1>10 DEF Control

LEMMA ControlStutter ==
    ASSUME Control, UNCHANGED vars
    PROVE  Control'
<1>1. UNCHANGED <<actors, rows, acls, writer, pc, req, loc, out, offered, near, frayed>>
  BY DEF vars
<1>2. Typed' /\ Shaped' /\ Busy' = Busy
  BY <1>1 DEF Control, Typed, Shaped, Busy
<1>3. ASSUME NEW p \in Procs
      PROVE  Stage(p)' /\ Batch(p)'
  <2>1. Check(p)' = Check(p) /\ Target(p)' = Target(p) /\ Stage(p) /\ Batch(p)
    BY <1>1 DEF Check, Target, Control
  <2>2. Stage(p)'
    BY <1>1, <2>1 DEF Stage
  <2>3. Batch(p)'
    BY <1>1, <2>1 DEF Batch
  <2> QED
    BY <2>2, <2>3
<1>4. Aware' /\ Frays'
  BY <1>1, <1>2 DEF Control, Aware, Frays
<1> QED
  BY <1>2, <1>3, <1>4 DEF Control

\* What a write is about.
LEMMA TouchedNames ==
    ASSUME NEW r
    PROVE  /\ r.op \in {"putActor", "deleteActor"} \cup KeyWrites => Touches(r) = {r.name}
           /\ r.op = "createActor" => Touches(r) = {r.name, r.as}
           /\ r.op = "putACL" => Touches(r) = r.ace.actors
BY DEF Touches, Writes, KeyWrites

\* Two requests in flight that touch the same name have frayed it, and so have
\* an update of an ACL and a delete that overlaps it.
LEMMA Solo ==
    ASSUME Control, NEW p \in Busy, NEW q \in Busy, p # q
    PROVE  /\ Touches(req[p]) \cap Touches(req[q]) \subseteq frayed
           /\ req[p].op = "deleteActor" /\ req[q].op = "putACL" => req[p].name \in frayed
<1>1. Clash(req[p], req[q]) \subseteq frayed
  BY DEF Control, Aware, Frays
<1>2. Touches(req[p]) \cap Touches(req[q]) \subseteq Clash(req[p], req[q])
  BY DEF Clash
<1>3. ASSUME req[p].op = "deleteActor", req[q].op = "putACL"
      PROVE  Touches(req[p]) \subseteq Clash(req[p], req[q])
  <2> DEFINE x == <<req[p], req[q]>>
             X == {y \in {<<req[p], req[q]>>, <<req[q], req[p]>>} :
                     y[1].op = "deleteActor" /\ y[2].op = "putACL"}
  <2>1. x \in X /\ x[1] = req[p]
    BY <1>3
  <2>2. Touches(req[p]) \in {Touches(y[1]) : y \in X}
    BY <2>1, Zenon
  <2> HIDE DEF X
  <2> QED
    BY <2>2, Zenon DEF Clash, X
<1> QED
  BY <1>1, <1>2, <1>3, TouchedNames

LEMMA GoneFrays ==
    ASSUME Control, NEW p \in Busy, Gone(p), req[p].op \in {"putActor"} \cup KeyWrites
    PROVE  req[p].name \in frayed
<1>1. PICK r \in near[p] : r.op = "deleteActor" /\ <<r.seg, r.name>> = Target(p)
  BY DEF Gone
<1>2. Clash(req[p], r) \subseteq frayed
  BY DEF Control, Frays
<1>3. r.name = req[p].name
  BY <1>1 DEF Target
<1>4. Touches(r) = {req[p].name} /\ Touches(req[p]) = {req[p].name}
  BY <1>1, <1>3, TouchedNames
<1> QED
  BY <1>2, <1>4 DEF Clash


-----------------------------------------------------------------------------
(* Actors come back only by an update that a delete overlapped.              *)

LEMMA FoundOwn ==
    ASSUME Control, NEW p \in Procs, Effect(p), Found(p)'
    PROVE  Found(p) \/ Target(p) \in DOMAIN actors
<1>0. Moves(p) /\ Stage(p) /\ Typed
  BY EffectMoves DEF Control
<1>1. req' = req /\ req[p].op \in Ops
  BY <1>0, Routed DEF Moves
<1> USE DEF Found, Stage, Ops, Writes, KeyWrites, CreateSteps, UpdateSteps, DeleteSteps, KeySteps,
            RenameSteps, ACLSteps
<1>3. CASE Ends(p)
  BY <1>1, <1>3 DEF Ends
<1>4. CASE AuthEffect(p)
  BY <1>0, <1>1, <1>4 DEF AuthEffect, Finds, Retries, Knows, Looks, Sees, Admits, Asks, Reads, Stays
<1>5. CASE ActorEffect(p)
  BY <1>0, <1>1, <1>5 DEF ActorEffect, Claims, Stashes, Creates, Grants, Joins, Starts, Merges, Chooses,
                          PutsDefault, Preserves, PutsRecord, Reads, Stays
<1>6. CASE DeleteEffect(p)
  BY <1>0, <1>1, <1>6 DEF DeleteEffect, Locks, Ranges, PutsClean, Finishes, Leaves, DropsACL, Lists,
                          DropsRow, DropsActor, Reads
<1>7. CASE KeyEffect(p)
  BY <1>0, <1>1, <1>7 DEF KeyEffect, Loads, AddsKey, Plans, PutsKey, RenamesTo, RenamesFrom,
                          DeletesKey, SetsPub, Reads
<1>8. CASE ACLEffect(p)
  BY <1>0, <1>1, <1>8 DEF ACLEffect, Checks, Guards, Vets, LoadsACL, StoresACL, Reads
<1> QED
  BY <1>3, <1>4, <1>5, <1>6, <1>7, <1>8 DEF Effect

\* What a step does to the set of actors.
LEMMA ActorsStep ==
    ASSUME Control, NEW p \in Procs, Effect(p)
    PROVE  \/ actors' = actors
           \/ PutsActor(p) /\ DOMAIN actors' = DOMAIN actors \cup {Target(p)}
              /\ \A a \in DOMAIN actors \ {Target(p)} : actors'[a] = actors[a]
           \/ LosesActor(p) /\ DOMAIN actors' = DOMAIN actors \ {Target(p)}
              /\ (\A a \in DOMAIN actors' : actors'[a] = actors[a]) /\ req[p].op = "deleteActor" /\ writer = p
<1>1. Change(p) /\ Stage(p)
  BY Changing DEF Control
<1>2. CASE PutsActor(p)
  BY <1>2 DEF PutsActor, With
<1>3. CASE LosesActor(p)
  BY <1>1, <1>3 DEF LosesActor, Less, Stage, DeleteSteps
<1>4. CASE ~PutsActor(p) /\ ~LosesActor(p)
  BY <1>1, <1>4 DEF Change, SameStore, PutsRow, LosesRow, ChangesACLs, ChangesMembers
<1> QED
  BY <1>2, <1>3, <1>4

LEMMA PresentStep ==
    ASSUME Control, PresentInv, NEW p \in Procs, Effect(p)
    PROVE  PresentInv'
<1>0. Moves(p)
  BY EffectMoves
<1> SUFFICES ASSUME NEW q \in Procs, Found(q)'
             PROVE  Target(q)' \in DOMAIN actors' \/ Gone(q)'
  BY DEF PresentInv, Present
<1>1. Target(q)' = Target(q) /\ near' = near /\ req' = req
  BY <1>0 DEF Moves, Target
<1>2. Gone(q)' = Gone(q)
  BY <1>1 DEF Gone
<1>3. CASE q = p
  <2>1. Target(p) \in DOMAIN actors \/ Gone(p)
    BY <1>3, FoundOwn DEF PresentInv, Present
  <2>2. pc'[p] # "idle"
    BY <1>3 DEF Found, UpdateSteps, KeySteps, RenameSteps
  <2> QED
    BY <1>1, <1>2, <1>3, <2>1, <2>2, ActorsStep DEF LosesActor
<1>4. CASE q # p
  <2>1. pc'[q] = pc[q] /\ loc'[q] = loc[q]
    BY <1>0, <1>4 DEF Moves
  <2>2. Found(q)
    BY <1>1, <2>1 DEF Found
  <2>3. Target(q) \in DOMAIN actors \/ Gone(q)
    BY <2>2 DEF PresentInv, Present
  <2>4. ASSUME req[p].op = "deleteActor", Target(p) = Target(q)
        PROVE  Gone(q)
    <3>1. p \in Busy /\ q \in Busy
      BY <1>0, <2>2 DEF Busy, Moves, Found, UpdateSteps, KeySteps, RenameSteps
    <3>2. req[p] \in near[q]
      BY <1>4, <3>1 DEF Control, Aware
    <3> QED
      BY <2>4, <3>2 DEF Gone, Target
  <2> QED
    BY <1>1, <1>2, <2>3, <2>4, ActorsStep
<1> QED
  BY <1>3, <1>4

LEMMA PresentBegin ==
    ASSUME Control, PresentInv, NEW p \in Procs, Begin(p)
    PROVE  PresentInv'
<1>0. Begins(p)
  BY BeginEffect
<1> SUFFICES ASSUME NEW q \in Procs, Found(q)'
             PROVE  Target(q)' \in DOMAIN actors' \/ Gone(q)'
  BY DEF PresentInv, Present
<1>1. q # p
  BY <1>0 DEF Begins, Found, UpdateSteps, KeySteps, RenameSteps
<1>2. pc'[q] = pc[q] /\ loc'[q] = loc[q] /\ req'[q] = req[q] /\ actors' = actors
  BY <1>0, <1>1 DEF Begins, SameStore
<1>3. Found(q) /\ Target(q)' = Target(q)
  BY <1>2 DEF Found, Target
<1>4. near[q] \subseteq near'[q]
  BY <1>0, <1>3 DEF Begins, Busy, Found, UpdateSteps, KeySteps, RenameSteps
<1>5. Target(q) \in DOMAIN actors \/ Gone(q)
  BY <1>3 DEF PresentInv, Present
<1> QED
  BY <1>2, <1>3, <1>4, <1>5 DEF Gone

\* A step of any goroutine, a new request, or none.
LEMMA Stepping ==
    ASSUME Control, [Next]_vars
    PROVE  \/ \E p \in Procs : Begin(p) \/ Effect(p)
           \/ UNCHANGED vars
BY StepEffect, Zenon DEF Next, Done

LEMMA PresentNext ==
    ASSUME Control, PresentInv, [Next]_vars
    PROVE  PresentInv'
<1>1. CASE \E p \in Procs : Begin(p) \/ Effect(p)
  BY <1>1, PresentStep, PresentBegin
<1>2. CASE UNCHANGED vars
  BY <1>2 DEF vars, PresentInv, Present, Found, Gone, Target
<1> QED
  BY <1>1, <1>2, Stepping

LEMMA ControlNext ==
    ASSUME Control, [Next]_vars
    PROVE  Control'
<1>1. CASE \E p \in Procs : Begin(p) \/ Effect(p)
  BY <1>1, ControlStep, ControlBegin
<1>2. CASE UNCHANGED vars
  BY <1>2, ControlStutter
<1> QED
  BY <1>1, <1>2, Stepping

LEMMA PresentInit == Init => PresentInv
BY DEF Init, PresentInv, Present, Found, UpdateSteps, KeySteps, RenameSteps

LEMMA Base == Spec => [](Control /\ PresentInv)
<1>1. Init => Control /\ PresentInv
  BY ControlInit, PresentInit
<1>2. Control /\ PresentInv /\ [Next]_vars => (Control /\ PresentInv)'
  BY ControlNext, PresentNext
<1> QED
  BY <1>1, <1>2, PTL DEF Spec

\* An actor that is not there appears only by a create of it, or is written
\* back by an update or a key operation that a delete of it overlapped
\* (scopedPut and the key handlers check for the actor and Put it later,
\* without a lock).
THEOREM ActorsNotRevived == Spec => NoRevival
<1> DEFINE Revived(a) == \E p \in Procs : /\ Steps(p) /\ Target(p) = a
                            /\ \/ req[p].op = "createActor"
                               \/ \E r \in near[p] : r.op = "deleteActor" /\ <<r.seg, r.name>> = a
<1>1. ASSUME Control, PresentInv, [Next]_vars, NEW a \in DOMAIN actors' \ DOMAIN actors
      PROVE  Revived(a)
  <2>1. PICK p \in Procs : Begin(p) \/ Effect(p)
    BY <1>1, Stepping DEF vars
  <2>2. Effect(p)
    BY <1>1, <2>1, BeginEffect DEF Begins, SameStore
  <2>3. PutsActor(p) /\ a = Target(p)
    <3>1. Control /\ a \in DOMAIN actors' /\ a \notin DOMAIN actors
      BY <1>1
    <3>2. \/ actors' = actors
          \/ PutsActor(p) /\ DOMAIN actors' = DOMAIN actors \cup {Target(p)}
          \/ DOMAIN actors' = DOMAIN actors \ {Target(p)}
      BY <2>2, <3>1, ActorsStep
    <3> QED
      BY <3>1, <3>2
  <2>4. Steps(p)
    BY <2>3 DEF Steps, PutsActor
  <2>5. req[p].op # "createActor" => Gone(p)
    BY <1>1, <2>3 DEF PutsActor, PresentInv, Present
  <2>6. req[p].op = "createActor" \/ \E r \in near[p] : r.op = "deleteActor" /\ <<r.seg, r.name>> = a
    BY <2>3, <2>5 DEF Gone
  <2> QED
    BY <2>3, <2>4, <2>6
<1>2. Control /\ PresentInv /\ [Next]_vars
      => [\A a \in DOMAIN actors' \ DOMAIN actors :
            \E p \in Procs : /\ Steps(p) /\ Target(p) = a
                             /\ \/ req[p].op = "createActor"
                                \/ \E r \in near[p] : r.op = "deleteActor" /\ <<r.seg, r.name>> = a]_vars
  BY <1>1
<1> QED
  BY <1>2, Base, PTL DEF NoRevival, Spec


-----------------------------------------------------------------------------
(* Names.                                                                   *)

\* The steps that lead to a place.
LEMMA Arriving ==
    ASSUME Control, NEW p \in Procs, Effect(p)
    PROVE  /\ pc'[p] = "keys" => Finds(p)
           /\ pc'[p] = "stash" => Claims(p) \/ Preserves(p)
           /\ pc'[p] = "create" => Claims(p) \/ Stashes(p)
           /\ pc'[p] = "grantCreator" => Creates(p)
           /\ pc'[p] = "join" => Grants(p)
           /\ pc'[p] = "defaultRow" => Chooses(p)
           /\ pc'[p] = "privilege" => Chooses(p) \/ PutsDefault(p)
           /\ pc'[p] = "putRecord" => Preserves(p) \/ Stashes(p)
           /\ pc'[p] \in {"putUsersACLs", "putOrgACLs"} => Ranges(p) \/ PutsClean(p)
           /\ pc'[p] = "leaveGroups" => Finishes(p)
           /\ pc'[p] = "orgACLs" => Locks(p) \/ Leaves(p)
           /\ pc'[p] = "ownACL" => Finishes(p) \/ Leaves(p)
           /\ pc'[p] = "listRows" => DropsACL(p)
           /\ pc'[p] = "deleteRows" => Lists(p) \/ DropsRow(p)
           /\ pc'[p] = "loaded" => Loads(p)
           /\ pc'[p] \in {"putRow", "renameCreate"} => Plans(p)
           /\ pc'[p] = "renameDelete" => RenamesTo(p)
           /\ pc'[p] = "setPub" => PutsKey(p) \/ DeletesKey(p)
           /\ pc'[p] = "setNewPub" => AddsKey(p) \/ RenamesFrom(p)
           /\ pc'[p] = "keepAdmins" => Checks(p)
           /\ pc'[p] = "aceMembers" => Guards(p)
           /\ pc'[p] = "loadACL" => Vets(p)
           /\ pc'[p] = "storeACL" => LoadsACL(p)
<1>0. req[p].op \in Ops
  BY Routed DEF Control
<1> USE DEF Ops, Writes, KeyWrites
<1>1. CASE Ends(p)
  BY <1>1 DEF Ends
<1>2. CASE AuthEffect(p)
  BY <1>0, <1>2 DEF AuthEffect, Finds, Retries, Knows, Looks, Sees, Admits, Asks, Reads
<1>3. CASE ActorEffect(p)
  BY <1>3 DEF ActorEffect, Claims, Stashes, Creates, Grants, Joins, Starts, Merges, Chooses,
              PutsDefault, Preserves, PutsRecord, Reads
<1>4. CASE DeleteEffect(p)
  BY <1>4 DEF DeleteEffect, Locks, Ranges, PutsClean, Finishes, Leaves, DropsACL, Lists,
              DropsRow, DropsActor, Reads
<1>5. CASE KeyEffect(p)
  BY <1>5 DEF KeyEffect, Loads, AddsKey, Plans, PutsKey, RenamesTo, RenamesFrom, DeletesKey, SetsPub, Reads
<1>6. CASE ACLEffect(p)
  BY <1>6 DEF ACLEffect, Checks, Guards, Vets, LoadsACL, StoresACL, Reads
<1> QED
  BY <1>1, <1>2, <1>3, <1>4, <1>5, <1>6 DEF Effect

-----------------------------------------------------------------------------
(* Key rows.                                                                *)

\* What a step does to the set of key rows.
LEMMA RowsStep ==
    ASSUME Control, NEW p \in Procs, Effect(p)
    PROVE  \/ rows' = rows
           \/ \E k : PutsRow(p, k) /\ DOMAIN rows' = DOMAIN rows \cup {k} /\ actors' = actors
                     /\ \A x \in DOMAIN rows \ {k} : rows'[x] = rows[x]
           \/ \E k : LosesRow(p, k) /\ DOMAIN rows' = DOMAIN rows \ {k} /\ actors' = actors
                     /\ \A x \in DOMAIN rows' : rows'[x] = rows[x]
<1>1. Change(p)
  BY Changing
<1>2. CASE \E k : PutsRow(p, k)
  <2>1. PICK k : PutsRow(p, k)
    BY <1>2
  <2>2. DOMAIN rows' = DOMAIN rows \cup {k} /\ \A x \in DOMAIN rows \ {k} : rows'[x] = rows[x]
    BY <2>1 DEF PutsRow, With
  <2> QED
    BY <2>1, <2>2 DEF PutsRow
<1>3. CASE \E k : LosesRow(p, k)
  <2>1. PICK k : LosesRow(p, k)
    BY <1>3
  <2>2. DOMAIN rows' = DOMAIN rows \ {k} /\ \A x \in DOMAIN rows' : rows'[x] = rows[x]
    BY <2>1 DEF LosesRow, Less
  <2> QED
    BY <2>1, <2>2 DEF LosesRow
<1>4. CASE ~(\E k : PutsRow(p, k)) /\ ~(\E k : LosesRow(p, k))
  BY <1>1, <1>4 DEF Change, SameStore, PutsActor, LosesActor, ChangesACLs, ChangesMembers
<1> QED
  BY <1>2, <1>3, <1>4

LEMMA OwnedStep ==
    ASSUME Control, PresentInv, RowsInv, NEW p \in Procs, Effect(p)
    PROVE  Owned'
<1>0. Moves(p) /\ frayed' = frayed /\ p \in Busy
  BY EffectMoves DEF Moves, Busy
<1> SUFFICES ASSUME NEW k \in DOMAIN rows', k[2] \notin frayed
             PROVE  <<k[1], k[2]>> \in DOMAIN actors'
  BY <1>0 DEF Owned
<1>1. CASE k \in DOMAIN rows
  <2>1. <<k[1], k[2]>> \in DOMAIN actors
    BY <1>1 DEF RowsInv, Owned
  <2>2. CASE LosesActor(p)
    <3>1. KeyRows(Target(p)) = {} \/ req[p].name \in frayed
      BY <2>2 DEF LosesActor, RowsInv, Listing
    <3>2. <<k[1], k[2]>> # Target(p)
      BY <1>1, <3>1 DEF KeyRows, Target
    <3>3. DOMAIN actors' = DOMAIN actors \ {Target(p)}
      BY <2>2 DEF LosesActor, Less
    <3> QED
      BY <2>1, <3>2, <3>3
  <2>3. CASE ~LosesActor(p)
    <3>1. DOMAIN actors \subseteq DOMAIN actors'
      BY <2>3, ActorsStep
    <3> QED
      BY <2>1, <3>1
  <2> QED
    BY <2>2, <2>3
<1>2. CASE k \notin DOMAIN rows
  <2>1. PutsRow(p, k) /\ actors' = actors
    BY <1>2, RowsStep
  <2>2. <<k[1], k[2]>> = Target(p)
    BY <2>1 DEF PutsRow, KeyRow, Target
  <2>3. Target(p) \in DOMAIN actors \/ Gone(p)
    BY <2>1 DEF PutsRow, PresentInv, Present
  <2>4. Gone(p) => req[p].name \in frayed
    BY <1>0, <2>1, GoneFrays DEF PutsRow
  <2>5. k[2] = req[p].name
    BY <2>2 DEF Target
  <2> QED
    BY <2>1, <2>2, <2>3, <2>4, <2>5
<1> QED
  BY <1>1, <1>2

LEMMA ListingStep ==
    ASSUME Control, RowsInv, NEW p \in Procs, Effect(p), NEW q \in Procs
    PROVE  Listing(q)'
<1>0. Moves(p) /\ Stage(q) /\ frayed' = frayed /\ req' = req /\ Target(q)' = Target(q)
  BY EffectMoves DEF Control, Moves, Target
<1> SUFFICES ASSUME pc'[q] = "deleteRows", req[q].name \notin frayed,
                    NEW k \in DOMAIN rows', <<k[1], k[2]>> = Target(q)
             PROVE  k \in loc'[q].todo
  BY <1>0 DEF Listing, KeyRows
<1>1. CASE q = p
  <2>1. CASE Lists(p)
    BY <1>1, <2>1 DEF Lists, Reads, SameStore, KeyRows
  <2>2. CASE DropsRow(p)
    <3>1. PICK x \in loc[p].todo : rows' = Less(rows, {x}) /\ loc'[p].todo = loc[p].todo \ {x}
      BY <2>2 DEF DropsRow
    <3>2. k \in DOMAIN rows /\ k # x
      BY <3>1 DEF Less
    <3>3. KeyRows(Target(p)) \subseteq loc[p].todo
      BY <1>1, <2>2 DEF DropsRow, RowsInv, Listing
    <3>4. k \in KeyRows(Target(p))
      BY <1>1, <3>2 DEF KeyRows
    <3> QED
      BY <1>1, <3>1, <3>2, <3>3, <3>4
  <2> QED
    BY <1>1, <2>1, <2>2, Arriving
<1>2. CASE q # p
  <2>1. pc'[q] = pc[q] /\ loc'[q] = loc[q]
    BY <1>0, <1>2 DEF Moves
  <2>2. KeyRows(Target(q)) \subseteq loc[q].todo
    BY <2>1 DEF RowsInv, Listing
  <2>3. k \in DOMAIN rows
    <3> SUFFICES ASSUME k \notin DOMAIN rows PROVE FALSE
      OBVIOUS
    <3>1. PutsRow(p, k)
      BY RowsStep
    <3>2. <<k[1], k[2]>> = Target(p)
      BY <3>1 DEF PutsRow, KeyRow, Target
    <3>3. req[p].name = req[q].name
      BY <3>2 DEF Target
    <3>4. p \in Busy /\ q \in Busy
      BY <1>0, <2>1 DEF Moves, Busy
    <3>5. req[p].name \in Touches(req[p]) /\ req[q].name \in Touches(req[q])
      BY <1>0, <2>1, <3>1, TouchedNames DEF PutsRow, Stage, DeleteSteps
    <3> QED
      BY <1>2, <3>3, <3>4, <3>5, Solo
  <2> QED
    BY <2>1, <2>2, <2>3 DEF KeyRows
<1> QED
  BY <1>1, <1>2

LEMMA RowsNext ==
    ASSUME Control, PresentInv, RowsInv, [Next]_vars
    PROVE  RowsInv'
<1>1. CASE \E p \in Procs : Effect(p)
  BY <1>1, OwnedStep, ListingStep DEF RowsInv
<1>2. CASE \E p \in Procs : Begin(p)
  <2>1. PICK p \in Procs : Begins(p)
    BY <1>2, BeginEffect
  <2>2. /\ actors' = actors /\ rows' = rows /\ frayed \subseteq frayed'
        /\ \A q \in Procs : pc'[q] = "deleteRows" => /\ pc'[q] = pc[q] /\ req'[q] = req[q]
                                                     /\ loc'[q] = loc[q]
    BY <2>1 DEF Begins, SameStore
  <2>3. Owned'
    BY <2>2 DEF RowsInv, Owned
  <2>4. ASSUME NEW q \in Procs PROVE Listing(q)'
    BY <2>2 DEF RowsInv, Listing, KeyRows, Target
  <2> QED
    BY <2>3, <2>4 DEF RowsInv
<1>3. CASE UNCHANGED vars
  BY <1>3 DEF vars, RowsInv, Owned, Listing, KeyRows, Target
<1> QED
  BY <1>1, <1>2, <1>3, Stepping

LEMMA RowsInit == Init => RowsInv
<1> SUFFICES ASSUME Init PROVE RowsInv
  OBVIOUS
<1>1. PICK s \in Scenarios : actors = s.actors /\ rows = s.rows
  BY DEF Init
<1>2. \A p \in Procs : pc[p] = "idle"
  BY DEF Init
<1>3. Owned
  BY <1>1, SoundScenarios DEF Owned
<1> QED
  BY <1>2, <1>3 DEF RowsInv, Listing

LEMMA Rows == Spec => []RowsInv
<1>1. Init => RowsInv
  BY RowsInit
<1>2. Control /\ PresentInv /\ RowsInv /\ [Next]_vars => RowsInv'
  BY RowsNext
<1> QED
  BY <1>1, <1>2, Base, PTL DEF Spec


-----------------------------------------------------------------------------
(* What outlives an actor.                                                  *)

\* p puts an ACL that names only who may be named, and nothing that a delete
\* in flight has cleaned.
PutsACL(p, k, acl) ==
    /\ acls' = With(acls, k, acl) /\ UNCHANGED <<actors, rows, member>>
    /\ Standing(k) /\ NamesIn(acl, Nameable(k[1]))
    /\ \A q \in Procs \ {p} : pc[q] \in DeleteSteps =>
         req[q].name \in frayed \/ (~Names(acl, req[q].name) /\ k # Target(q))

LEMMA Solitary ==
    ASSUME Control, NEW p \in Procs, NEW q \in Procs, p # q, pc[p] # "idle", pc[q] \in DeleteSteps
    PROVE  /\ req[q].op = "deleteActor" /\ writer = q /\ pc[p] \notin DeleteSteps
           /\ req[q].name \in Touches(req[p]) \/ req[p].op = "putACL" => req[q].name \in frayed
<1>1. req[q].op = "deleteActor" /\ writer = q /\ q \in Busy /\ p \in Busy
  BY DEF Control, Stage, Busy, DeleteSteps
<1>2. pc[p] \notin DeleteSteps
  BY <1>1 DEF Control, Stage
<1>3. req[q].name \in Touches(req[q])
  BY <1>1, TouchedNames
<1> QED
  BY <1>1, <1>2, <1>3, Solo

LEMMA ACLsStep ==
    ASSUME Control, ACLInv, NEW p \in Procs, Effect(p)
    PROVE  acls' = acls \/ (\E k, acl : PutsACL(p, k, acl)) \/ DropsACL(p)
<1>0. Moves(p) /\ Stage(p) /\ Typed /\ pc[p] # "idle"
  BY EffectMoves DEF Control, Moves
<1>1. CASE Grants(p)
  <2> DEFINE acl == creatorACL(loc[p].who.name)
  <2>1. /\ req[p].op = "createActor" /\ loc[p].who.name = req[p].as
        /\ req[p].seg = "users" => loc[p].who.super
    BY <1>0, <1>1 DEF Grants, Stage, CreateSteps
  <2>2. Creating(p) /\ pc[p] = "grantCreator"
    BY <1>1 DEF ACLInv, Grants
  <2>3. /\ req[p].as \in Living /\ (req[p].seg = "users" => req[p].as \in Users)
        /\ Standing(Target(p))
    BY <2>1, <2>2 DEF Creating
  <2>4. \A perm \in aclPerms : acl[perm].actors = {req[p].as}
    BY <2>1, CreatorFacts
  <2> HIDE DEF acl
  <2>5. NamesIn(acl, Nameable(Target(p)[1]))
    BY <2>3, <2>4 DEF NamesIn, Nameable, Target
  <2>6. ASSUME NEW q \in Procs \ {p}, pc[q] \in DeleteSteps, req[q].name \notin frayed
        PROVE  ~Names(acl, req[q].name) /\ Target(p) # Target(q)
    <3>1. req[q].name \notin {req[p].name, req[p].as}
      BY <1>0, <2>1, <2>6, Solitary, TouchedNames
    <3>2. ~Names(acl, req[q].name)
      BY <2>4, <3>1 DEF Names
    <3> QED
      BY <3>1, <3>2 DEF Target
  <2>7. PutsACL(p, Target(p), acl)
    BY <1>1, <2>3, <2>5, <2>6 DEF PutsACL, Grants, acl
  <2> QED
    BY <2>7
<1>2. CASE PutsClean(p)
  <2>1. PICK x \in loc[p].todo : acls' = With(acls, x[1], x[2])
    BY <1>2 DEF PutsClean
  <2>2. \E global : Cleaning(p, global)
    BY <1>2 DEF PutsClean, ACLInv, Deleting
  <2>3. x[1] \in DOMAIN acls /\ NamesIn(x[2], Nameable(x[1][1]))
    BY <2>2 DEF Cleaning
  <2>4. Standing(x[1])
    BY <2>3 DEF ACLInv
  <2>5. \A q \in Procs \ {p} : pc[q] \notin DeleteSteps
    BY <1>0, <1>2, Solitary DEF PutsClean, DeleteSteps
  <2>6. PutsACL(p, x[1], x[2])
    BY <1>2, <2>1, <2>3, <2>4, <2>5 DEF PutsACL, PutsClean
  <2> QED
    BY <2>6
<1>3. CASE StoresACL(p)
  <2>1. pc[p] = "storeACL" /\ req[p].op = "putACL" /\ ACLTarget(req[p])[1] = req[p].typ
    BY <1>0, <1>3 DEF StoresACL, Stage, ACLSteps, ACLTarget
  <2>2. Standing(ACLTarget(req[p])) /\ NamesIn(loc[p].acl, Nameable(req[p].typ))
    BY <2>1 DEF ACLInv, Granting, ACLSteps
  <2>3. \A q \in Procs \ {p} : pc[q] \in DeleteSteps => req[q].name \in frayed
    BY <1>0, <2>1, Solitary
  <2>4. PutsACL(p, ACLTarget(req[p]), loc[p].acl)
    BY <1>3, <2>1, <2>2, <2>3 DEF PutsACL, StoresACL
  <2> QED
    BY <2>4
<1>4. CASE ~(Grants(p) \/ PutsClean(p) \/ StoresACL(p))
  BY <1>4, Changing DEF Change, SameStore, PutsActor, LosesActor, PutsRow, LosesRow, ChangesACLs, ChangesMembers
<1> QED
  BY <1>1, <1>2, <1>3, <1>4

\* A step that loses no actor, or one with a frayed name, takes nothing from
\* those that may be named.
LEMMA LivingGrows ==
    ASSUME Control, NEW p \in Procs, Effect(p), LosesActor(p) => req[p].name \in frayed
    PROVE  /\ Living \subseteq Living' /\ Users \subseteq Users' /\ frayed' = frayed
           /\ \A k : Standing(k) => Standing(k)'
           /\ \A a \in DOMAIN actors : a \in DOMAIN actors' \/ a[2] \in frayed
<1>1. frayed' = frayed
  BY EffectMoves DEF Moves
<1>2. \A a \in DOMAIN actors : a \in DOMAIN actors' \/ a[2] \in frayed
  <2>1. CASE LosesActor(p)
    BY <2>1 DEF LosesActor, Less, Target
  <2>2. CASE ~LosesActor(p)
    <3>1. DOMAIN actors \subseteq DOMAIN actors'
      BY <2>2, ActorsStep
    <3> QED
      BY <3>1
  <2> QED
    BY <2>1, <2>2
<1>3. Living \subseteq Living'
  BY <1>1, <1>2 DEF Living
<1>4. \A n : <<"users", n>> \in DOMAIN actors => <<"users", n>> \in DOMAIN actors' \/ n \in frayed
  <2> SUFFICES ASSUME NEW n, <<"users", n>> \in DOMAIN actors
               PROVE  <<"users", n>> \in DOMAIN actors' \/ n \in frayed
    OBVIOUS
  <2>1. <<"users", n>>[2] = n
    OBVIOUS
  <2> QED
    BY <1>2, <2>1
<1>5. Users \subseteq Users'
  BY <1>1, <1>3, <1>4 DEF Users
<1>6. \A k : Standing(k) => Standing(k)'
  BY <1>1, <1>2 DEF Standing
<1> QED
  BY <1>1, <1>2, <1>3, <1>5, <1>6

\* Otherwise only the name of that actor goes.
LEMMA LivingLoses ==
    ASSUME Control, NEW p \in Procs, Effect(p), LosesActor(p)
    PROVE  /\ \A n \in Living : n # req[p].name => n \in Living'
           /\ \A n \in Users : n # req[p].name \/ req[p].seg # "users" => n \in Users'
           /\ frayed' = frayed
           /\ \A k : Standing(k) /\ k # Target(p) => Standing(k)'
           /\ \A a \in DOMAIN actors : a # Target(p) => a \in DOMAIN actors'
<1>1. frayed' = frayed
  BY EffectMoves DEF Moves
<1>2. DOMAIN actors' = DOMAIN actors \ {Target(p)}
  BY DEF LosesActor, Less
<1>3. ASSUME NEW n \in Living, n # req[p].name
      PROVE  n \in Living'
  BY <1>1, <1>2, <1>3 DEF Living, Target
<1>4. ASSUME NEW n \in Users, n # req[p].name \/ req[p].seg # "users"
      PROVE  n \in Users'
  <2>1. CASE n \in frayed
    BY <1>1, <2>1 DEF Users
  <2>2. CASE <<"users", n>> \in DOMAIN actors
    <3>1. <<"users", n>> \in DOMAIN actors' /\ <<"users", n>>[2] = n
      BY <1>2, <1>4, <2>2 DEF Target
    <3>2. n \in Living'
      BY <3>1 DEF Living
    <3> QED
      BY <3>1, <3>2 DEF Users
  <2> QED
    BY <2>1, <2>2 DEF Users
<1>5. \A k : Standing(k) /\ k # Target(p) => Standing(k)'
  BY <1>1, <1>2 DEF Standing
<1> QED
  BY <1>1, <1>2, <1>3, <1>4, <1>5



LEMMA ACLsNamed ==
    ASSUME Control, ACLInv, NEW p \in Procs, Effect(p)
    PROVE  \A k \in DOMAIN acls' : Standing(k)' /\ NamesIn(acls'[k], Nameable(k[1])')
<1>0. Stage(p) /\ Typed /\ Moves(p)
  BY EffectMoves DEF Control
<1>1. CASE LosesActor(p) /\ req[p].name \notin frayed
  <2>1. acls' = acls /\ pc[p] = "deleteRows"
    BY <1>1 DEF LosesActor
  <2>2. req[p].op = "deleteActor" /\ req[p].seg \in Segs
    BY <1>0, <2>1, Routed DEF Stage, DeleteSteps
  <2>3. Deleting(p)
    BY DEF ACLInv
  <2>4. /\ Cleaned(p, FALSE) /\ (req[p].seg = "users" => Cleaned(p, TRUE))
        /\ Target(p) \notin DOMAIN acls
    BY <1>1, <2>1, <2>3 DEF Deleting
  <2>5. ASSUME NEW k \in DOMAIN acls
        PROVE  Standing(k)' /\ NamesIn(acls[k], Nameable(k[1])')
    <3>1. Standing(k) /\ NamesIn(acls[k], Nameable(k[1])) /\ k # Target(p)
      BY <2>4 DEF ACLInv
    <3>2. Standing(k)'
      BY <1>1, <3>1, LivingLoses
    <3>3. CASE k[1] # "users"
      <4>1. ~Names(acls[k], req[p].name)
        BY <1>1, <2>4, <3>3 DEF Cleaned, Of
      <4>2. NamesIn(acls[k], Living')
        BY <1>1, <3>1, <3>3, <4>1, LivingLoses DEF NamesIn, Nameable, Names
      <4> QED
        BY <3>2, <3>3, <4>2 DEF Nameable
    <3>4. CASE k[1] = "users"
      <4>1. req[p].seg = "users" => ~Names(acls[k], req[p].name)
        BY <1>1, <2>4, <3>4 DEF Cleaned, Of
      <4>2. NamesIn(acls[k], Users')
        BY <1>1, <3>1, <3>4, <4>1, LivingLoses DEF NamesIn, Nameable, Names
      <4> QED
        BY <3>2, <3>4, <4>2 DEF Nameable
    <3> QED
      BY <3>3, <3>4
  <2> QED
    BY <2>1, <2>5
<1>2. CASE LosesActor(p) => req[p].name \in frayed
  <2>1. /\ \A k : Standing(k) => Standing(k)'
        /\ \A typ : Nameable(typ) \subseteq Nameable(typ)'
    BY <1>2, LivingGrows DEF Nameable
  <2>2. \A k, acl : NamesIn(acl, Nameable(k[1])) => NamesIn(acl, Nameable(k[1])')
    BY <2>1 DEF NamesIn
  <2>3. \A k \in DOMAIN acls' : \/ k \in DOMAIN acls /\ acls'[k] = acls[k]
                                \/ Standing(k) /\ NamesIn(acls'[k], Nameable(k[1]))
    <3> SUFFICES ASSUME NEW k \in DOMAIN acls', ~(k \in DOMAIN acls /\ acls'[k] = acls[k])
                 PROVE  Standing(k) /\ NamesIn(acls'[k], Nameable(k[1]))
      OBVIOUS
    <3>1. CASE acls' = acls
      BY <3>1
    <3>2. CASE \E j, acl : PutsACL(p, j, acl)
      <4>1. PICK j, acl : PutsACL(p, j, acl)
        BY <3>2
      <4>2. k = j /\ acls'[k] = acl
        BY <4>1 DEF PutsACL, With
      <4> QED
        BY <4>1, <4>2 DEF PutsACL
    <3>3. CASE DropsACL(p)
      BY <3>3 DEF DropsACL, Less
    <3> QED
      BY <3>1, <3>2, <3>3, ACLsStep
  <2> QED
    BY <2>1, <2>2, <2>3 DEF ACLInv
<1> QED
  BY <1>1, <1>2

LEMMA MembersLive ==
    ASSUME Control, ACLInv, NEW p \in Procs, Effect(p)
    PROVE  \A m \in member' : m[2] \in Living'
<1>0. Stage(p) /\ Typed /\ Moves(p)
  BY EffectMoves DEF Control
<1>1. CASE LosesActor(p) /\ req[p].name \notin frayed
  <2>1. \A m \in member : m[2] # req[p].name
    BY <1>1 DEF LosesActor, ACLInv, Deleting
  <2>2. member' = member
    BY <1>1 DEF LosesActor
  <2> QED
    BY <1>1, <2>1, <2>2, LivingLoses DEF ACLInv
<1>2. CASE LosesActor(p) => req[p].name \in frayed
  <2>1. Living \subseteq Living'
    BY <1>2, LivingGrows
  <2>2. CASE Joins(p)
    <3>1. req[p].op = "createActor" /\ Standing(Target(p)) /\ req[p].seg \in Segs
      BY <1>0, <2>2, Routed DEF Joins, Stage, CreateSteps, ACLInv, Creating
    <3>2. Target(p) \in DOMAIN actors \/ req[p].name \in frayed
      BY <3>1 DEF Standing, Target
    <3>3. Target(p)[2] = req[p].name
      BY DEF Target
    <3>4. req[p].name \in Living
      BY <3>2, <3>3 DEF Living
    <3> QED
      BY <2>1, <2>2, <3>4 DEF Joins, ACLInv
  <2>3. CASE ~Joins(p)
    <3>1. member' \subseteq member
      BY <2>3, Changing DEF Change, SameStore, PutsActor, LosesActor, PutsRow, LosesRow,
                            ChangesACLs, ChangesMembers, Leaves
    <3> QED
      BY <2>1, <3>1 DEF ACLInv
  <2> QED
    BY <2>2, <2>3
<1> QED
  BY <1>1, <1>2

\* Past authentication p is who it was.
LEMMA Acting ==
    ASSUME Control, NEW p \in Procs, Effect(p), pc'[p] \notin {"idle", "auth", "keys"}
    PROVE  Knows(p) \/ (pc[p] \notin {"idle", "auth", "keys"} /\ SameWho(p))
<1>1. CASE Ends(p)
  BY <1>1 DEF Ends
<1>2. CASE AuthEffect(p)
  BY <1>2 DEF AuthEffect, Finds, Retries, Knows, Looks, Sees, Admits, Asks, Reads, Stays, SameWho
<1>3. CASE ActorEffect(p)
  BY <1>3 DEF ActorEffect, Claims, Stashes, Creates, Grants, Joins, Starts, Merges, Chooses,
              PutsDefault, Preserves, PutsRecord, Reads, Stays, SameWho
<1>4. CASE DeleteEffect(p)
  BY <1>4 DEF DeleteEffect, Locks, Ranges, PutsClean, Finishes, Leaves, DropsACL, Lists,
              DropsRow, DropsActor, Reads, Stays, SameWho
<1>5. CASE KeyEffect(p)
  BY <1>5 DEF KeyEffect, Loads, AddsKey, Plans, PutsKey, RenamesTo, RenamesFrom, DeletesKey, SetsPub, Reads,
              Stays, SameWho, KeyWrites
<1>6. CASE ACLEffect(p)
  BY <1>6 DEF ACLEffect, Checks, Guards, Vets, LoadsACL, StoresACL, Reads, Stays, SameWho
<1> QED
  BY <1>1, <1>2, <1>3, <1>4, <1>5, <1>6 DEF Effect

\* The names that a request in flight is about stay with it: whoever takes an
\* actor away has frayed its name.
LEMMA Kept ==
    ASSUME Control, NEW p \in Procs, Effect(p), NEW q \in Procs, q # p, pc[q] # "idle",
           req[q].op = "createActor"
    PROVE  /\ req[q].as \in Living => req[q].as \in Living'
           /\ req[q].as \in Users => req[q].as \in Users'
           /\ Standing(Target(q)) => Standing(Target(q))'
           /\ \A a \in DOMAIN actors : a[2] = req[q].as => a \in DOMAIN actors' \/ req[q].as \in frayed
<1>1. CASE LosesActor(p) => req[p].name \in frayed
  <2>1. /\ Living \subseteq Living' /\ Users \subseteq Users'
        /\ \A k : Standing(k) => Standing(k)'
        /\ \A a \in DOMAIN actors : a \in DOMAIN actors' \/ a[2] \in frayed
    BY <1>1, LivingGrows
  <2>2. Standing(Target(q)) => Standing(Target(q))'
    <3>1. Target(q)' = Target(q)
      BY EffectMoves DEF Moves, Target
    <3>2. frayed' = frayed
      BY EffectMoves DEF Moves
    <3> QED
      BY <2>1, <3>1, <3>2 DEF Standing
  <2> QED
    BY <2>1, <2>2
<1>2. CASE LosesActor(p) /\ req[p].name \notin frayed
  <2>1. pc[p] \in DeleteSteps
    BY <1>2 DEF LosesActor, DeleteSteps
  <2>2. req[p].name \notin {req[q].name, req[q].as}
    BY <1>2, <2>1, Solitary, TouchedNames
  <2>3. Target(q) # Target(p) /\ \A a : a[2] = req[q].as => a # Target(p)
    BY <2>2 DEF Target
  <2>4. /\ req[q].as \in Living => req[q].as \in Living'
        /\ req[q].as \in Users => req[q].as \in Users'
        /\ \A a \in DOMAIN actors : a[2] = req[q].as => a \in DOMAIN actors'
    BY <1>2, <2>2, <2>3, LivingLoses
  <2>5. Standing(Target(q)) => Standing(Target(q))'
    <3>1. Target(q)' = Target(q) /\ frayed' = frayed
      BY EffectMoves DEF Moves, Target
    <3>2. \A a \in DOMAIN actors : a # Target(p) => a \in DOMAIN actors'
      BY <1>2, LivingLoses
    <3> QED
      BY <2>3, <3>1, <3>2 DEF Standing
  <2> QED
    BY <2>4, <2>5
<1> QED
  BY <1>1, <1>2

LEMMA CreatingStep ==
    ASSUME Control, ACLInv, NEW p \in Procs, Effect(p), NEW q \in Procs
    PROVE  Creating(q)'
<1>0. /\ Moves(p) /\ Stage(p) /\ frayed' = frayed /\ req' = req /\ Target(q)' = Target(q)
      /\ Creating(q)
  BY EffectMoves DEF Control, Moves, Target, ACLInv
<1> SUFFICES ASSUME req[q].op = "createActor"
             PROVE  Creating(q)'
  BY <1>0 DEF Creating
<1>1. CASE q # p /\ pc[q] # "idle"
  <2>1. pc'[q] = pc[q] /\ loc'[q] = loc[q]
    BY <1>0, <1>1 DEF Moves
  <2>2. <<loc[q].seg, req[q].as>>[2] = req[q].as
    OBVIOUS
  <2>3. /\ req[q].as \in Living => req[q].as \in Living'
        /\ req[q].as \in Users => req[q].as \in Users'
        /\ Standing(Target(q)) => Standing(Target(q))'
        /\ \A a \in DOMAIN actors : a[2] = req[q].as => a \in DOMAIN actors' \/ req[q].as \in frayed
    BY <1>1, Kept
  <2>4. pc[q] = "keys" => <<loc[q].seg, req[q].as>> \in DOMAIN actors' \/ req[q].as \in frayed
    BY <1>0, <2>2, <2>3 DEF Creating
  <2>5. pc[q] \notin {"idle", "auth", "keys"} =>
             req[q].as \in Living' /\ (loc[q].who.super => req[q].as \in Users')
    BY <1>0, <2>3 DEF Creating
  <2>6. pc[q] \in {"grantCreator", "join"} => Standing(Target(q))'
    BY <1>0, <2>3 DEF Creating
  <2> QED
    BY <1>0, <2>1, <2>4, <2>5, <2>6 DEF Creating
<1>2. CASE q # p /\ pc[q] = "idle"
  <2>1. pc'[q] = "idle"
    BY <1>0, <1>2 DEF Moves
  <2> QED
    BY <2>1 DEF Creating
<1>3. CASE q = p
  <2>0. /\ req[p].op = "createActor" /\ Target(p)' = Target(p)
        /\ ~LosesActor(p)
    BY <1>0, <1>3 DEF LosesActor, Stage, DeleteSteps
  <2>1. /\ Living \subseteq Living' /\ Users \subseteq Users'
        /\ \A k : Standing(k) => Standing(k)'
    BY <2>0, LivingGrows
  <2>2. pc'[p] = "keys" => <<loc'[p].seg, req[p].as>> \in DOMAIN actors'
    BY Arriving DEF Finds, Reads, SameStore
  <2>3. ASSUME pc'[p] \notin {"idle", "auth", "keys"}
        PROVE  req[p].as \in Living /\ (loc'[p].who.super => req[p].as \in Users)
    <3>1. CASE Knows(p)
      <4>1. <<loc[p].seg, req[p].as>> \in DOMAIN actors \/ req[p].as \in frayed
        BY <1>0, <1>3, <2>0, <3>1 DEF Knows, Reads, Creating
      <4>2. <<loc[p].seg, req[p].as>>[2] = req[p].as
        OBVIOUS
      <4>3. req[p].as \in Living
        BY <4>1, <4>2 DEF Living
      <4>4. loc'[p].who.super => loc[p].seg = "users"
        BY <3>1 DEF Knows
      <4> QED
        BY <4>1, <4>3, <4>4 DEF Users
    <3>2. CASE pc[p] \notin {"idle", "auth", "keys"} /\ SameWho(p)
      BY <1>0, <1>3, <2>0, <3>2 DEF Creating, SameWho
    <3> QED
      BY <2>3, <3>1, <3>2, Acting
  <2>4. ASSUME pc'[p] \in {"grantCreator", "join"}
        PROVE  Standing(Target(p))'
    <3>1. CASE Creates(p)
      <4>1. Target(p) \in DOMAIN actors'
        BY <3>1 DEF Creates, With
      <4> QED
        BY <2>0, <4>1 DEF Standing
    <3>2. CASE Grants(p)
      BY <1>0, <1>3, <2>0, <2>1, <3>2 DEF Grants, Creating
    <3> QED
      BY <2>4, <3>1, <3>2, Arriving
  <2> QED
    BY <1>0, <1>3, <2>1, <2>2, <2>3, <2>4 DEF Creating
<1> QED
  BY <1>1, <1>2, <1>3



LEMMA GrantingStep ==
    ASSUME Control, ACLInv, NEW p \in Procs, Effect(p), NEW q \in Procs
    PROVE  Granting(q)'
<1>0. /\ Moves(p) /\ Stage(q) /\ frayed' = frayed /\ req' = req /\ Granting(q)
      /\ Shaped /\ ACLTarget(req[q])[1] = req[q].typ
  BY EffectMoves DEF Control, Moves, ACLInv, ACLTarget
<1> SUFFICES ASSUME pc'[q] \in ACLSteps
             PROVE  Granting(q)'
  BY DEF Granting, ACLSteps
<1>1. LosesActor(p) => req[p].name \in frayed
  <2> SUFFICES ASSUME LosesActor(p) PROVE req[p].name \in frayed
    OBVIOUS
  <2>1. pc[p] \in DeleteSteps /\ q # p
    BY DEF LosesActor, DeleteSteps, ACLSteps
  <2>2. pc[q] = pc'[q]
    BY <1>0, <2>1 DEF Moves
  <2>3. req[q].op = "putACL" /\ pc[q] # "idle"
    BY <1>0, <2>2 DEF Stage, ACLSteps
  <2> QED
    BY <2>1, <2>3, Solitary
<1>2. /\ \A k : Standing(k) => Standing(k)'
      /\ \A typ : Nameable(typ) \subseteq Nameable(typ)'
  BY <1>1, LivingGrows DEF Nameable
<1>3. CASE q # p
  <2>1. pc'[q] = pc[q] /\ loc'[q] = loc[q]
    BY <1>0, <1>3 DEF Moves
  <2>2. Standing(ACLTarget(req[q]))'
    BY <1>0, <1>2, <2>1 DEF Granting
  <2>3. pc[q] \in {"loadACL", "storeACL"} => req[q].ace.actors \subseteq Nameable(req[q].typ)'
    BY <1>0, <1>2, <2>1 DEF Granting
  <2>4. pc[q] = "storeACL" => NamesIn(loc[q].acl, Nameable(req[q].typ)')
    BY <1>0, <1>2, <2>1 DEF Granting, NamesIn
  <2> QED
    BY <1>0, <2>1, <2>2, <2>3, <2>4 DEF Granting
<1>4. CASE q = p
  <2>1. Standing(ACLTarget(req[p]))
    <3>1. CASE Checks(p)
      BY <3>1, RoutedRequests DEF Checks, Exists, Standing, ACLTarget, Segs
    <3>2. CASE Guards(p) \/ Vets(p) \/ LoadsACL(p)
      BY <1>0, <1>4, <3>2 DEF Guards, Vets, LoadsACL, Reads, Granting, ACLSteps
    <3> QED
      BY <1>4, <3>1, <3>2, Arriving DEF ACLSteps
  <2>2. pc'[p] \in {"loadACL", "storeACL"} => req[p].ace.actors \subseteq Nameable(req[p].typ)
    <3>1. CASE Vets(p)
      <4> SUFFICES ASSUME NEW n \in req[p].ace.actors PROVE n \in Nameable(req[p].typ)
        OBVIOUS
      <4>1. PICK s \in IF req[p].typ = "users" THEN {"users"} ELSE Segs : <<s, n>> \in DOMAIN actors
        BY <3>1 DEF Vets
      <4>2. <<s, n>>[2] = n
        OBVIOUS
      <4>3. n \in Living
        BY <4>1, <4>2 DEF Living
      <4> QED
        BY <4>1, <4>3 DEF Nameable, Users
    <3>2. CASE LoadsACL(p)
      BY <1>0, <1>4, <3>2 DEF LoadsACL, Reads, Granting
    <3> QED
      BY <3>1, <3>2, Arriving
  <2>3. pc'[p] = "storeACL" => NamesIn(loc'[p].acl, Nameable(req[p].typ))
    <3> SUFFICES ASSUME pc'[p] = "storeACL" PROVE NamesIn(loc'[p].acl, Nameable(req[p].typ))
      OBVIOUS
    <3> DEFINE acl == loadACL(ACLTarget(req[p]))
    <3>1. loc'[p].acl = [acl EXCEPT ![req[p].perm] = req[p].ace]
      BY Arriving DEF LoadsACL
    <3>2. IsACL(acl)
      BY <1>0, LoadedACLs
    <3>3. NamesIn(acl, Nameable(req[p].typ))
      <4>1. CASE ACLTarget(req[p]) \in DOMAIN acls
        BY <1>0, <1>4, <4>1 DEF loadACL, ACLInv
      <4>2. CASE ACLTarget(req[p]) \notin DOMAIN acls
        BY <4>2, FallbackACLs DEF loadACL, NamesIn
      <4> QED
        BY <4>1, <4>2
    <3> HIDE DEF acl
    <3>4. req[p].ace.actors \subseteq Nameable(req[p].typ)
      BY <2>2
    <3> QED
      BY <3>1, <3>2, <3>3, <3>4 DEF NamesIn, IsACL
  <2>4. Standing(ACLTarget(req[p]))'
    BY <1>0, <1>2, <2>1
  <2>5. pc'[p] \in {"loadACL", "storeACL"} => req[p].ace.actors \subseteq Nameable(req[p].typ)'
    BY <1>0, <1>2, <2>2
  <2>6. pc'[p] = "storeACL" => NamesIn(loc'[p].acl, Nameable(req[p].typ)')
    BY <1>0, <1>2, <2>3 DEF NamesIn
  <2> QED
    BY <1>0, <1>4, <2>4, <2>5, <2>6 DEF Granting
<1> QED
  BY <1>3, <1>4

\* Nobody undoes what a delete has cleaned.
LEMMA DeletingOther ==
    ASSUME Control, ACLInv, NEW p \in Procs, Effect(p), NEW q \in Procs, q # p
    PROVE  Deleting(q)'
<1>0. /\ Moves(p) /\ frayed' = frayed /\ req' = req /\ Deleting(q) /\ pc[p] # "idle"
      /\ pc'[q] = pc[q] /\ loc'[q] = loc[q] /\ Target(q)' = Target(q)
  BY EffectMoves DEF Moves, ACLInv, Target
<1> SUFFICES ASSUME pc[q] \in DeleteSteps
             PROVE  Deleting(q)'
  BY <1>0 DEF Deleting, DeleteSteps
<1>1. /\ pc[p] \notin DeleteSteps
      /\ req[q].name \in Touches(req[p]) => req[q].name \in frayed
  BY <1>0, Solitary
<1>2. /\ DOMAIN acls \subseteq DOMAIN acls'
      /\ \A k \in DOMAIN acls' :
            \/ k \in DOMAIN acls /\ acls'[k] = acls[k]
            \/ req[q].name \in frayed
            \/ ~Names(acls'[k], req[q].name) /\ k # Target(q)
  <2>1. CASE acls' = acls
    BY <2>1
  <2>2. CASE \E k, acl : PutsACL(p, k, acl)
    <3>1. PICK j, acl : PutsACL(p, j, acl)
      BY <2>2
    <3>2. /\ DOMAIN acls' = DOMAIN acls \cup {j} /\ acls'[j] = acl
          /\ \A k \in DOMAIN acls \ {j} : acls'[k] = acls[k]
      BY <3>1 DEF PutsACL, With
    <3>3. req[q].name \in frayed \/ (~Names(acl, req[q].name) /\ j # Target(q))
      BY <1>0, <3>1 DEF PutsACL
    <3> QED
      BY <3>2, <3>3
  <2>3. ~DropsACL(p)
    BY <1>1 DEF DropsACL, DeleteSteps
  <2> QED
    BY <2>1, <2>2, <2>3, ACLsStep
<1>3. req[q].name \in frayed \/ \A m \in member' : m \in member \/ m[2] # req[q].name
  <2>1. CASE Joins(p)
    <3>1. req[p].op = "createActor"
      BY <2>1 DEF Joins, Control, Stage, CreateSteps
    <3>2. req[q].name # req[p].name \/ req[q].name \in frayed
      BY <1>1, <3>1, TouchedNames
    <3> QED
      BY <2>1, <3>2 DEF Joins
  <2>2. CASE ~Joins(p)
    BY <2>2, Changing DEF Change, SameStore, PutsActor, LosesActor, PutsRow, LosesRow,
                          ChangesACLs, ChangesMembers, Leaves
  <2> QED
    BY <2>1, <2>2
<1>4. \A typ : Nameable(typ) \subseteq Nameable(typ)'
  BY <1>1, LivingGrows DEF Nameable, LosesActor, DeleteSteps
<1>5. ASSUME NEW g, Cleaned(q, g) PROVE Cleaned(q, g)'
  BY <1>0, <1>2, <1>5 DEF Cleaned
<1>6. ASSUME NEW g, Cleaning(q, g) PROVE Cleaning(q, g)'
  <2>1. ASSUME NEW x \in loc[q].todo
        PROVE  /\ x[1] \in DOMAIN acls' /\ Of(x[1], g) /\ IsACL(x[2])
               /\ NamesIn(x[2], Nameable(x[1][1])') /\ ~Names(x[2], req[q].name)
    BY <1>2, <1>4, <1>6 DEF Cleaning, NamesIn
  <2>2. \/ req[q].name \in frayed
        \/ \A k \in DOMAIN acls' : Of(k, g) /\ Names(acls'[k], req[q].name) => \E x \in loc[q].todo : x[1] = k
    <3> SUFFICES ASSUME req[q].name \notin frayed, NEW k \in DOMAIN acls', Of(k, g),
                        Names(acls'[k], req[q].name)
                 PROVE  \E x \in loc[q].todo : x[1] = k
      OBVIOUS
    <3>1. k \in DOMAIN acls /\ acls'[k] = acls[k]
      BY <1>2
    <3>2. Names(acls[k], req[q].name)
      BY <3>1
    <3> QED
      BY <1>6, <3>1, <3>2 DEF Cleaning
  <2>3. req'[q].name = req[q].name /\ loc'[q].todo = loc[q].todo
    BY <1>0
  <2> QED
    BY <1>0, <2>1, <2>2, <2>3, Zenon DEF Cleaning
<1>7. ASSUME req[q].name \in frayed \/ \A m \in member : m[2] # req[q].name
      PROVE  req[q].name \in frayed \/ \A m \in member' : m[2] # req[q].name
  BY <1>3, <1>7
<1>8. ASSUME req[q].name \in frayed \/ Target(q) \notin DOMAIN acls
      PROVE  req[q].name \in frayed \/ Target(q) \notin DOMAIN acls'
  BY <1>2, <1>8
<1> QED
  BY <1>0, <1>5, <1>6, <1>7, <1>8 DEF Deleting



\* What a delete has done by the time it gets somewhere.
LEMMA DeletingOwn ==
    ASSUME Control, ACLInv, NEW p \in Procs, Effect(p)
    PROVE  Deleting(p)'
<1>0. /\ Moves(p) /\ Stage(p) /\ frayed' = frayed /\ req' = req /\ Deleting(p) /\ Shaped
      /\ Target(p)' = Target(p)
  BY EffectMoves DEF Moves, ACLInv, Target, Control
<1> DEFINE user == req[p].seg = "users"
           n == req[p].name
           Clean(A, g) == n \in frayed \/ \A k \in DOMAIN A : Of(k, g) => ~Names(A[k], n)
           Left(M) == n \in frayed \/ \A m \in M : m[2] # n
           Dropped(A) == n \in frayed \/ Target(p) \notin DOMAIN A
           Last(l) == l \in {"ownACL", "listRows", "deleteRows"}
           Done1(l, A) == user /\ (l \in {"leaveGroups", "orgACLs", "putOrgACLs"} \/ Last(l)) => Clean(A, TRUE)
           Done2(l, A) == (~user /\ l = "leaveGroups") \/ Last(l) => Clean(A, FALSE)
           Done3(l, M) == (user /\ l \in {"orgACLs", "putOrgACLs"}) \/ Last(l) => Left(M)
           Done4(l, A) == l \in {"listRows", "deleteRows"} => Dropped(A)
<1>1. /\ Done1(pc[p], acls) /\ Done2(pc[p], acls) /\ Done3(pc[p], member) /\ Done4(pc[p], acls)
      /\ pc[p] = "putUsersACLs" => Cleaning(p, TRUE)
      /\ pc[p] = "putOrgACLs" => Cleaning(p, FALSE)
  BY <1>0 DEF Deleting, Cleaned
<1> SUFFICES /\ Done1(pc'[p], acls') /\ Done2(pc'[p], acls') /\ Done3(pc'[p], member') /\ Done4(pc'[p], acls')
             /\ pc'[p] = "putUsersACLs" => Cleaning(p, TRUE)'
             /\ pc'[p] = "putOrgACLs" => Cleaning(p, FALSE)'
  BY <1>0 DEF Deleting, Cleaned
<1> HIDE DEF n, Clean, Left, Dropped
<1>2. CASE Locks(p)
  BY <1>2 DEF Locks, Reads
<1>3. CASE Ranges(p)
  <2>0. PICK g \in BOOLEAN : g = (pc[p] = "usersACLs")
    OBVIOUS
  <2>1. /\ pc'[p] = IF g THEN "putUsersACLs" ELSE "putOrgACLs"
        /\ loc'[p].todo = {<<k, Without(acls[k], n)>> : k \in Named(p, g)}
        /\ acls' = acls /\ member' = member /\ actors' = actors
        /\ pc[p] = IF g THEN "usersACLs" ELSE "orgACLs"
    BY <1>3, <2>0 DEF Ranges, Reads, SameStore, n
  <2>2. ASSUME NEW x \in loc'[p].todo
        PROVE  /\ x[1] \in DOMAIN acls /\ Of(x[1], g) /\ IsACL(x[2])
               /\ NamesIn(x[2], Nameable(x[1][1])) /\ ~Names(x[2], n)
    <3>1. PICK k \in Named(p, g) : x = <<k, Without(acls[k], n)>>
      BY <2>1
    <3>2. k \in DOMAIN acls /\ Of(k, g)
      BY <3>1 DEF Named
    <3>3. IsACL(acls[k]) /\ NamesIn(acls[k], Nameable(k[1]))
      BY <1>0, <3>2 DEF Shaped, ACLInv
    <3>4. /\ IsACL(Without(acls[k], n)) /\ ~Names(Without(acls[k], n), n)
          /\ NamesIn(Without(acls[k], n), Nameable(k[1]))
      BY <3>3, WithoutFacts DEF NamesIn
    <3> QED
      BY <3>1, <3>2, <3>4
  <2>3. ASSUME NEW k \in DOMAIN acls, Of(k, g), Names(acls[k], n)
        PROVE  \E x \in loc'[p].todo : x[1] = k
    <3>1. k \in Named(p, g)
      BY <2>3 DEF Named, n
    <3>2. <<k, Without(acls[k], n)>> \in loc'[p].todo /\ <<k, Without(acls[k], n)>>[1] = k
      BY <2>1, <3>1
    <3> QED
      BY <3>2
  <2>4. \A typ : Nameable(typ)' = Nameable(typ)
    BY <1>0, <2>1 DEF Nameable, Living, Users
  <2>5. Cleaning(p, g)'
    <3>1. req'[p].name = n
      BY <1>0 DEF n
    <3>2. \A x \in loc'[p].todo :
             /\ x[1] \in DOMAIN acls' /\ Of(x[1], g) /\ IsACL(x[2])
             /\ NamesIn(x[2], Nameable(x[1][1])') /\ ~Names(x[2], n)
      BY <2>1, <2>2, <2>4
    <3>3. \A k \in DOMAIN acls' : Of(k, g) /\ Names(acls'[k], n) => \E x \in loc'[p].todo : x[1] = k
      BY <2>1, <2>3
    <3> QED
      BY <3>1, <3>2, <3>3, Zenon DEF Cleaning
  <2>6. (g => Cleaning(p, TRUE)') /\ (~g => Cleaning(p, FALSE)')
    BY <2>0, <2>5
  <2> QED
    BY <1>1, <2>0, <2>1, <2>6
<1>4. CASE PutsClean(p)
  <2>0. PICK g \in BOOLEAN : g = (pc[p] = "putUsersACLs")
    OBVIOUS
  <2>1. /\ pc[p] = IF g THEN "putUsersACLs" ELSE "putOrgACLs"
        /\ pc'[p] = pc[p] /\ UNCHANGED <<actors, member>>
    BY <1>4, <2>0 DEF PutsClean
  <2>2. Cleaning(p, g)
    BY <1>1, <2>0, <2>1
  <2>3. PICK x \in loc[p].todo : acls' = With(acls, x[1], x[2]) /\ loc'[p].todo = loc[p].todo \ {x}
    BY <1>4 DEF PutsClean
  <2>4. x[1] \in DOMAIN acls /\ Of(x[1], g) /\ ~Names(x[2], n)
    BY <2>2 DEF Cleaning, n
  <2>5. /\ DOMAIN acls' = DOMAIN acls /\ acls'[x[1]] = x[2]
        /\ \A k \in DOMAIN acls \ {x[1]} : acls'[k] = acls[k]
    BY <2>3, <2>4 DEF With
  <2>6. \A typ : Nameable(typ)' = Nameable(typ)
    BY <1>0, <2>1 DEF Nameable, Living, Users
  <2>7. Cleaning(p, g)'
    <3>1. req'[p].name = n
      BY <1>0 DEF n
    <3>2. \A y \in loc'[p].todo :
             /\ y[1] \in DOMAIN acls' /\ Of(y[1], g) /\ IsACL(y[2])
             /\ NamesIn(y[2], Nameable(y[1][1])') /\ ~Names(y[2], n)
      BY <2>2, <2>3, <2>5, <2>6 DEF Cleaning, n
    <3>3. ASSUME n \notin frayed, NEW k \in DOMAIN acls', Of(k, g), Names(acls'[k], n)
          PROVE  \E y \in loc'[p].todo : y[1] = k
      <4>1. k # x[1]
        BY <2>4, <2>5, <3>3
      <4>2. Names(acls[k], n) /\ k \in DOMAIN acls
        BY <2>5, <3>3, <4>1
      <4>3. PICK y \in loc[p].todo : y[1] = k
        BY <2>2, <3>3, <4>2 DEF Cleaning, n
      <4>4. y # x
        BY <4>1, <4>3
      <4> QED
        BY <2>3, <4>3, <4>4
    <3>4. frayed' = frayed
      BY <1>0
    <3> QED
      BY <3>1, <3>2, <3>3, <3>4, Zenon DEF Cleaning
  <2>8. (g => Cleaning(p, TRUE)') /\ (~g => Cleaning(p, FALSE)')
    BY <2>0, <2>7
  <2>9. ~g /\ Clean(acls, TRUE) => Clean(acls', TRUE)
    BY <2>4, <2>5 DEF Clean, Of
  <2> QED
    BY <1>1, <2>0, <2>1, <2>8, <2>9
<1>5. CASE Finishes(p)
  <2>1. /\ acls' = acls /\ member' = member /\ pc[p] \in {"putUsersACLs", "putOrgACLs"}
        /\ loc[p].todo = {}
        /\ pc'[p] = IF pc[p] = "putOrgACLs" /\ user THEN "ownACL" ELSE "leaveGroups"
    BY <1>5 DEF Finishes, Reads, SameStore
  <2>2. \A g : Cleaning(p, g) => Clean(acls, g)
    BY <2>1 DEF Cleaning, Clean, n
  <2>3. pc[p] = "putUsersACLs" => user
    BY <1>0 DEF Stage
  <2> QED
    BY <1>1, <2>1, <2>2, <2>3
<1>6. CASE Leaves(p)
  <2>1. /\ acls' = acls /\ pc[p] = "leaveGroups"
        /\ pc'[p] = IF user THEN "orgACLs" ELSE "ownACL"
    BY <1>6 DEF Leaves
  <2>2. Left(member')
    BY <1>6 DEF Leaves, Left, n
  <2> QED
    BY <1>1, <2>1, <2>2
<1>7. CASE DropsACL(p)
  <2>1. pc[p] = "ownACL" /\ pc'[p] = "listRows" /\ member' = member /\ acls' = Less(acls, {Target(p)})
    BY <1>7 DEF DropsACL
  <2>2. \A g : Clean(acls, g) => Clean(acls', g)
    BY <2>1 DEF Clean, Less
  <2>3. Dropped(acls')
    BY <2>1 DEF Dropped, Less
  <2> QED
    BY <1>1, <2>1, <2>2, <2>3
<1>8. CASE Lists(p) \/ DropsRow(p)
  <2>1. /\ pc[p] \in {"listRows", "deleteRows"} /\ pc'[p] = "deleteRows"
        /\ acls' = acls /\ member' = member
    BY <1>8 DEF Lists, DropsRow, Reads, SameStore
  <2> QED
    BY <1>1, <2>1
<1>9. CASE ~(Locks(p) \/ Ranges(p) \/ PutsClean(p) \/ Finishes(p) \/ Leaves(p) \/ DropsACL(p) \/ Lists(p) \/ DropsRow(p))
  <2>1. pc'[p] \notin {"putUsersACLs", "leaveGroups", "orgACLs", "putOrgACLs", "ownACL", "listRows", "deleteRows"}
    BY <1>9, Arriving
  <2> QED
    BY <2>1
<1> QED
  BY <1>2, <1>3, <1>4, <1>5, <1>6, <1>7, <1>8, <1>9


\* Nothing is stored, and nobody but a goroutine that begins moves.
Quiet == /\ SameStore /\ frayed \subseteq frayed' /\ failed' = failed
         /\ \A q \in Procs : \/ pc'[q] = pc[q] /\ loc'[q] = loc[q] /\ req'[q] = req[q]
                             \/ pc'[q] = "auth" /\ pc[q] = "idle"

LEMMA QuietSteps ==
    ASSUME Control, (\E p \in Procs : Begin(p)) \/ UNCHANGED vars
    PROVE  Quiet
<1>1. CASE \E p \in Procs : Begin(p)
  BY <1>1, BeginEffect DEF Begins, Quiet
<1>2. CASE UNCHANGED vars
  BY <1>2 DEF vars, Quiet, SameStore
<1> QED
  BY <1>1, <1>2

LEMMA ACLQuiet ==
    ASSUME ACLInv, Quiet
    PROVE  ACLInv'
<1>1. UNCHANGED <<actors, acls, member>> /\ frayed \subseteq frayed'
  BY DEF Quiet, SameStore
<1>2. /\ Living \subseteq Living' /\ Users \subseteq Users' /\ \A k : Standing(k) => Standing(k)'
      /\ \A typ : Nameable(typ) \subseteq Nameable(typ)'
  BY <1>1 DEF Living, Users, Standing, Nameable
<1>3. \A acl, typ : NamesIn(acl, Nameable(typ)) => NamesIn(acl, Nameable(typ)')
  BY <1>2 DEF NamesIn
<1>4. \A k \in DOMAIN acls' : Standing(k)' /\ NamesIn(acls'[k], Nameable(k[1])')
  BY <1>1, <1>2, <1>3 DEF ACLInv
<1>5. \A m \in member' : m[2] \in Living'
  BY <1>1, <1>2 DEF ACLInv
<1>6. ASSUME NEW q \in Procs
      PROVE  Creating(q)' /\ Granting(q)' /\ Deleting(q)'
  <2>1. CASE pc'[q] = "auth"
    BY <2>1 DEF Creating, Granting, Deleting, ACLSteps
  <2>2. CASE pc'[q] = pc[q] /\ loc'[q] = loc[q] /\ req'[q] = req[q]
    <3>1. Creating(q) /\ Granting(q) /\ Deleting(q) /\ Target(q)' = Target(q)
      BY <2>2 DEF ACLInv, Target
    <3>2. Creating(q)'
      <4>1. Standing(Target(q)) => Standing(Target(q))'
        BY <1>1, <3>1 DEF Standing
      <4>2. req[q].op = "createActor" /\ pc[q] = "keys" =>
               <<loc[q].seg, req[q].as>> \in DOMAIN actors' \/ req[q].as \in frayed'
        BY <1>1, <3>1 DEF Creating
      <4>3. req[q].op = "createActor" /\ pc[q] \notin {"idle", "auth", "keys"} =>
               req[q].as \in Living' /\ (loc[q].who.super => req[q].as \in Users')
        BY <1>2, <3>1 DEF Creating
      <4>4. req[q].op = "createActor" /\ pc[q] \in {"grantCreator", "join"} => Standing(Target(q))'
        BY <3>1, <4>1 DEF Creating
      <4> QED
        BY <2>2, <4>2, <4>3, <4>4 DEF Creating
    <3>3. Granting(q)'
      <4>1. pc[q] \in ACLSteps => Standing(ACLTarget(req[q]))'
        BY <1>1, <2>2, <3>1 DEF Granting, Standing
      <4>2. pc[q] \in {"loadACL", "storeACL"} => req[q].ace.actors \subseteq Nameable(req[q].typ)'
        BY <1>2, <2>2, <3>1 DEF Granting
      <4>3. pc[q] = "storeACL" => NamesIn(loc[q].acl, Nameable(req[q].typ)')
        BY <1>3, <2>2, <3>1 DEF Granting
      <4> QED
        BY <2>2, <4>1, <4>2, <4>3 DEF Granting
    <3>4. ASSUME NEW g, Cleaned(q, g) PROVE Cleaned(q, g)'
      BY <1>1, <2>2, <3>4 DEF Cleaned
    <3>5. ASSUME NEW g, Cleaning(q, g) PROVE Cleaning(q, g)'
      <4>1. \A x \in loc[q].todo :
               /\ x[1] \in DOMAIN acls' /\ Of(x[1], g) /\ IsACL(x[2])
               /\ NamesIn(x[2], Nameable(x[1][1])') /\ ~Names(x[2], req[q].name)
        BY <1>1, <1>3, <3>5 DEF Cleaning
      <4>2. \/ req[q].name \in frayed'
            \/ \A k \in DOMAIN acls' : Of(k, g) /\ Names(acls'[k], req[q].name) => \E x \in loc[q].todo : x[1] = k
        BY <1>1, <3>5 DEF Cleaning
      <4> QED
        BY <2>2, <4>1, <4>2 DEF Cleaning
    <3>6. Deleting(q)'
      BY <1>1, <2>2, <3>1, <3>4, <3>5 DEF Deleting
    <3> QED
      BY <3>2, <3>3, <3>6
  <2> QED
    BY <2>1, <2>2 DEF Quiet
<1> QED
  BY <1>4, <1>5, <1>6 DEF ACLInv

LEMMA ACLNext ==
    ASSUME Control, ACLInv, [Next]_vars
    PROVE  ACLInv'
<1>1. CASE \E p \in Procs : Effect(p)
  <2>1. PICK p \in Procs : Effect(p)
    BY <1>1
  <2>2. \A q \in Procs : Deleting(q)'
    BY <2>1, DeletingOwn, DeletingOther
  <2>3. \A q \in Procs : Creating(q)' /\ Granting(q)'
    BY <2>1, CreatingStep, GrantingStep
  <2>4. \A k \in DOMAIN acls' : Standing(k)' /\ NamesIn(acls'[k], Nameable(k[1])')
    BY <2>1, ACLsNamed
  <2>5. \A m \in member' : m[2] \in Living'
    BY <2>1, MembersLive
  <2> QED
    BY <2>2, <2>3, <2>4, <2>5 DEF ACLInv
<1>2. CASE (\E p \in Procs : Begin(p)) \/ UNCHANGED vars
  BY <1>2, QuietSteps, ACLQuiet
<1> QED
  BY <1>1, <1>2, Stepping

LEMMA ACLInit == Init => ACLInv
<1> SUFFICES ASSUME Init PROVE ACLInv
  OBVIOUS
<1>1. PICK s \in Scenarios : actors = s.actors /\ acls = s.acls /\ member = s.member
  BY DEF Init
<1>2. \A p \in Procs : pc[p] = "idle"
  BY DEF Init
<1>3. {a[2] : a \in DOMAIN s.actors} \subseteq Living
  BY <1>1 DEF Living
<1>4. /\ \A k \in DOMAIN s.acls :
            /\ k[1] \in Segs => k \in DOMAIN s.actors
            /\ \A perm \in aclPerms : \A n \in s.acls[k][perm].actors :
                  n \in Living /\ (k[1] = "users" => <<"users", n>> \in DOMAIN s.actors)
      /\ \A m \in s.member : m[2] \in Living
  BY <1>3, SoundScenarios
<1>5. \A k \in DOMAIN acls : Standing(k) /\ NamesIn(acls[k], Nameable(k[1]))
  BY <1>1, <1>4 DEF Standing, NamesIn, Nameable, Users
<1>6. \A m \in member : m[2] \in Living
  BY <1>1, <1>4
<1>7. \A p \in Procs : Creating(p) /\ Granting(p) /\ Deleting(p)
  BY <1>2 DEF Creating, Granting, Deleting, ACLSteps
<1> QED
  BY <1>5, <1>6, <1>7 DEF ACLInv

\* Nothing outlives an actor that the next one of its name would inherit: once
\* no request is in flight, every stored key, every ACL of an actor, every
\* actor an ACL names and every member of a group is an actor that exists,
\* however many deletes failed part-way, but for names that overlapping writes
\* were about (scopedDelete removes the record last).
THEOREM NothingIsInherited == Spec => []NothingInherited
<1>1. Init => ACLInv
  BY ACLInit
<1>2. Control /\ ACLInv /\ [Next]_vars => ACLInv'
  BY ACLNext
<1>3. RowsInv /\ ACLInv => NothingInherited
  <2> SUFFICES ASSUME RowsInv, ACLInv PROVE NothingInherited
    OBVIOUS
  <2>1. \A k \in DOMAIN rows : <<k[1], k[2]>> \in DOMAIN actors \/ k[2] \in frayed
    BY DEF RowsInv, Owned
  <2>2. \A k \in DOMAIN acls :
           /\ k[1] \in {"users", "clients"} => k \in DOMAIN actors \/ k[2] \in frayed
           /\ NamesIn(acls[k], Nameable(k[1]))
    BY DEF ACLInv, Standing, Segs
  <2>3. \A typ : Nameable(typ) \subseteq {a[2] : a \in DOMAIN actors} \cup frayed
    BY DEF Nameable, Users, Living
  <2>4. \A k \in DOMAIN acls : \A perm \in aclPerms :
           acls[k][perm].actors \subseteq {a[2] : a \in DOMAIN actors} \cup frayed
    BY <2>2, <2>3 DEF NamesIn
  <2>5. \A m \in member : m[2] \in {a[2] : a \in DOMAIN actors} \cup frayed
    BY DEF ACLInv, Living
  <2> QED
    BY <2>1, <2>2, <2>4, <2>5, Zenon DEF NothingInherited
<1> QED
  BY <1>1, <1>2, <1>3, Base, Rows, PTL DEF Spec



-----------------------------------------------------------------------------
(* Updates of ACLs.                                                         *)

\* Who changes an ACL.
LEMMA ACLWriters ==
    ASSUME Control, NEW p \in Procs, Effect(p), acls' # acls
    PROVE  /\ req[p].op \in {"putACL", "createActor", "deleteActor"} /\ Steps(p)
           /\ StoresACL(p) \/ req[p].op \in {"createActor", "deleteActor"}
<1>1. Stage(p)
  BY DEF Control
<1>2. Grants(p) \/ PutsClean(p) \/ DropsACL(p) \/ StoresACL(p)
  BY Changing DEF Change, SameStore, PutsActor, LosesActor, PutsRow, LosesRow, ChangesACLs, ChangesMembers
<1>3. CASE Grants(p) \/ DropsACL(p) \/ StoresACL(p)
  BY <1>1, <1>3 DEF Grants, DropsACL, StoresACL, Stage, CreateSteps, DeleteSteps, ACLSteps, Steps
<1>4. CASE PutsClean(p)
  <2>1. req[p].op = "deleteActor"
    BY <1>1, <1>4 DEF PutsClean, Stage, DeleteSteps
  <2>2. PICK x \in loc[p].todo : loc'[p].todo = loc[p].todo \ {x}
    BY <1>4 DEF PutsClean
  <2>3. loc'[p].todo # loc[p].todo
    BY <2>2
  <2> QED
    BY <2>1, <2>3 DEF Steps
<1> QED
  BY <1>2, <1>3, <1>4

LEMMA AloneStep ==
    ASSUME Control, AloneInv, NEW p \in Procs, Effect(p), NEW q \in Procs
    PROVE  Crowded(q)' \/ Alone(q)'
<1>0. Moves(p) /\ Stage(q) /\ req' = req /\ near' = near
  BY EffectMoves DEF Moves, Control
<1>1. Crowded(q)' = Crowded(q)
  BY <1>0 DEF Crowded
<1> DEFINE r == req[q]
           acl == loadACL(ACLTarget(req[q]))
           AdminsKept(l, who) == (l \in {"aceMembers", "loadACL", "storeACL"} /\ r.perm = "grant" /\ r.typ # "users"
                                  /\ ~who.super) => "admins" \in r.ace.groups \/ "admins" \notin acl["grant"].groups
<1> SUFFICES ASSUME ~Crowded(q), pc'[q] \in {"aceMembers", "loadACL", "storeACL"}
             PROVE  Alone(q)'
  BY <1>1 DEF Alone
<1>2. Alone(q)
  BY DEF AloneInv
<1>3. CASE q # p
  <2>1. pc'[q] = pc[q] /\ loc'[q] = loc[q] /\ p \in Busy /\ q \in Busy
    BY <1>0, <1>3 DEF Moves, Busy
  <2>2. req[p] \in near[q]
    BY <1>3, <2>1 DEF Control, Aware
  <2>3. acls' = acls
    BY <2>2, ACLWriters DEF Crowded
  <2>4. acl' = acl
    BY <1>0, <2>3 DEF loadACL
  <2> HIDE DEF acl
  <2> QED
    BY <1>0, <1>2, <2>1, <2>4 DEF Alone, acl
<1>4. CASE q = p
  <2>1. Guards(p) \/ Vets(p) \/ LoadsACL(p)
    BY <1>4, Arriving
  <2>2. acls' = acls /\ loc'[p].who = loc[p].who
    BY <2>1 DEF Guards, Vets, LoadsACL, Reads, SameStore, Stays, SameWho
  <2>3. acl' = acl
    BY <1>0, <2>2 DEF loadACL
  <2>4. AdminsKept(pc'[p], loc[p].who)
    <3>1. CASE Guards(p)
      BY <1>4, <3>1 DEF Guards
    <3>2. CASE Vets(p) \/ LoadsACL(p)
      BY <1>2, <1>4, <3>2 DEF Vets, LoadsACL, Reads, Alone
    <3> QED
      BY <2>1, <3>1, <3>2
  <2>5. pc'[p] = "storeACL" => loc'[p].acl = [acl EXCEPT ![r.perm] = r.ace]
    BY <1>4, Arriving DEF LoadsACL
  <2> HIDE DEF acl
  <2> QED
    BY <1>0, <1>4, <2>2, <2>3, <2>4, <2>5 DEF Alone, acl
<1> QED
  BY <1>3, <1>4

LEMMA AloneNext ==
    ASSUME Control, AloneInv, [Next]_vars
    PROVE  AloneInv'
<1>1. CASE \E p \in Procs : Effect(p)
  BY <1>1, AloneStep DEF AloneInv
<1>2. CASE (\E p \in Procs : Begin(p)) \/ UNCHANGED vars
  <2> SUFFICES ASSUME NEW q \in Procs, pc'[q] \in {"aceMembers", "loadACL", "storeACL"}
               PROVE  Crowded(q)' \/ Alone(q)'
    BY DEF AloneInv, Alone
  <2>1. acls' = acls /\ pc'[q] = pc[q] /\ loc'[q] = loc[q] /\ req'[q] = req[q]
    BY <1>2, QuietSteps DEF Quiet, SameStore
  <2>2. q \in Busy /\ near[q] \subseteq near'[q]
    <3>1. q \in Busy
      BY <2>1 DEF Busy
    <3>2. CASE \E p \in Procs : Begin(p)
      BY <3>1, <3>2, BeginEffect DEF Begins
    <3>3. CASE UNCHANGED vars
      BY <3>1, <3>3 DEF vars
    <3> QED
      BY <1>2, <3>1, <3>2, <3>3
  <2>3. Crowded(q) => Crowded(q)'
    BY <2>2 DEF Crowded
  <2>4. Alone(q) => Alone(q)'
    BY <2>1 DEF Alone, loadACL
  <2> QED
    BY <2>3, <2>4 DEF AloneInv
<1> QED
  BY <1>1, <1>2, Stepping

LEMMA AloneInit == Init => AloneInv
BY DEF Init, AloneInv, Alone

LEMMA UpdateStep ==
    ASSUME Control, AloneInv, [Next]_vars, NEW k, NEW perm \in aclPerms,
           loadACL(k)[perm] # loadACL(k)'[perm]
    PROVE  \E p \in Procs : LET r == req[p] IN
             /\ Steps(p)
             /\ \/ r.op \in {"createActor", "deleteActor"}
                \/ /\ r.op = "putACL" /\ ACLTarget(r) = k
                   /\ \/ \E s \in near[p] : s.op \in {"putACL", "createActor", "deleteActor"}
                      \/ /\ r.perm = perm
                         /\ /\ perm = "grant" /\ k[1] # "users"
                            /\ "admins" \in loadACL(k)[perm].groups \ loadACL(k)'[perm].groups
                            => loc[p].who.super
<1>1. acls' # acls
  BY DEF loadACL
<1>2. PICK p \in Procs : Effect(p)
  <2>1. ~((\E p \in Procs : Begin(p)) \/ UNCHANGED vars)
    BY <1>1, QuietSteps DEF Quiet, SameStore
  <2> QED
    BY <2>1, Stepping
<1>3. /\ req[p].op \in {"putACL", "createActor", "deleteActor"} /\ Steps(p)
      /\ StoresACL(p) \/ req[p].op \in {"createActor", "deleteActor"}
  BY <1>1, <1>2, ACLWriters
<1>4. CASE req[p].op \in {"createActor", "deleteActor"}
  BY <1>3, <1>4
<1>5. CASE req[p].op = "putACL" /\ StoresACL(p)
  <2> DEFINE r == req[p]
             old == loadACL(k)
             new == loc[p].acl
  <2>1. acls' = With(acls, ACLTarget(r), new) /\ pc[p] = "storeACL"
    BY <1>5 DEF StoresACL
  <2>2. ACLTarget(r) = k
    BY <2>1 DEF loadACL, With
  <2>3. loadACL(k)' = new
    BY <2>1, <2>2 DEF loadACL, With
  <2>4. CASE Crowded(p)
    BY <1>3, <1>5, <2>2, <2>4 DEF Crowded
  <2>5. CASE ~Crowded(p)
    <3>1. Alone(p)
      BY <2>5 DEF AloneInv
    <3>2. /\ new = [old EXCEPT ![r.perm] = r.ace]
          /\ (r.perm = "grant" /\ r.typ # "users" /\ ~loc[p].who.super) =>
               "admins" \in r.ace.groups \/ "admins" \notin old["grant"].groups
      BY <2>1, <2>2, <3>1 DEF Alone
    <3>3. IsACL(old)
      BY LoadedACLs DEF Control
    <3>4. DOMAIN old = aclPerms
      BY <3>3 DEF IsACL
    <3>5. old[perm] # new[perm]
      BY <2>3
    <3> HIDE DEF old, new
    <3>6. r.perm = perm /\ new[perm] = r.ace
      BY <3>2, <3>4, <3>5
    <3>7. k[1] = r.typ
      BY <2>2 DEF ACLTarget
    <3>8. /\ perm = "grant" /\ k[1] # "users" /\ "admins" \in old[perm].groups \ new[perm].groups
          => loc[p].who.super
      BY <3>2, <3>6, <3>7
    <3> QED
      BY <1>3, <1>5, <2>2, <2>3, <3>6, <3>8 DEF old, new
  <2> QED
    BY <2>4, <2>5
<1> QED
  BY <1>3, <1>4, <1>5

\* A permission of an object changes only by an update of that permission, by
\* the creation or the deletion of an actor, or when an update of the object
\* overlapped another request that writes ACLs; and of an organization's objects
\* only the superuser takes the admins off the grant permission
\* (updateACLPermDoc and removesAdminsFromGrant read and write without a lock).
THEOREM UpdatesAreKept == Spec => ACLUpdatesKept
<1>1. Init => AloneInv
  BY AloneInit
<1>2. Control /\ AloneInv /\ [Next]_vars => AloneInv'
  BY AloneNext
<1>3. Control /\ AloneInv /\ [Next]_vars
      => [\A k \in DOMAIN acls \cup DOMAIN acls' : \A perm \in aclPerms :
            loadACL(k)[perm] # loadACL(k)'[perm] =>
                \E p \in Procs : LET r == req[p] IN
                    /\ Steps(p)
                    /\ \/ r.op \in {"createActor", "deleteActor"}
                       \/ /\ r.op = "putACL" /\ ACLTarget(r) = k
                          /\ \/ \E s \in near[p] : s.op \in {"putACL", "createActor", "deleteActor"}
                             \/ /\ r.perm = perm
                                /\ /\ perm = "grant" /\ k[1] # "users"
                                   /\ "admins" \in loadACL(k)[perm].groups \ loadACL(k)'[perm].groups
                                   => loc[p].who.super]_vars
  BY UpdateStep
<1> QED
  BY <1>1, <1>2, <1>3, Base, PTL DEF ACLUpdatesKept, Spec



-----------------------------------------------------------------------------
(* The default key.                                                         *)

\* A step changes only its own target and the keys of that.
LEMMA Elsewhere ==
    ASSUME Control, NEW p \in Procs, Effect(p), NEW a, a # Target(p) \/ UNCHANGED <<actors, rows>>
    PROVE  /\ a \in DOMAIN actors' <=> a \in DOMAIN actors
           /\ a \in DOMAIN actors => actors'[a] = actors[a]
           /\ \A k : <<k[1], k[2]>> = a =>
                /\ k \in DOMAIN rows' <=> k \in DOMAIN rows
                /\ k \in DOMAIN rows => rows'[k] = rows[k]
<1>1. CASE UNCHANGED <<actors, rows>>
  BY <1>1
<1>2. CASE a # Target(p)
  <2>1. /\ a \in DOMAIN actors' <=> a \in DOMAIN actors
        /\ a \in DOMAIN actors => actors'[a] = actors[a]
    <3>1. CASE actors' = actors
      BY <3>1
    <3>2. CASE PutsActor(p)
      BY <1>2, <3>2 DEF PutsActor, With
    <3>3. CASE LosesActor(p)
      BY <1>2, <3>3 DEF LosesActor, Less
    <3> QED
      BY <3>1, <3>2, <3>3, ActorsStep
  <2>2. ASSUME NEW k, <<k[1], k[2]>> = a
        PROVE  /\ k \in DOMAIN rows' <=> k \in DOMAIN rows
               /\ k \in DOMAIN rows => rows'[k] = rows[k]
    <3>1. ~PutsRow(p, k) /\ ~LosesRow(p, k)
      BY <1>2, <2>2 DEF PutsRow, LosesRow, KeyRow, Target
    <3> QED
      BY <3>1, RowsStep
  <2> QED
    BY <2>1, <2>2
<1> QED
  BY <1>1, <1>2

\* A step that changes actors or their keys is of a request about its target.
LEMMA StoreTouches ==
    ASSUME Control, NEW p \in Procs, Effect(p)
    PROVE  UNCHANGED <<actors, rows>> \/ req[p].name \in Touches(req[p])
<1>1. CASE PutsActor(p) \/ LosesActor(p)
  BY <1>1, TouchedNames DEF PutsActor, LosesActor, Control, Stage, DeleteSteps
<1>2. CASE (\E k : PutsRow(p, k)) \/ (\E k : LosesRow(p, k))
  BY <1>2, TouchedNames DEF PutsRow, LosesRow
<1>3. CASE ~(PutsActor(p) \/ LosesActor(p) \/ (\E k : PutsRow(p, k)) \/ (\E k : LosesRow(p, k)))
  BY <1>3, Changing DEF Change, SameStore, ChangesACLs, ChangesMembers
<1> QED
  BY <1>1, <1>2, <1>3

\* What a goroutine writes to stays as it is while others move.
LEMMA Undisturbed ==
    ASSUME Control, NEW p \in Procs, Effect(p), NEW q \in Procs, q # p, pc[q] # "idle",
           req[q].op \in {"putActor"} \cup KeyWrites, req[q].name \notin frayed
    PROVE  Target(q) # Target(p) \/ UNCHANGED <<actors, rows>>
<1>1. p \in Busy /\ q \in Busy
  BY EffectMoves DEF Moves, Busy
<1>2. req[q].name \in Touches(req[q])
  BY TouchedNames
<1>3. CASE req[p].name \in Touches(req[p])
  <2>1. req[p].name # req[q].name
    BY <1>1, <1>2, <1>3, Solo
  <2> QED
    BY <2>1 DEF Target
<1> QED
  BY <1>3, StoreTouches

\* Whoever is between the two writes, or about to write, is on a request about
\* its target.
LEMMA KeyOps ==
    ASSUME Control, NEW q \in Procs
    PROVE  /\ Between(q) \/ pc[q] \in {"defaultRow", "putRow", "renameCreate", "renameDelete"} =>
                pc[q] # "idle" /\ req[q].op \in {"putActor"} \cup KeyWrites
           /\ pc[q] \in {"setPub", "setNewPub"} => req[q].op \in KeyWrites
           /\ pc[q] \in {"putRow", "renameCreate", "renameDelete"} => req[q].op = "putKey"
           /\ pc[q] = "defaultRow" => req[q].op = "putActor"
BY DEF Control, Stage, Between, UpdateSteps, KeySteps, RenameSteps, KeyWrites

LEMMA KeyOther ==
    ASSUME Control, KeyInv, NEW p \in Procs, Effect(p), NEW q \in Procs, q # p, req[q].name \notin Spoilt
    PROVE  KeyStage(q)'
<1>0. /\ pc'[q] = pc[q] /\ loc'[q] = loc[q] /\ req' = req /\ KeyStage(q) /\ req[q].name \notin frayed
      /\ Target(q)' = Target(q) /\ Row(q)' = Row(q) /\ NewRow(q)' = NewRow(q)
  BY EffectMoves DEF Moves, KeyInv, Spoilt, Target, Row, NewRow
<1>1. CASE \/ pc[q] \in {"defaultRow", "privilege", "stash", "putRecord"} /\ req[q].op = "putActor"
           \/ pc[q] \in {"loaded", "putRow", "renameCreate", "renameDelete", "setPub", "setNewPub"} /\ req[q].op \in KeyWrites
  <2> DEFINE a == Target(q)
  <2>1. a # Target(p) \/ UNCHANGED <<actors, rows>>
    BY <1>0, <1>1, Undisturbed
  <2>2. /\ a \in DOMAIN actors' <=> a \in DOMAIN actors
        /\ a \in DOMAIN actors => actors'[a] = actors[a]
        /\ \A k : <<k[1], k[2]>> = a =>
             /\ k \in DOMAIN rows' <=> k \in DOMAIN rows
             /\ k \in DOMAIN rows => rows'[k] = rows[k]
    BY <2>1, Elsewhere
  <2>3. \A k \in {Default(a), Row(q), NewRow(q)} :
             /\ k \in DOMAIN rows' <=> k \in DOMAIN rows
             /\ k \in DOMAIN rows => rows'[k] = rows[k]
    <3>1. \A k \in {Default(a), Row(q), NewRow(q)} : <<k[1], k[2]>> = a
      BY DEF Default, Row, NewRow, KeyRow, Target
    <3> QED
      BY <2>2, <3>1
  <2>4. \A pub : \A k \in {Default(a), Row(q), NewRow(q)} : Holds(k, pub) => Holds(k, pub)'
    BY <2>3 DEF Holds
  <2>5. /\ pc[q] = "loaded" /\ req[q].op \in KeyWrites => a \in DOMAIN actors' /\ loc[q].rec = actors'[a]
        /\ pc[q] = "defaultRow" => loc[q].row.pub = loc[q].rec.pub
        /\ pc[q] \in {"privilege", "stash", "putRecord"} /\ req[q].op = "putActor"
           /\ Default(a) \in DOMAIN rows' => rows'[Default(a)].pub = loc[q].rec.pub
        /\ pc[q] \in {"putRow", "renameCreate"} => loc[q].row.pub = loc[q].pub /\ Brought(q, loc[q].pub)
    BY <1>0, <2>2, <2>3 DEF KeyStage
  <2>6. pc[q] = "renameDelete" => Holds(NewRow(q), loc[q].pub)' /\ Brought(q, loc[q].pub)
    BY <1>0, <2>3 DEF KeyStage, Holds
  <2>7. /\ pc[q] \in {"setPub", "setNewPub"} =>
            /\ Default(a) \in DOMAIN rows' => rows'[Default(a)].pub = loc[q].pub
            /\ req[q].op = "deleteKey" => req[q].key = "default" /\ Default(a) \notin DOMAIN rows' /\ loc[q].pub = NoKey
            /\ req[q].op = "addKey" => req[q].key = "default" /\ Holds(Default(a), loc[q].pub)' /\ Brought(q, loc[q].pub)
        /\ pc[q] = "setPub" /\ req[q].op = "putKey" /\ req[q].body.pub # NoKey =>
            Holds(Row(q), req[q].body.pub)'
        /\ pc[q] = "setNewPub" /\ req[q].op = "putKey" =>
            /\ Row(q) \notin DOMAIN rows' /\ (req[q].key = "default" => loc[q].pub = NoKey)
            /\ req[q].body.pub # NoKey => Holds(NewRow(q), req[q].body.pub)'
    BY <1>0, <2>3 DEF KeyStage, Holds
  <2>8. \A pub : Brought(q, pub)' <=> Brought(q, pub)
    BY <1>0 DEF Brought
  <2>9. Default(a)' = Default(a) /\ a' = a
    BY <1>0
  <2> HIDE DEF a
  <2> QED
    BY <1>0, <2>5, <2>6, <2>7, <2>8, <2>9 DEF KeyStage, a
<1>2. CASE ~(\/ pc[q] \in {"defaultRow", "privilege", "stash", "putRecord"} /\ req[q].op = "putActor"
             \/ pc[q] \in {"loaded", "putRow", "renameCreate", "renameDelete", "setPub", "setNewPub"} /\ req[q].op \in KeyWrites)
  <2>1. /\ pc[q] \notin {"defaultRow", "putRow", "renameCreate", "renameDelete", "setPub", "setNewPub"}
        /\ ~(pc[q] \in {"privilege", "stash", "putRecord"} /\ req[q].op = "putActor")
        /\ ~(pc[q] = "loaded" /\ req[q].op \in KeyWrites)
    BY <1>2, KeyOps DEF KeyWrites
  <2> QED
    BY <1>0, <2>1 DEF KeyStage
<1> QED
  BY <1>1, <1>2



\* Nobody else is between the writes to a target whose name is not frayed.
LEMMA BetweenAlone ==
    ASSUME Control, NEW p \in Procs, pc[p] # "idle", req[p].name \in Touches(req[p]), req[p].name \notin frayed,
           NEW q \in Procs, Between(q), Target(q) = Target(p)
    PROVE  q = p
<1> SUFFICES ASSUME q # p PROVE FALSE
  OBVIOUS
<1>1. pc[q] # "idle" /\ req[q].op \in {"putActor"} \cup KeyWrites
  BY KeyOps
<1>2. req[q].name \in Touches(req[q]) /\ req[q].name = req[p].name /\ p \in Busy /\ q \in Busy
  BY <1>1, TouchedNames DEF Target, Busy
<1> QED
  BY <1>2, Solo

LEMMA KeyOwn ==
    ASSUME Control, RowsInv, KeyInv, NEW p \in Procs, Effect(p), req[p].name \notin Spoilt
    PROVE  KeyStage(p)'
<1> DEFINE a == Target(p)
           d == Default(a)
           l == loc'[p]
           Held(k, pub) == k \in DOMAIN rows' /\ rows'[k].pub = pub
<1>0. /\ req' = req /\ KeyStage(p) /\ req[p].name \notin frayed /\ pc[p] # "idle" /\ Stage(p)
      /\ Target(p)' = Target(p) /\ Row(p)' = Row(p) /\ NewRow(p)' = NewRow(p) /\ d' = d
      /\ \A pub : Brought(p, pub)' <=> Brought(p, pub)
  BY EffectMoves DEF Moves, KeyInv, Spoilt, Target, Row, NewRow, Default, Brought, Control
<1>00. /\ req[p].key = "default" => Row(p) = d
       /\ req[p].body.name = "default" => NewRow(p) = d
       /\ req[p].body.name # req[p].key => NewRow(p) # Row(p)
       /\ Row(p) = d => req[p].key = "default"
  BY DEF Row, NewRow, Default, KeyRow
<1> HIDE DEF a, d
<1>1. pc'[p] = "loaded" /\ req[p].op \in KeyWrites => a \in DOMAIN actors' /\ l.rec = actors'[a]
  BY Arriving DEF Loads, Reads, SameStore, a
<1>2. pc'[p] = "defaultRow" => l.row.pub = l.rec.pub
  BY Arriving DEF Chooses
<1>3. ASSUME pc'[p] \in {"privilege", "stash", "putRecord"}, req[p].op = "putActor", d \in DOMAIN rows'
      PROVE  rows'[d].pub = l.rec.pub
  <2>1. CASE Chooses(p)
    <3>1. /\ pc[p] = "key" /\ pc'[p] = "privilege" /\ rows' = rows
          /\ a \in DOMAIN actors => l.rec.pub = actors[a].pub
      BY <1>3, <2>1 DEF Chooses, Reads, SameStore, a, d
    <3>2. <<d[1], d[2]>> = a /\ d[2] = req[p].name
      BY DEF d, a, Default, KeyRow, Target
    <3>3. a \in DOMAIN actors
      BY <1>0, <1>3, <3>1, <3>2 DEF RowsInv, Owned
    <3>4. a[2] = req[p].name
      BY DEF a, Target
    <3>5. \A q \in Procs : Target(q) = a => ~Between(q)
      <4>1. req[p].name \in Touches(req[p]) /\ ~Between(p)
        BY <1>3, <3>1, TouchedNames DEF Between
      <4> QED
        BY <1>0, <4>1, BetweenAlone DEF a
    <3>6. Agree(a)
      BY <3>3, <3>4, <3>5 DEF KeyInv
    <3> QED
      BY <1>3, <3>1, <3>3, <3>6 DEF Agree, d
  <2>2. CASE PutsDefault(p)
    <3>1. rows' = With(rows, d, loc[p].row) /\ l = loc[p] /\ loc[p].row.pub = loc[p].rec.pub
      BY <1>0, <2>2 DEF PutsDefault, Stays, KeyStage, a, d
    <3> QED
      BY <3>1 DEF With
  <2>3. CASE Preserves(p)
    BY <1>0, <1>3, <2>3 DEF Preserves, Reads, SameStore, KeyStage, a, d
  <2>4. CASE Stashes(p)
    BY <1>0, <1>3, <2>4 DEF Stashes, Reads, SameStore, Stays, KeyStage, a, d
  <2>5. ~Claims(p)
    BY <1>0, <1>3 DEF Claims, Reads, Stage, Ops, Writes
  <2> QED
    BY <1>3, <2>1, <2>2, <2>3, <2>4, <2>5, Arriving
<1>4. pc'[p] \in {"putRow", "renameCreate"} => l.row.pub = l.pub /\ Brought(p, l.pub)
  BY Arriving DEF Plans
<1>5. ASSUME pc'[p] = "renameDelete" PROVE Held(NewRow(p), l.pub) /\ Brought(p, l.pub)
  <2>1. /\ rows' = With(rows, NewRow(p), loc[p].row) /\ l = loc[p] /\ loc[p].row.pub = loc[p].pub
        /\ Brought(p, loc[p].pub)
    BY <1>0, <1>5, Arriving DEF RenamesTo, Stays, KeyStage
  <2>2. NewRow(p) \in DOMAIN rows' /\ rows'[NewRow(p)] = loc[p].row
    BY <2>1 DEF With
  <2> QED
    BY <1>0, <2>1, <2>2 DEF Holds
<1>6. ASSUME pc'[p] \in {"setPub", "setNewPub"}
      PROVE  /\ d \in DOMAIN rows' => rows'[d].pub = l.pub
             /\ req[p].op = "deleteKey" => req[p].key = "default" /\ d \notin DOMAIN rows' /\ l.pub = NoKey
             /\ req[p].op = "addKey" => req[p].key = "default" /\ Held(d, l.pub) /\ Brought(p, l.pub)
             /\ pc'[p] = "setPub" /\ req[p].op = "putKey" /\ req[p].body.pub # NoKey =>
                  Held(Row(p), req[p].body.pub)
             /\ pc'[p] = "setNewPub" /\ req[p].op = "putKey" =>
                  /\ Row(p) \notin DOMAIN rows' /\ (req[p].key = "default" => l.pub = NoKey)
                  /\ req[p].body.pub # NoKey => Held(NewRow(p), req[p].body.pub)
  <2>1. CASE AddsKey(p)
    <3>1. /\ req[p].key = "default" /\ Brought(p, l.pub) /\ req[p].op = "addKey"
          /\ rows' = With(rows, d, [pub |-> l.pub, exp |-> req[p].body.exp])
      BY <1>00, <1>6, <2>1 DEF AddsKey
    <3>2. d \in DOMAIN rows' /\ rows'[d].pub = l.pub
      <4> DEFINE v == [pub |-> l.pub, exp |-> req[p].body.exp]
      <4>1. v.pub = l.pub
        OBVIOUS
      <4> HIDE DEF v
      <4>2. rows' = With(rows, d, v)
        BY <3>1 DEF v
      <4> QED
        BY <4>1, <4>2 DEF With
    <3> QED
      BY <1>0, <3>1, <3>2 DEF Holds
  <2>2. CASE PutsKey(p)
    <3>1. /\ req[p].key = "default" /\ rows' = With(rows, d, loc[p].row) /\ l = loc[p]
          /\ loc[p].row.pub = loc[p].pub /\ Brought(p, loc[p].pub) /\ req[p].op = "putKey"
          /\ pc'[p] = "setPub"
      BY <1>0, <1>00, <1>6, <2>2 DEF PutsKey, Stays, KeyStage, Stage
    <3>2. d \in DOMAIN rows' /\ rows'[d] = loc[p].row
      BY <3>1 DEF With
    <3> QED
      BY <1>0, <1>00, <3>1, <3>2 DEF Holds, Brought
  <2>3. CASE RenamesFrom(p)
    <3>1. /\ rows' = Less(rows, {Row(p)}) /\ "default" \in {req[p].key, req[p].body.name}
          /\ l.pub = IF req[p].key = "default" THEN NoKey ELSE loc[p].pub
          /\ Holds(NewRow(p), loc[p].pub) /\ Brought(p, loc[p].pub)
          /\ req[p].op = "putKey" /\ req[p].body.name # req[p].key /\ pc'[p] = "setNewPub"
      BY <1>0, <1>6, <2>3 DEF RenamesFrom, KeyStage, Stage, RenameSteps
    <3>2. /\ Row(p) \notin DOMAIN rows' /\ NewRow(p) \in DOMAIN rows' /\ rows'[NewRow(p)].pub = loc[p].pub
      BY <1>00, <3>1 DEF Less, Holds
    <3>3. d \in DOMAIN rows' => rows'[d].pub = l.pub
      BY <1>00, <3>1, <3>2
    <3> QED
      BY <1>0, <3>1, <3>2, <3>3 DEF Brought
  <2>4. CASE DeletesKey(p)
    <3>1. req[p].key = "default" /\ l.pub = NoKey /\ rows' = Less(rows, {d}) /\ req[p].op = "deleteKey"
      BY <1>00, <1>6, <2>4 DEF DeletesKey
    <3> QED
      BY <3>1 DEF Less
  <2> QED
    BY <1>6, <2>1, <2>2, <2>3, <2>4, Arriving
<1> QED
  BY <1>0, <1>1, <1>2, <1>3, <1>4, <1>5, <1>6 DEF KeyStage, Holds, a, d



\* The steps from the places between the two writes, and the ones that write.
LEMMA Leaving ==
    ASSUME NEW p, Effect(p)
    PROVE  /\ pc[p] = "privilege" => Preserves(p) \/ Ends(p)
           /\ pc[p] = "stash" => Stashes(p) \/ Ends(p)
           /\ pc[p] = "putRecord" => PutsRecord(p) \/ Ends(p)
           /\ pc[p] \in {"setPub", "setNewPub"} => SetsPub(p) \/ Ends(p)
           /\ pc[p] = "renameDelete" => RenamesFrom(p) \/ Ends(p)
BY DEF KeyWrites, Effect, AuthEffect, ActorEffect, DeleteEffect, KeyEffect, ACLEffect, Ends, Reads, Finds, Retries,
       Knows, Looks, Sees, Admits, Asks, Claims, Stashes, Creates, Grants, Joins, Starts, Merges, Chooses,
       PutsDefault, Preserves, PutsRecord, Locks, Ranges, PutsClean, Finishes, Leaves, DropsACL, Lists,
       DropsRow, DropsActor, Loads, AddsKey, Plans, PutsKey, RenamesTo, RenamesFrom, DeletesKey, SetsPub,
       Checks, Guards, Vets, LoadsACL, StoresACL

LEMMA ActorWriters ==
    ASSUME NEW p, Effect(p), ~(Creates(p) \/ PutsRecord(p) \/ SetsPub(p) \/ DropsActor(p))
    PROVE  actors' = actors
BY Zenon DEF SameStore, Effect, AuthEffect, ActorEffect, DeleteEffect, KeyEffect, ACLEffect, Ends, Reads, Finds, Retries,
       Knows, Looks, Sees, Admits, Asks, Claims, Stashes, Creates, Grants, Joins, Starts, Merges, Chooses,
       PutsDefault, Preserves, PutsRecord, Locks, Ranges, PutsClean, Finishes, Leaves, DropsACL, Lists,
       DropsRow, DropsActor, Loads, AddsKey, Plans, PutsKey, RenamesTo, RenamesFrom, DeletesKey, SetsPub,
       Checks, Guards, Vets, LoadsACL, StoresACL

LEMMA RowWriters ==
    ASSUME NEW p, Effect(p), rows' # rows
    PROVE  \/ PutsDefault(p) \/ AddsKey(p) \/ PutsKey(p) \/ RenamesTo(p)
           \/ RenamesFrom(p) \/ DeletesKey(p) \/ DropsRow(p)
BY Zenon DEF SameStore, Effect, AuthEffect, ActorEffect, DeleteEffect, KeyEffect, ACLEffect, Ends, Reads, Finds, Retries,
       Knows, Looks, Sees, Admits, Asks, Claims, Stashes, Creates, Grants, Joins, Starts, Merges, Chooses,
       PutsDefault, Preserves, PutsRecord, Locks, Ranges, PutsClean, Finishes, Leaves, DropsACL, Lists,
       DropsRow, DropsActor, Loads, AddsKey, Plans, PutsKey, RenamesTo, RenamesFrom, DeletesKey, SetsPub,
       Checks, Guards, Vets, LoadsACL, StoresACL

LEMMA AgreeStep ==
    ASSUME Control, RowsInv, KeyInv, NEW p \in Procs, Effect(p), NEW a \in DOMAIN actors', a[2] \notin Spoilt'
    PROVE  Agree(a)' \/ \E q \in Procs : (Target(q) = a /\ Between(q))'
<1>0. /\ Moves(p) /\ req' = req /\ Stage(p) /\ pc[p] # "idle" /\ Locals(loc[p])
      /\ a[2] \notin frayed /\ a[2] \notin Spoilt /\ a[2] \notin failed'
      /\ \A q \in Procs : Target(q)' = Target(q)
      /\ \A q \in Procs \ {p} : Between(q)' = Between(q)
  <2>1. Moves(p)
    BY EffectMoves
  <2>2. \A q \in Procs \ {p} : Between(q)' = Between(q)
    BY <2>1 DEF Moves, Between
  <2> QED
    BY <2>1, <2>2 DEF Moves, Spoilt, Control, Target, Typed
<1> DEFINE d == Default(a)
<1>1. ASSUME a \in DOMAIN actors, actors'[a] = actors[a], d \in DOMAIN rows' => d \in DOMAIN rows /\ rows'[d] = rows[d],
             Between(p) /\ Target(p) = a => Between(p)'
      PROVE  Agree(a)' \/ \E q \in Procs : (Target(q) = a /\ Between(q))'
  <2>1. Agree(a) \/ \E q \in Procs : Target(q) = a /\ Between(q)
    BY <1>0, <1>1 DEF KeyInv
  <2>2. CASE Agree(a)
    BY <1>1, <2>2 DEF Agree
  <2>3. CASE \E q \in Procs : Target(q) = a /\ Between(q)
    BY <1>0, <1>1, <2>3
  <2> QED
    BY <2>1, <2>2, <2>3
<1>2. CASE a # Target(p)
  <2>1. /\ a \in DOMAIN actors /\ actors'[a] = actors[a]
        /\ \A k : <<k[1], k[2]>> = a =>
             /\ k \in DOMAIN rows' <=> k \in DOMAIN rows
             /\ k \in DOMAIN rows => rows'[k] = rows[k]
    BY <1>2, Elsewhere
  <2>2. <<d[1], d[2]>> = <<a[1], a[2]>>
    BY DEF Default, KeyRow
  <2>3. a = <<a[1], a[2]>>
    BY <2>1 DEF Control, Shaped
  <2>4. d \in DOMAIN rows' => d \in DOMAIN rows /\ rows'[d] = rows[d]
    BY <2>1, <2>2, <2>3
  <2> QED
    BY <1>1, <1>2, <2>1, <2>4
<1>3. CASE a = Target(p)
  <2>0. req[p].name = a[2] /\ KeyStage(p) /\ d = Default(Target(p))
    BY <1>0, <1>3 DEF KeyInv, Target
  <2>1. CASE Creates(p)
    <3>1. d \notin DOMAIN rows
      <4>1. <<d[1], d[2]>> = Target(p) /\ d[2] = a[2]
        BY <1>3 DEF Default, KeyRow, Target
      <4>2. Target(p) \notin DOMAIN actors
        BY <2>1 DEF Creates
      <4> QED
        BY <1>0, <4>1, <4>2 DEF RowsInv, Owned
    <3> QED
      BY <2>1, <3>1 DEF Creates, Agree
  <2>2. CASE PutsRecord(p)
    <3>1. /\ actors' = With(actors, a, loc[p].rec) /\ rows' = rows
          /\ d \in DOMAIN rows => rows[d].pub = loc[p].rec.pub
      BY <1>0, <1>3, <2>0, <2>2 DEF PutsRecord, KeyStage, Stage, UpdateSteps
    <3>2. actors'[a] = loc[p].rec
      BY <3>1 DEF With
    <3> QED
      BY <3>1, <3>2 DEF Agree
  <2>3. CASE SetsPub(p)
    <3> DEFINE rec == [loc[p].rec EXCEPT !.pub = loc[p].pub]
    <3>1. /\ actors' = With(actors, a, rec) /\ rows' = rows
          /\ d \in DOMAIN rows => rows[d].pub = loc[p].pub
      BY <1>3, <2>0, <2>3 DEF SetsPub, KeyStage
    <3>2. rec.pub = loc[p].pub
      BY <1>0 DEF Locals
    <3> HIDE DEF rec
    <3>3. actors'[a] = rec
      BY <3>1 DEF With
    <3> QED
      BY <3>1, <3>2, <3>3 DEF Agree
  <2>4. CASE ~(Creates(p) \/ PutsRecord(p) \/ SetsPub(p))
    <3>1. ASSUME Between(p) PROVE Between(p)'
      <4>1. ~Ends(p)
        BY <1>0, <2>0, <3>1, KeyOps, TouchedNames DEF Ends
      <4>2. Preserves(p) \/ Stashes(p) \/ RenamesFrom(p)
        BY <2>4, <3>1, <4>1, Leaving DEF Between
      <4>3. CASE Preserves(p)
        BY <1>0, <4>3 DEF Preserves, Reads, Between, Stage, UpdateSteps
      <4>4. CASE Stashes(p)
        BY <1>0, <3>1, <4>4 DEF Stashes, Reads, Between
      <4>5. CASE RenamesFrom(p)
        BY <1>0, <3>1, <4>5 DEF RenamesFrom, Between
      <4> QED
        BY <4>2, <4>3, <4>4, <4>5
    <3>2. ~DropsActor(p)
      BY <1>3 DEF DropsActor, Less
    <3>3. actors' = actors
      BY <2>4, <3>2, ActorWriters
    <3>4. CASE Between(p)'
      BY <1>0, <1>3, <3>4
    <3>5. CASE ~Between(p)'
      <4>0. /\ req[p].key # "default" => Row(p) # d
            /\ req[p].body.name # "default" => NewRow(p) # d
        BY <2>0 DEF Row, NewRow, Default, KeyRow
      <4>2. CASE PutsDefault(p)
        BY <1>0, <3>5, <4>2 DEF PutsDefault, Between, Stage, UpdateSteps
      <4>3. CASE AddsKey(p) \/ PutsKey(p)
        <5>1. Row(p) # d
          BY <3>5, <4>0, <4>3 DEF AddsKey, PutsKey, Between
        <5>2. PICK v : rows' = With(rows, Row(p), v)
          BY <4>3 DEF AddsKey, PutsKey
        <5> HIDE DEF d
        <5>3. d \in DOMAIN rows' => d \in DOMAIN rows /\ rows'[d] = rows[d]
          BY <5>1, <5>2 DEF With
        <5> QED
          BY <1>1, <3>1, <3>3, <5>3 DEF d
      <4>4. CASE RenamesTo(p)
        <5>1. NewRow(p) # d
          BY <1>0, <3>5, <4>0, <4>4 DEF RenamesTo, Between
        <5>2. rows' = With(rows, NewRow(p), loc[p].row)
          BY <4>4 DEF RenamesTo
        <5> HIDE DEF d
        <5>3. d \in DOMAIN rows' => d \in DOMAIN rows /\ rows'[d] = rows[d]
          BY <5>1, <5>2 DEF With
        <5> QED
          BY <1>1, <3>1, <3>3, <5>3 DEF d
      <4>5. CASE RenamesFrom(p) \/ DeletesKey(p) \/ DropsRow(p)
        <5>1. PICK K : rows' = Less(rows, K)
          BY <4>5 DEF RenamesFrom, DeletesKey, DropsRow
        <5>2. d \in DOMAIN rows' => d \in DOMAIN rows /\ rows'[d] = rows[d]
          BY <5>1 DEF Less
        <5> QED
          BY <1>1, <3>1, <3>3, <5>2
      <4>6. CASE rows' = rows
        BY <1>1, <3>1, <3>3, <4>6
      <4> QED
        BY <4>2, <4>3, <4>4, <4>5, <4>6, RowWriters
    <3> QED
      BY <3>4, <3>5
  <2> QED
    BY <2>1, <2>2, <2>3, <2>4
<1> QED
  BY <1>2, <1>3



LEMMA KeyQuiet ==
    ASSUME Control, KeyInv, Quiet
    PROVE  KeyInv'
<1>1. /\ UNCHANGED <<actors, rows>> /\ Spoilt \subseteq Spoilt'
      /\ \A q \in Procs : \/ pc'[q] = pc[q] /\ loc'[q] = loc[q] /\ req'[q] = req[q]
                          \/ pc'[q] = "auth" /\ pc[q] = "idle"
  BY DEF Quiet, SameStore, Spoilt
<1>2. ASSUME NEW a \in DOMAIN actors', a[2] \notin Spoilt'
      PROVE  Agree(a)' \/ \E q \in Procs : (Target(q) = a /\ Between(q))'
  <2>1. Agree(a) \/ \E q \in Procs : Target(q) = a /\ Between(q)
    BY <1>1, <1>2 DEF KeyInv
  <2>2. CASE Agree(a)
    BY <1>1, <2>2 DEF Agree
  <2>3. CASE \E q \in Procs : Target(q) = a /\ Between(q)
    <3>1. PICK q \in Procs : Target(q) = a /\ Between(q)
      BY <2>3
    <3>2. pc[q] # "idle"
      BY <3>1 DEF Between
    <3>3. pc'[q] = pc[q] /\ req'[q] = req[q]
      BY <1>1, <3>2
    <3>4. Target(q)' = a /\ Between(q)'
      BY <3>1, <3>3 DEF Target, Between
    <3> QED
      BY <3>4
  <2> QED
    BY <2>1, <2>2, <2>3
<1>3. ASSUME NEW q \in Procs, req'[q].name \notin Spoilt'
      PROVE  KeyStage(q)'
  <2>1. CASE pc'[q] = "auth"
    BY <2>1 DEF KeyStage
  <2>2. CASE pc'[q] = pc[q] /\ loc'[q] = loc[q] /\ req'[q] = req[q]
    <3>1. KeyStage(q)
      BY <1>1, <1>3, <2>2 DEF KeyInv
    <3> QED
      BY <1>1, <2>2, <3>1 DEF KeyStage, Holds, Brought, Row, NewRow, Target
  <2> QED
    BY <1>1, <2>1, <2>2
<1> QED
  BY <1>2, <1>3 DEF KeyInv

LEMMA KeyNext ==
    ASSUME Control, RowsInv, KeyInv, [Next]_vars
    PROVE  KeyInv'
<1>1. CASE \E p \in Procs : Effect(p)
  <2>1. PICK p \in Procs : Effect(p)
    BY <1>1
  <2>2. req' = req /\ Spoilt \subseteq Spoilt'
    BY <2>1, EffectMoves DEF Moves, Spoilt
  <2>3. \A q \in Procs : req'[q].name \in Spoilt' \/ KeyStage(q)'
    BY <2>1, <2>2, KeyOwn, KeyOther
  <2>4. \A a \in DOMAIN actors' : \/ a[2] \in Spoilt' \/ Agree(a)'
                                 \/ \E q \in Procs : (Target(q) = a /\ Between(q))'
    BY <2>1, AgreeStep
  <2> QED
    BY <2>3, <2>4 DEF KeyInv
<1>2. CASE (\E p \in Procs : Begin(p)) \/ UNCHANGED vars
  BY <1>2, QuietSteps, KeyQuiet
<1> QED
  BY <1>1, <1>2, Stepping

LEMMA KeyInit == Init => KeyInv
<1> SUFFICES ASSUME Init PROVE KeyInv
  OBVIOUS
<1>1. PICK s \in Scenarios : actors = s.actors /\ rows = s.rows
  BY DEF Init
<1>2. \A p \in Procs : pc[p] = "idle"
  BY DEF Init
<1>3. ASSUME NEW a \in DOMAIN actors PROVE Agree(a)
  <2>1. a = <<a[1], a[2]>> /\ \A k \in DOMAIN rows : k[3] = "default" => rows[k].pub = actors[<<k[1], k[2]>>].pub
    BY <1>1, SoundScenarios
  <2>2. Default(a)[1] = a[1] /\ Default(a)[2] = a[2] /\ Default(a)[3] = "default"
    BY DEF Default, KeyRow
  <2> QED
    BY <2>1, <2>2 DEF Agree
<1> QED
  BY <1>2, <1>3 DEF KeyInv, KeyStage

LEMMA Keys == Spec => []KeyInv
<1>1. Init => KeyInv
  BY KeyInit
<1>2. Control /\ RowsInv /\ KeyInv /\ [Next]_vars => KeyInv'
  BY KeyNext
<1> QED
  BY <1>1, <1>2, Base, Rows, PTL DEF Spec

\* The default key's row and the actor's own public key agree once no request
\* is in flight, unless writes to the actor overlapped or one failed half-way
\* (putKey, deleteKey and scopedPut change the two one after the other).
THEOREM DefaultsAgree == Spec => []DefaultInStep
<1>1. KeyInv => DefaultInStep
  <2> SUFFICES ASSUME KeyInv, Busy = {}, NEW a \in DOMAIN actors, a[2] \notin frayed \cup failed
               PROVE  Agree(a)
    BY DEF DefaultInStep, Agree, Default
  <2>1. \A p \in Procs : ~Between(p)
    BY DEF Busy, Between
  <2> QED
    BY <2>1 DEF KeyInv, Spoilt
<1> QED
  BY <1>1, Keys, PTL

\* What a key operation leaves when it is answered with success.
LEMMA Answered ==
    ASSUME Control, PresentInv, KeyInv, NEW p \in Procs, Effect(p), Answers(p),
           req[p].op \in KeyWrites, req[p].name \notin Spoilt
    PROVE  /\ req[p].op = "deleteKey" => Shown(Target(p), req[p].key)' = NoKey
           /\ req[p].op = "putKey" /\ out'[p] = 201 =>
                /\ Shown(Target(p), req[p].key)' = NoKey
                /\ req[p].body.pub # NoKey => Shown(Target(p), req[p].body.name)' = req[p].body.pub
           /\ req[p].body.pub # NoKey /\ (req[p].op = "addKey" \/ (req[p].op = "putKey" /\ out'[p] = 200)) =>
                Shown(Target(p), req[p].key)' = req[p].body.pub
<1> DEFINE a == Target(p)
           b == req[p].body
           Now(key) == LET row == KeyRow(a, key)
                       IN IF a \notin DOMAIN actors' THEN NoKey
                          ELSE IF row \in DOMAIN rows' THEN rows'[row].pub
                          ELSE IF key = "default" THEN actors'[a].pub ELSE NoKey
<1>0. /\ pc'[p] = "idle" /\ out'[p] \in {200, 201} /\ req' = req /\ KeyStage(p) /\ Stage(p)
      /\ pc[p] # "idle" /\ req[p].name \notin frayed /\ Locals(loc[p]) /\ Moves(p)
      /\ Target(p)' = Target(p)
  BY EffectMoves DEF Moves, Answers, KeyInv, Spoilt, Control, Typed, Target
<1>1. /\ Shown(Target(p), req[p].key)' = Now(req[p].key)
      /\ Shown(Target(p), req[p].body.name)' = Now(b.name)
  BY <1>0 DEF Shown
<1>00. KeyRow(a, req[p].key) = Row(p) /\ KeyRow(a, b.name) = NewRow(p) /\ KeyRow(a, "default") = Default(a)
  BY DEF Row, NewRow, Default
<1>2. Found(p) => a \in DOMAIN actors
  <2>1. Gone(p) => req[p].name \in frayed
    BY <1>0, GoneFrays DEF Busy
  <2> QED
    BY <1>0, <2>1 DEF PresentInv, Present
<1> HIDE DEF a, b
<1>3. CASE AddsKey(p)
  <2>1. /\ req[p].op = "addKey" /\ pc[p] = "loaded" /\ actors' = actors /\ Brought(p, loc'[p].pub)
        /\ rows' = With(rows, Row(p), [pub |-> loc'[p].pub, exp |-> b.exp])
    BY <1>3 DEF AddsKey, b
  <2>2. Row(p) \in DOMAIN rows' /\ rows'[Row(p)].pub = loc'[p].pub
    <3> DEFINE v == [pub |-> loc'[p].pub, exp |-> b.exp]
    <3>1. v.pub = loc'[p].pub
      OBVIOUS
    <3> HIDE DEF v
    <3>2. rows' = With(rows, Row(p), v)
      BY <2>1 DEF v
    <3> QED
      BY <3>1, <3>2 DEF With
  <2>3. a \in DOMAIN actors'
    BY <1>0, <2>1 DEF KeyStage, a
  <2>4. b.pub # NoKey => Now(req[p].key) = b.pub
    BY <1>00, <2>1, <2>2, <2>3 DEF Brought, b
  <2> QED
    BY <1>1, <2>1, <2>4 DEF b
<1>4. CASE PutsKey(p)
  <2>1. /\ req[p].op = "putKey" /\ out'[p] = 200 /\ actors' = actors /\ Found(p)
        /\ rows' = With(rows, Row(p), loc[p].row) /\ loc[p].row.pub = loc[p].pub /\ Brought(p, loc[p].pub)
    BY <1>0, <1>4 DEF PutsKey, KeyStage, Stage, Found, KeySteps
  <2>2. Row(p) \in DOMAIN rows' /\ rows'[Row(p)] = loc[p].row
    BY <2>1 DEF With
  <2>3. b.pub # NoKey => Now(req[p].key) = b.pub
    BY <1>00, <1>2, <2>1, <2>2 DEF Brought, b
  <2> QED
    BY <1>1, <2>1, <2>3 DEF b
<1>5. CASE RenamesFrom(p)
  <2>1. /\ req[p].op = "putKey" /\ out'[p] = 201 /\ actors' = actors /\ Found(p)
        /\ rows' = Less(rows, {Row(p)}) /\ "default" \notin {req[p].key, b.name}
        /\ Holds(NewRow(p), loc[p].pub) /\ Brought(p, loc[p].pub) /\ b.name # req[p].key
    BY <1>0, <1>5 DEF RenamesFrom, KeyStage, Stage, Found, KeySteps, RenameSteps, b
  <2>2. NewRow(p) # Row(p)
    BY <2>1 DEF NewRow, Row, KeyRow, b
  <2>3. /\ Row(p) \notin DOMAIN rows' /\ NewRow(p) \in DOMAIN rows' /\ rows'[NewRow(p)].pub = loc[p].pub
    BY <2>1, <2>2 DEF Less, Holds
  <2>4. Now(req[p].key) = NoKey
    BY <1>00, <2>1, <2>3
  <2>5. b.pub # NoKey => Now(b.name) = b.pub
    BY <1>00, <1>2, <2>1, <2>3 DEF Brought, b
  <2> QED
    BY <1>1, <2>1, <2>4, <2>5 DEF b
<1>6. CASE DeletesKey(p)
  <2>1. /\ req[p].op = "deleteKey" /\ actors' = actors /\ rows' = Less(rows, {Row(p)})
        /\ ~(req[p].key = "default" /\ loc[p].rec.pub # NoKey)
        /\ a \in DOMAIN actors /\ loc[p].rec = actors[a]
    BY <1>0, <1>6 DEF DeletesKey, KeyStage, a
  <2>2. Row(p) \notin DOMAIN rows'
    BY <2>1 DEF Less
  <2>3. Now(req[p].key) = NoKey
    BY <1>00, <2>1, <2>2
  <2> QED
    BY <1>1, <2>1, <2>3
<1>7. CASE SetsPub(p)
  <2> DEFINE rec == [loc[p].rec EXCEPT !.pub = loc[p].pub]
  <2>1. /\ actors' = With(actors, a, rec) /\ rows' = rows /\ pc[p] \in {"setPub", "setNewPub"}
        /\ out'[p] = IF pc[p] = "setNewPub" THEN 201 ELSE 200
    BY <1>7 DEF SetsPub, a
  <2>2. rec.pub = loc[p].pub
    BY <1>0 DEF Locals
  <2> HIDE DEF rec
  <2>3. a \in DOMAIN actors' /\ actors'[a].pub = loc[p].pub
    BY <2>1, <2>2 DEF With
  <2>4. /\ req[p].op = "deleteKey" => req[p].key = "default" /\ Default(a) \notin DOMAIN rows /\ loc[p].pub = NoKey
        /\ req[p].op = "addKey" => req[p].key = "default" /\ Holds(Default(a), loc[p].pub) /\ Brought(p, loc[p].pub)
        /\ req[p].op = "putKey" /\ out'[p] = 200 => (b.pub # NoKey => Holds(Row(p), b.pub))
        /\ req[p].op = "putKey" /\ out'[p] = 201 =>
             /\ Row(p) \notin DOMAIN rows /\ (req[p].key = "default" => loc[p].pub = NoKey)
             /\ b.pub # NoKey => Holds(NewRow(p), b.pub)
    BY <1>0, <2>1 DEF KeyStage, a, b
  <2>5. req[p].op = "deleteKey" \/ (req[p].op = "putKey" /\ out'[p] = 201) => Now(req[p].key) = NoKey
    BY <1>00, <2>1, <2>3, <2>4
  <2>6. \A key : Holds(KeyRow(a, key), b.pub) => Now(key) = b.pub
    BY <2>1, <2>3 DEF Holds
  <2>7. req[p].op = "addKey" /\ b.pub # NoKey => Now(req[p].key) = b.pub
    BY <1>00, <2>4, <2>6 DEF Brought, b
  <2>8. /\ req[p].op = "putKey" /\ out'[p] = 200 /\ b.pub # NoKey => Now(req[p].key) = b.pub
        /\ req[p].op = "putKey" /\ out'[p] = 201 /\ b.pub # NoKey => Now(b.name) = b.pub
    BY <1>00, <2>4, <2>6
  <2> QED
    BY <1>1, <2>5, <2>7, <2>8 DEF KeyWrites, b
<1>8. ~(AddsKey(p) \/ PutsKey(p) \/ RenamesFrom(p) \/ DeletesKey(p) \/ SetsPub(p)) => FALSE
  <2> SUFFICES ASSUME ~(AddsKey(p) \/ PutsKey(p) \/ RenamesFrom(p) \/ DeletesKey(p) \/ SetsPub(p)) PROVE FALSE
    OBVIOUS
  <2>0. req[p].op \in Ops
    BY DEF KeyWrites, Ops, Writes
  <2>1. \/ Ends(p) \/ Grants(p) \/ Joins(p) \/ PutsRecord(p) \/ DropsActor(p) \/ StoresACL(p)
    BY <1>0, <2>0
       DEF Ops, Writes, KeyWrites, Effect, AuthEffect, ActorEffect, DeleteEffect, KeyEffect, ACLEffect, Reads, Finds, Retries,
       Knows, Looks, Sees, Admits, Asks, Claims, Stashes, Creates, Starts, Merges, Chooses,
       PutsDefault, Preserves, Locks, Ranges, PutsClean, Finishes, Leaves, DropsACL, Lists,
       DropsRow, Loads, Plans, RenamesTo,
       Checks, Guards, Vets, LoadsACL
  <2>2. ~Ends(p)
    BY <1>0 DEF Ends
  <2>3. req[p].op \notin KeyWrites
    BY <1>0, <2>1, <2>2 DEF Grants, Joins, PutsRecord, DropsActor, StoresACL, Stage, CreateSteps,
                            UpdateSteps, DeleteSteps, ACLSteps, KeyWrites
  <2> QED
    BY <2>3
<1> QED
  BY <1>3, <1>4, <1>5, <1>6, <1>7, <1>8

\* When a key operation is answered with success, the key it deleted or renamed
\* is shown no more (the default does not come back as the actor's own), and the
\* public key it brought is shown under the name that the answer gives it, unless
\* other writes to the actor overlapped it or had failed before.
THEOREM KeyWritesEffective == Spec => KeyWritesTake
<1>1. Control /\ PresentInv /\ KeyInv /\ [Next]_vars
      => [\A p \in Procs : LET r == req[p]  b == r.body IN
            Answers(p) /\ r.op \in KeyWrites /\ r.name \notin frayed \cup failed =>
                /\ r.op = "deleteKey" => Shown(Target(p), r.key)' = NoKey
                /\ r.op = "putKey" /\ out'[p] = 201 =>
                     /\ Shown(Target(p), r.key)' = NoKey
                     /\ b.pub # NoKey => Shown(Target(p), b.name)' = b.pub
                /\ b.pub # NoKey /\ (r.op = "addKey" \/ (r.op = "putKey" /\ out'[p] = 200)) =>
                     Shown(Target(p), r.key)' = b.pub]_vars
  <2> SUFFICES ASSUME Control, PresentInv, KeyInv, [Next]_vars, NEW p \in Procs, Answers(p),
                      req[p].op \in KeyWrites, req[p].name \notin Spoilt
               PROVE  /\ req[p].op = "deleteKey" => Shown(Target(p), req[p].key)' = NoKey
                      /\ req[p].op = "putKey" /\ out'[p] = 201 =>
                           /\ Shown(Target(p), req[p].key)' = NoKey
                           /\ req[p].body.pub # NoKey => Shown(Target(p), req[p].body.name)' = req[p].body.pub
                      /\ req[p].body.pub # NoKey /\ (req[p].op = "addKey" \/ (req[p].op = "putKey" /\ out'[p] = 200)) =>
                           Shown(Target(p), req[p].key)' = req[p].body.pub
    BY DEF Spoilt
  <2>1. ~((\E q \in Procs : Begin(q)) \/ UNCHANGED vars)
    BY QuietSteps DEF Quiet, Answers
  <2>2. PICK q \in Procs : Effect(q)
    BY <2>1, Stepping
  <2>3. q = p
    BY <2>2, EffectMoves DEF Moves, Answers
  <2> QED
    BY <2>2, <2>3, Answered
<1> QED
  BY <1>1, Base, Keys, PTL DEF KeyWritesTake, Spec


-----------------------------------------------------------------------------
(* No escalation.                                                           *)

\* What is stored gives the others nothing of the trusted users' authority,
Theirs(n) == n \in Trusted
Sealed ==
    /\ \A a \in DOMAIN actors : a[1] = "users" /\ Admin(actors[a]) => Theirs(a[2])
    /\ \A u \in Trusted : /\ <<"users", u>> \in DOMAIN actors /\ <<"clients", u>> \notin DOMAIN actors
                          /\ actors[<<"users", u>>].pub \in TrustedKeys \cup {NoKey}
    /\ \A k \in DOMAIN rows : k[1] = "users" /\ Theirs(k[2]) => rows[k].pub \in TrustedKeys
    /\ \A m \in member : m[1] = "admins" => Theirs(m[2])
ACLsSealed == \A k, perm : Reserved(k, perm) => AdminsOnly(loadACL(k)[perm])

\* a goroutine serves one of the others, and not a request that is shut to them,
ShutTo(p) == Shut(MethodOf(req[p]), PathOf(req[p]))
Outsider(p) ==
    /\ pc[p] # "idle" => req[p].signer \notin TrustedKeys
    /\ pc[p] = "keys" =>
         /\ loc[p].seg = "users" /\ Admin(loc[p].rec) => Theirs(req[p].as)
         /\ Theirs(req[p].as) => loc[p].seg = "users" /\ loc[p].rec.pub \in TrustedKeys \cup {NoKey}
    /\ pc[p] \notin {"idle", "auth", "keys"} => ~Theirs(req[p].as) /\ ~loc[p].who.super
    /\ pc[p] \notin {"idle"} \cup AuthSteps \/ out[p] \in {200, 201} => ~ShutTo(p)

\* and what it is about to store is not a trusted user's, has no admin flag and
\* reserves what was reserved.
Harmless(p) ==
    /\ pc[p] \in CreateSteps \cup {"stash"} /\ req[p].op = "createActor" => ~Theirs(req[p].name)
    /\ Found(p) => ~(req[p].seg = "clients" /\ Theirs(req[p].name))
    /\ pc[p] \in KeySteps \/ (pc[p] \in {"stash", "putRecord"} /\ req[p].op = "putActor") =>
         (req[p].seg = "users" /\ ~Theirs(req[p].name) => ~Admin(loc[p].rec))
    /\ pc[p] \in {"putUsersACLs", "putOrgACLs"} =>
         \A x \in loc[p].todo : \A perm : Reserved(x[1], perm) => AdminsOnly(x[2][perm])
Contained == ~byAdmin => Sealed /\ ACLsSealed /\ \A p \in Procs : Outsider(p) /\ Harmless(p)

\* The paths of a user's keys, and of an ACL.
LEMMA UserKeysPath ==
    ASSUME NEW n, NEW k
    PROVE  /\ <<"users">> \o <<n, "keys">> = <<"users", n, "keys">>
           /\ <<"users">> \o <<n, "keys", k>> = <<"users", n, "keys", k>>
<1> DEFINE S == {"users", "keys", n, k}
           a == <<"users">> \o <<n, "keys">>
           b == <<"users", n, "keys">>
           c == <<"users">> \o <<n, "keys", k>>
           d == <<"users", n, "keys", k>>
<1>1. /\ <<"users">> \in Seq(S) /\ <<n, "keys">> \in Seq(S) /\ <<n, "keys", k>> \in Seq(S)
      /\ b \in Seq(S) /\ Len(b) = 3 /\ b[1] = "users" /\ b[2] = n /\ b[3] = "keys"
      /\ d \in Seq(S) /\ Len(d) = 4 /\ d[1] = "users" /\ d[2] = n /\ d[3] = "keys" /\ d[4] = k
  OBVIOUS
<1>2. a \in Seq(S) /\ Len(a) = 3 /\ a[1] = "users" /\ a[2] = n /\ a[3] = "keys"
  BY <1>1, ConcatProperties
<1>3. c \in Seq(S) /\ Len(c) = 4 /\ c[1] = "users" /\ c[2] = n /\ c[3] = "keys" /\ c[4] = k
  BY <1>1, ConcatProperties
<1> HIDE DEF a, b, c, d, S
<1>4. a = b
  BY <1>1, <1>2, SeqEqual
<1>5. c = d
  BY <1>1, <1>3, SeqEqual
<1> QED
  BY <1>4, <1>5 DEF a, b, c, d

\* Whoever writes to a user, its record or its keys, is that user or the
\* superuser.
LEMMA UserRoutes ==
    ASSUME NEW p, req[p].seg = "users", req[p].op \in {"putActor", "deleteActor"} \cup KeyWrites,
           Theirs(req[p].name)
    PROVE  ShutTo(p)
<1> DEFINE n == req[p].name
           m == MethodOf(req[p])
           path == PathOf(req[p])
<1>0. ASSUME NEW q, q[1] = "users"
      PROVE  classifyRequest(m, q) = classifyUsers(m, Tail(q))
  BY <1>0, SMT DEF classifyRequest
<1>1. path[1] = "users" /\ classifyUsers(m, Tail(path)) = SelfOr(n)
  <2>1. CASE req[p].op \in {"putActor", "deleteActor"}
    <3>1. path = Append(<<"users">>, n) /\ m \in {"PUT", "DELETE"}
      BY <2>1 DEF PathOf, MethodOf
    <3>2. path = <<"users", n>>
      BY <3>1, AppendOne
    <3>3. Tail(<<"users", n>>) = <<n>> /\ <<"users", n>>[1] = "users"
      OBVIOUS
    <3>4. \A x \in {"PUT", "DELETE"} : classifyUsers(x, <<n>>) = SelfOr(n)
      BY DEF classifyUsers, itemPerm, Reading
    <3> HIDE DEF m, path, n
    <3> QED BY <3>1, <3>2, <3>3, <3>4
  <2>2. CASE req[p].op = "addKey"
    <3>1. path = <<"users">> \o <<n, "keys">> /\ m = "POST"
      BY <2>2 DEF PathOf, MethodOf
    <3>2. path = <<"users", n, "keys">>
      BY <3>1, UserKeysPath
    <3>3. Tail(<<"users", n, "keys">>) = <<n, "keys">> /\ <<"users", n, "keys">>[1] = "users"
      OBVIOUS
    <3>4. classifyUsers("POST", <<n, "keys">>) = SelfOr(n)
      BY DEF classifyUsers, itemPerm, Reading
    <3> HIDE DEF m, path, n
    <3> QED BY <3>1, <3>2, <3>3, <3>4
  <2>3. CASE req[p].op \in {"putKey", "deleteKey"}
    <3> DEFINE k == req[p].key
    <3>1. path = <<"users">> \o <<n, "keys", k>> /\ m \in {"PUT", "DELETE"}
      BY <2>3 DEF PathOf, MethodOf
    <3>2. path = <<"users", n, "keys", k>>
      BY <3>1, UserKeysPath
    <3>3. /\ Tail(<<"users", n, "keys", k>>) = <<n, "keys", k>>
          /\ <<"users", n, "keys", k>>[1] = "users"
      OBVIOUS
    <3>4. \A x \in {"PUT", "DELETE"} : classifyUsers(x, <<n, "keys", k>>) = SelfOr(n)
      BY DEF classifyUsers, itemPerm, Reading
    <3> HIDE DEF m, path, n, k
    <3> QED BY <3>1, <3>2, <3>3, <3>4
  <2> QED
    BY <2>1, <2>2, <2>3 DEF KeyWrites
<1>2. classifyRequest(m, path) = SelfOr(n)
  BY <1>0, <1>1
<1>3. SelfOr(n) # Unclassified /\ SelfOr(n).self = n /\ SelfOr(n).kind = "superuser"
  BY DEF SelfOr, Unclassified
<1> HIDE DEF m, path, n
<1> QED
  BY <1>2, <1>3 DEF ShutTo, Shut, Theirs, m, path, n


LEMMA AppendFour ==
    ASSUME NEW a, NEW b, NEW c, NEW d, NEW e
    PROVE  Append(<<a, b, c, d>>, e) = <<a, b, c, d, e>>
<1> DEFINE s == Append(<<a, b, c, d>>, e)
           t == <<a, b, c, d, e>>
<1>1. /\ <<a, b, c, d>> \in Seq({a, b, c, d, e}) /\ t \in Seq({a, b, c, d, e}) /\ Len(t) = 5
      /\ t[1] = a /\ t[2] = b /\ t[3] = c /\ t[4] = d /\ t[5] = e
  OBVIOUS
<1>2. /\ s \in Seq({a, b, c, d, e}) /\ Len(s) = 5
      /\ s[1] = a /\ s[2] = b /\ s[3] = c /\ s[4] = d /\ s[5] = e
  BY <1>1, AppendProperties
<1> HIDE DEF s, t
<1>3. \A i \in 1 .. 5 : s[i] = t[i]
  BY <1>1, <1>2
<1>4. s = t
  BY <1>1, <1>2, <1>3, SeqEqual
<1> QED
  BY <1>4 DEF s, t

LEMMA AppendFive ==
    ASSUME NEW a, NEW b, NEW c, NEW d, NEW e, NEW f
    PROVE  Append(<<a, b, c, d, e>>, f) = <<a, b, c, d, e, f>>
<1> DEFINE s == Append(<<a, b, c, d, e>>, f)
           t == <<a, b, c, d, e, f>>
<1>1. /\ <<a, b, c, d, e>> \in Seq({a, b, c, d, e, f}) /\ t \in Seq({a, b, c, d, e, f}) /\ Len(t) = 6
      /\ t[1] = a /\ t[2] = b /\ t[3] = c /\ t[4] = d /\ t[5] = e /\ t[6] = f
  OBVIOUS
<1>2. /\ s \in Seq({a, b, c, d, e, f}) /\ Len(s) = 6
      /\ s[1] = a /\ s[2] = b /\ s[3] = c /\ s[4] = d /\ s[5] = e /\ s[6] = f
  BY <1>1, AppendProperties
<1> HIDE DEF s, t
<1>3. \A i \in 1 .. 6 : s[i] = t[i]
  BY <1>1, <1>2
<1>4. s = t
  BY <1>1, <1>2, <1>3, SeqEqual
<1> QED
  BY <1>4 DEF s, t

LEMMA RestOfFive ==
    ASSUME NEW a, NEW b, NEW c, NEW d, NEW e
    PROVE  SubSeq(<<a, b, c, d, e>>, 3, Len(<<a, b, c, d, e>>)) = <<c, d, e>>
<1> DEFINE path == <<a, b, c, d, e>>
           s == SubSeq(path, 3, 5)
           t == <<c, d, e>>
<1>1. /\ path \in Seq({a, b, c, d, e}) /\ t \in Seq({a, b, c, d, e}) /\ Len(path) = 5 /\ Len(t) = 3
      /\ t[1] = path[3] /\ t[2] = path[4] /\ t[3] = path[5]
  OBVIOUS
<1>2. \A i \in 3 .. 5 : path[i] \in {a, b, c, d, e}
  OBVIOUS
<1> HIDE DEF path, t
<1>3. /\ s \in Seq({a, b, c, d, e}) /\ Len(s) = 3
      /\ s[1] = path[3] /\ s[2] = path[4] /\ s[3] = path[5]
  BY <1>1, <1>2, SubSeqProperties
<1> HIDE DEF s
<1>4. s = t
  BY <1>1, <1>3, SeqEqual
<1> QED
  BY <1>1, <1>4 DEF s, t, path

LEMMA RestOfSix ==
    ASSUME NEW a, NEW b, NEW c, NEW d, NEW e, NEW f
    PROVE  SubSeq(<<a, b, c, d, e, f>>, 3, Len(<<a, b, c, d, e, f>>)) = <<c, d, e, f>>
<1> DEFINE path == <<a, b, c, d, e, f>>
           s == SubSeq(path, 3, 6)
           t == <<c, d, e, f>>
<1>1. /\ path \in Seq({a, b, c, d, e, f}) /\ t \in Seq({a, b, c, d, e, f}) /\ Len(path) = 6 /\ Len(t) = 4
      /\ t[1] = path[3] /\ t[2] = path[4] /\ t[3] = path[5] /\ t[4] = path[6]
  OBVIOUS
<1>2. \A i \in 3 .. 6 : path[i] \in {a, b, c, d, e, f}
  OBVIOUS
<1> HIDE DEF path, t
<1>3. /\ s \in Seq({a, b, c, d, e, f}) /\ Len(s) = 4
      /\ s[1] = path[3] /\ s[2] = path[4] /\ s[3] = path[5] /\ s[4] = path[6]
  BY <1>1, <1>2, SubSeqProperties
<1> HIDE DEF s
<1>4. s = t
  BY <1>1, <1>3, SeqEqual
<1> QED
  BY <1>1, <1>4 DEF s, t, path

\* An update of an ACL needs the grant permission of what it is the ACL of, so
\* one that reserves anything is shut.
LEMMA ClassifiedACL ==
    ASSUME NEW m, NEW path, path[1] = "organizations", path # <<"organizations">>,
           Len(path) >= 2, Len(path) # 2, NEW rest, rest = SubSeq(path, 3, Len(path)),
           NEW n \in Int, n \in DOMAIN rest, rest[n] = "_acl",
           \A j \in DOMAIN rest : j \in Int /\ (rest[j] = "_acl" => n <= j)
    PROVE  /\ n = 2 /\ rest[1] = "organizations" =>
                classifyRequest(m, path) = Needs("organizations", path[2], "grant")
           /\ n = 2 /\ rest[1] # "organizations" => classifyRequest(m, path) = Unclassified
           /\ n = 3 => classifyRequest(m, path)
                       = After(Needs(rest[1], rest[2], "grant"), <<"acl", rest[1], rest[2]>>)
<1> DEFINE acl == {i \in DOMAIN rest : rest[i] = "_acl"}
           first == CHOOSE i \in acl : \A j \in acl : i <= j
<1>1. n \in acl /\ \A j \in acl : j \in Int /\ n <= j
  OBVIOUS
<1>2. acl # {} /\ first = n
  <2> HIDE DEF acl
  <2>1. first \in acl /\ \A j \in acl : first <= j
    BY <1>1, Zenon
  <2> HIDE DEF first
  <2> QED
    BY <1>1, <2>1
<1>3. classifyRequest(m, path) =
        CASE first = 2 /\ rest[1] = "organizations" -> Needs("organizations", path[2], "grant")
          [] first = 3 -> After(Needs(rest[1], rest[2], "grant"), <<"acl", rest[1], rest[2]>>)
          [] OTHER -> Unclassified
  BY <1>2 DEF classifyRequest
<1> HIDE DEF acl, first
<1>4. PICK x, y, z, s, c :
        /\ x = Needs("organizations", path[2], "grant") /\ z = Unclassified
        /\ y = After(Needs(rest[1], rest[2], "grant"), <<"acl", rest[1], rest[2]>>)
        /\ s = rest[1] /\ c = classifyRequest(m, path)
  OBVIOUS
<1>5. c = CASE first = 2 /\ s = "organizations" -> x [] first = 3 -> y [] OTHER -> z
  BY <1>3, <1>4, Zenon
<1>6. c = CASE n = 2 /\ s = "organizations" -> x [] n = 3 -> y [] OTHER -> z
  BY <1>2, <1>5
<1>7. /\ n = 2 /\ s = "organizations" => c = x
      /\ n = 2 /\ s # "organizations" => c = z
      /\ n = 3 => c = y
  BY <1>6
<1> QED
  BY <1>4, <1>7

LEMMA OrgACLRoute ==
    ASSUME NEW m, NEW perm
    PROVE  classifyRequest(m, <<"organizations", Org, "organizations", "_acl", perm>>)
            = Needs("organizations", Org, "grant")
<1> DEFINE path == <<"organizations", Org, "organizations", "_acl", perm>>
           rest == SubSeq(path, 3, Len(path))
<1>1. rest = <<"organizations", "_acl", perm>>
  BY RestOfFive
<1>2. /\ path[1] = "organizations" /\ path[2] = Org /\ path # <<"organizations">> /\ Len(path) >= 2
      /\ Len(path) # 2
  OBVIOUS
<1>3. rest = SubSeq(path, 3, Len(path))
  OBVIOUS
<1> HIDE DEF path, rest
<1>4. /\ rest[1] = "organizations" /\ 2 \in DOMAIN rest /\ rest[2] = "_acl"
      /\ \A j \in DOMAIN rest : j \in Int /\ (rest[j] = "_acl" => 2 <= j)
  BY <1>1
<1>5. classifyRequest(m, path) = Needs("organizations", Org, "grant")
  BY <1>2, <1>3, <1>4, ClassifiedACL
<1> QED
  BY <1>5 DEF path

LEMMA ObjectACLRoute ==
    ASSUME NEW m, NEW typ, typ \notin {"_acl", "organizations"}, NEW obj, NEW perm
    PROVE  LET path == <<"organizations", Org, typ, obj, "_acl", perm>>
           IN classifyRequest(m, path) =
                IF obj = "_acl" THEN Unclassified
                ELSE After(Needs(typ, obj, "grant"), <<"acl", typ, obj>>)
<1> DEFINE path == <<"organizations", Org, typ, obj, "_acl", perm>>
           rest == SubSeq(path, 3, Len(path))
<1>1. rest = <<typ, obj, "_acl", perm>>
  BY RestOfSix
<1>2. /\ path[1] = "organizations" /\ path[2] = Org /\ path # <<"organizations">> /\ Len(path) >= 2
      /\ Len(path) # 2
  OBVIOUS
<1>3. rest = SubSeq(path, 3, Len(path))
  OBVIOUS
<1> HIDE DEF path, rest
<1>4. CASE obj = "_acl"
  <2>1. /\ rest[1] # "organizations" /\ 2 \in DOMAIN rest /\ rest[2] = "_acl"
        /\ \A j \in DOMAIN rest : j \in Int /\ (rest[j] = "_acl" => 2 <= j)
    BY <1>1, <1>4
  <2>2. classifyRequest(m, path) = Unclassified
    BY <1>2, <1>3, <2>1, ClassifiedACL
  <2> QED
    BY <1>4, <2>2 DEF path
<1>5. CASE obj # "_acl"
  <2>1. /\ rest[1] = typ /\ rest[2] = obj /\ 3 \in DOMAIN rest /\ rest[3] = "_acl"
        /\ \A j \in DOMAIN rest : j \in Int /\ (rest[j] = "_acl" => 3 <= j)
    BY <1>1, <1>5
  <2>2. classifyRequest(m, path) = After(Needs(typ, obj, "grant"), <<"acl", typ, obj>>)
    BY <1>2, <1>3, <2>1, ClassifiedACL
  <2> QED
    BY <1>5, <2>2 DEF path
<1> QED
  BY <1>4, <1>5

LEMMA ACLRoutes ==
    ASSUME Typed, NEW p \in Procs, req[p].op = "putACL", NEW perm, Reserved(ACLTarget(req[p]), perm)
    PROVE  ShutTo(p)
<1> DEFINE typ == req[p].typ
           obj == req[p].obj
           path == PathOf(req[p])
<1>1. typ \in aclTypes /\ MethodOf(req[p]) = "PUT"
  BY Routed DEF MethodOf
<1>2. typ \notin {"users", "_acl"} /\ Reserved(<<typ, obj>>, "grant")
  BY <1>1 DEF Reserved, ACLTarget, Segs, aclTypes, aclPerms
<1>3. CASE typ = "organizations"
  <2>1. path = Append(<<"organizations", Org, "organizations", "_acl">>, req[p].perm)
    BY <1>3 DEF PathOf
  <2>2. path = <<"organizations", Org, "organizations", "_acl", req[p].perm>>
    BY <2>1, AppendFour
  <2>3. classifyRequest("PUT", path) = Needs("organizations", Org, "grant")
    BY <2>2, OrgACLRoute
  <2>4. LET c == Needs("organizations", Org, "grant")
        IN c # Unclassified /\ c.self = "" /\ c.typ = "organizations" /\ c.name = Org /\ c.perm = "grant"
    BY DEF Needs, Unclassified
  <2>5. Reserved(<<"organizations", Org>>, "grant")
    <3>1. <<"organizations", Org>>[1] = "organizations"
      OBVIOUS
    <3> QED
      BY <3>1, TrustedStart
  <2> HIDE DEF path, typ, obj
  <2> QED
    BY <1>1, <2>3, <2>4, <2>5 DEF ShutTo, Shut, path
<1>4. CASE typ # "organizations"
  <2>1. path = Append(<<"organizations", Org, typ, obj, "_acl">>, req[p].perm)
    BY <1>2, <1>4 DEF PathOf
  <2>2. path = <<"organizations", Org, typ, obj, "_acl", req[p].perm>>
    BY <2>1, AppendFive
  <2>3. classifyRequest("PUT", path) =
          IF obj = "_acl" THEN Unclassified ELSE After(Needs(typ, obj, "grant"), <<"acl", typ, obj>>)
    BY <1>2, <1>4, <2>2, ObjectACLRoute
  <2>4. LET c == After(Needs(typ, obj, "grant"), <<"acl", typ, obj>>)
        IN c # Unclassified /\ c.self = "" /\ c.typ = typ /\ c.name = obj /\ c.perm = "grant"
    BY DEF Needs, After, Unclassified
  <2>5. refuseUnclassifiedWrite("PUT", path)
    <3>1. path[1] = "organizations" /\ path[3] = typ /\ typ \notin {"sandboxes", "file_store"}
      BY <1>1, <2>2 DEF aclTypes
    <3> HIDE DEF path, typ
    <3> QED BY <3>1 DEF refuseUnclassifiedWrite, openWrite
  <2> HIDE DEF path, typ, obj
  <2>6. CASE obj = "_acl"
    BY <1>1, <2>3, <2>5, <2>6 DEF ShutTo, Shut, path
  <2>7. CASE obj # "_acl"
    BY <1>1, <1>2, <2>3, <2>4, <2>7 DEF ShutTo, Shut, path
  <2> QED
    BY <2>6, <2>7
<1> QED
  BY <1>3, <1>4

\* What has been admitted is not shut: the ACL that decides lets only the
\* admins in, and none of the others is one.
LEMMA Admission ==
    ASSUME Control, Sealed, ACLsSealed, NEW p \in Procs, Admits(p), Outsider(p)
    PROVE  ~ShutTo(p)
<1>1. pc[p] \in {"authorize", "allowed"} /\ Admitted(p) /\ Typed /\ Stage(p)
  BY DEF Admits, Reads, Control
<1>2. ~loc[p].who.super /\ ~Theirs(req[p].as) /\ loc[p].who.name = req[p].as /\ req[p].as # ""
  BY <1>1, Routed DEF Outsider, Stage
<1> SUFFICES ASSUME ShutTo(p)
             PROVE  FALSE
  OBVIOUS
<1> DEFINE c == Check(p)
           m == MethodOf(req[p])
           path == PathOf(req[p])
<1>3. \/ c = Unclassified /\ ~refuseUnclassifiedWrite(m, path)
      \/ c # Unclassified /\ c.self = req[p].as
      \/ /\ c.kind = "acl"
         /\ \E groups \in SUBSET GroupsOf(req[p].as) :
               aceAllows(loadACL(<<c.typ, c.name>>)[c.perm], req[p].as, groups)
  BY <1>1, <1>2 DEF Admitted
<1>4. IF c = Unclassified THEN refuseUnclassifiedWrite(m, path)
      ELSE /\ c.self \in Trusted \cup {""}
           /\ c.kind = "acl" => Reserved(<<c.typ, c.name>>, c.perm)
  BY Zenon DEF ShutTo, Shut, Check
<1> HIDE DEF c, m, path
<1>5. c.kind = "acl" => c # Unclassified
  BY DEF Unclassified
<1>6. c # Unclassified => c.self # req[p].as
  BY <1>2, <1>4 DEF Theirs
<1>7. c.kind = "acl" /\ Reserved(<<c.typ, c.name>>, c.perm)
  BY <1>3, <1>4, <1>5, <1>6
<1>8. PICK groups \in SUBSET GroupsOf(req[p].as) :
        aceAllows(loadACL(<<c.typ, c.name>>)[c.perm], req[p].as, groups)
  BY <1>3, <1>4, <1>5, <1>6
<1>9. PICK ace : ace = loadACL(<<c.typ, c.name>>)[c.perm]
  OBVIOUS
<1>10. AdminsOnly(ace)
  BY <1>7, <1>9 DEF ACLsSealed
<1>11. req[p].as \notin ace.actors /\ ace.groups \subseteq {"admins"}
  BY <1>2, <1>10 DEF AdminsOnly, Theirs
<1>12. "admins" \in GroupsOf(req[p].as)
  BY <1>8, <1>9, <1>11 DEF aceAllows
<1> QED
  BY <1>2, <1>12 DEF GroupsOf, Sealed

\* None of the others is authenticated as a trusted user, or as the superuser.
LEMMA KnowsWho ==
    ASSUME Sealed, NEW p \in Procs, Knows(p), Outsider(p)
    PROVE  ~Theirs(req[p].as) /\ ~loc'[p].who.super
<1>1. pc[p] = "keys" /\ Signed(p) /\ (loc'[p].who.super => loc[p].seg = "users")
  BY DEF Knows, Reads
<1>2. req[p].signer \notin TrustedKeys
  BY <1>1 DEF Outsider
<1>3. req[p].signer \in SigningKeys(<<loc[p].seg, req[p].as>>, loc[p].rec.pub)
  BY <1>1, <1>2, TrustedStart DEF Signed
<1>4. ASSUME Theirs(req[p].as)
      PROVE  FALSE
  <2>1. loc[p].seg = "users" /\ loc[p].rec.pub \in TrustedKeys \cup {NoKey}
    BY <1>1, <1>4 DEF Outsider
  <2>2. PICK pub : pub = loc[p].rec.pub
    OBVIOUS
  <2>3. \/ \E k \in DOMAIN rows : <<k[1], k[2]>> = <<"users", req[p].as>> /\ req[p].signer = rows[k].pub
        \/ req[p].signer \in {pub} \ {NoKey}
    BY <1>3, <2>1, <2>2 DEF SigningKeys
  <2>4. PICK k \in DOMAIN rows : <<k[1], k[2]>> = <<"users", req[p].as>> /\ req[p].signer = rows[k].pub
    BY <1>2, <2>1, <2>2, <2>3
  <2>5. k[1] = "users" /\ k[2] = req[p].as
    BY <2>4
  <2> QED
    BY <1>2, <1>4, <2>4, <2>5 DEF Sealed
<1>5. ~loc'[p].who.super
  BY <1>1, <1>4 DEF Signed, Outsider
<1> QED
  BY <1>4, <1>5

\* Whoever has passed authorization was admitted.
LEMMA Passing ==
    ASSUME NEW p, Effect(p), pc[p] \in AuthSteps
    PROVE  Ends(p) \/ pc'[p] \in AuthSteps \/ Admits(p)
<1> USE DEF AuthSteps
<1>1. CASE AuthEffect(p)
  BY <1>1 DEF AuthEffect, Finds, Retries, Knows, Looks, Sees, Asks, Reads
<1>2. CASE ActorEffect(p)
  BY <1>2 DEF ActorEffect, Claims, Stashes, Creates, Grants, Joins, Starts, Merges, Chooses,
              PutsDefault, Preserves, PutsRecord, Reads
<1>3. CASE DeleteEffect(p)
  BY <1>3 DEF DeleteEffect, Locks, Ranges, PutsClean, Finishes, Leaves, DropsACL, Lists,
              DropsRow, DropsActor, Reads
<1>4. CASE KeyEffect(p)
  BY <1>4 DEF KeyEffect, Loads, AddsKey, Plans, PutsKey, RenamesTo, RenamesFrom, DeletesKey, SetsPub, Reads,
              KeyWrites
<1>5. CASE ACLEffect(p)
  BY <1>5 DEF ACLEffect, Checks, Guards, Vets, LoadsACL, StoresACL, Reads
<1> QED
  BY <1>1, <1>2, <1>3, <1>4, <1>5 DEF Effect

LEMMA ToKeys ==
    ASSUME Control, NEW p \in Procs, Effect(p), pc'[p] = "keys"
    PROVE  Finds(p)
<1>0. req[p].op # "keys"
  BY Routed DEF Control, Ops, Writes, KeyWrites
<1>1. CASE Ends(p)
  BY <1>1 DEF Ends
<1>2. CASE AuthEffect(p)
  BY <1>0, <1>2 DEF AuthEffect, Retries, Knows, Looks, Sees, Admits, Asks, Reads
<1>3. CASE ActorEffect(p)
  BY <1>3 DEF ActorEffect, Claims, Stashes, Creates, Grants, Joins, Starts, Merges, Chooses,
              PutsDefault, Preserves, PutsRecord, Reads
<1>4. CASE DeleteEffect(p)
  BY <1>4 DEF DeleteEffect, Locks, Ranges, PutsClean, Finishes, Leaves, DropsACL, Lists,
              DropsRow, DropsActor, Reads
<1>5. CASE KeyEffect(p)
  BY <1>5 DEF KeyEffect, Loads, AddsKey, Plans, PutsKey, RenamesTo, RenamesFrom, DeletesKey, SetsPub, Reads
<1>6. CASE ACLEffect(p)
  BY <1>6 DEF ACLEffect, Checks, Guards, Vets, LoadsACL, StoresACL, Reads
<1> QED
  BY <1>1, <1>2, <1>3, <1>4, <1>5, <1>6 DEF Effect

LEMMA OutsiderOwn ==
    ASSUME Control, Sealed, ACLsSealed, NEW p \in Procs, Effect(p), Outsider(p)
    PROVE  Outsider(p)'
<1>0. Moves(p) /\ pc[p] # "idle" /\ req' = req /\ Answering(p)
  BY EffectMoves DEF Moves
<1>1. ShutTo(p)' = ShutTo(p)
  BY <1>0 DEF ShutTo
<1>2. req[p].signer \notin TrustedKeys
  BY <1>0 DEF Outsider
<1>3. ASSUME pc'[p] = "keys"
      PROVE  /\ loc'[p].seg = "users" /\ Admin(loc'[p].rec) => Theirs(req[p].as)
             /\ Theirs(req[p].as) => loc'[p].seg = "users" /\ loc'[p].rec.pub \in TrustedKeys \cup {NoKey}
  <2>1. /\ <<loc'[p].seg, req[p].as>> \in DOMAIN actors /\ loc'[p].seg \in Segs
        /\ loc'[p].rec = actors[<<loc'[p].seg, req[p].as>>]
    BY <1>3, ToKeys DEF Finds, Recorded
  <2>2. PICK seg, a : seg = loc'[p].seg /\ a = <<seg, req[p].as>>
    OBVIOUS
  <2>3. a \in DOMAIN actors /\ seg \in Segs /\ loc'[p].rec = actors[a] /\ a[1] = seg /\ a[2] = req[p].as
    BY <2>1, <2>2
  <2>4. Theirs(req[p].as) => seg = "users" /\ actors[a].pub \in TrustedKeys \cup {NoKey}
    BY <2>2, <2>3 DEF Sealed, Segs, Theirs
  <2>5. seg = "users" /\ Admin(actors[a]) => Theirs(req[p].as)
    BY <2>3 DEF Sealed
  <2> QED
    BY <2>2, <2>3, <2>4, <2>5
<1>4. ASSUME pc'[p] \notin {"idle", "auth", "keys"}
      PROVE  ~Theirs(req[p].as) /\ ~loc'[p].who.super
  BY <1>4, Acting, KnowsWho DEF Outsider, SameWho
<1>5. pc[p] \notin AuthSteps => ~ShutTo(p)
  BY <1>0 DEF Outsider
<1>6. pc'[p] \notin {"idle"} \cup AuthSteps => ~ShutTo(p)
  BY <1>5, Passing, Admission DEF Ends
<1>7. out'[p] \in {200, 201} => ~ShutTo(p)
  <2>1. CASE pc'[p] # "idle"
    BY <1>0, <2>1 DEF Answering, Outsider
  <2>2. CASE pc'[p] = "idle" /\ pc[p] \in AuthSteps
    BY <2>2, Passing, Admission DEF Ends, Refused, AuthSteps
  <2> QED
    BY <1>5, <2>1, <2>2
<1> QED
  BY <1>0, <1>1, <1>2, <1>3, <1>4, <1>6, <1>7 DEF Outsider

LEMMA OthersContained ==
    ASSUME NEW p \in Procs, Moves(p), NEW q \in Procs \ {p}, Outsider(q), Harmless(q)
    PROVE  Outsider(q)' /\ Harmless(q)'
<1>1. pc'[q] = pc[q] /\ loc'[q] = loc[q] /\ req' = req /\ out'[q] = out[q]
  BY DEF Moves, Answering
<1>2. ShutTo(q)' = ShutTo(q) /\ Found(q)' = Found(q)
  BY <1>1 DEF ShutTo, Found
<1>3. Outsider(q)'
  BY <1>1, <1>2 DEF Outsider
<1>4. Harmless(q)'
  BY <1>1, <1>2 DEF Harmless
<1> QED
  BY <1>3, <1>4

LEMMA WithoutGroups ==
    ASSUME NEW acl, IsACL(acl), NEW name, NEW perm \in aclPerms, AdminsOnly(acl[perm])
    PROVE  AdminsOnly(Without(acl, name)[perm])
<1>1. Without(acl, name)[perm] = [acl[perm] EXCEPT !.actors = @ \ {name}]
  BY DEF Without
<1>2. PICK ace : ace = acl[perm] /\ DOMAIN ace = {"actors", "groups"}
  BY DEF IsACL
<1>3. PICK new : new = [ace EXCEPT !.actors = @ \ {name}]
  OBVIOUS
<1>4. new.actors = ace.actors \ {name} /\ new.groups = ace.groups
  BY <1>2, <1>3
<1> QED
  BY <1>1, <1>2, <1>3, <1>4 DEF AdminsOnly

\* What leads to each of the steps that store something.
LEMMA Approaches ==
    ASSUME Control, NEW p \in Procs, Effect(p)
    PROVE  /\ pc'[p] \in CreateSteps \cup {"stash"} /\ req[p].op = "createActor" =>
                Claims(p) \/ pc[p] \in CreateSteps \cup {"stash"}
           /\ pc'[p] \in KeySteps \/ (pc'[p] \in {"stash", "putRecord"} /\ req[p].op = "putActor") =>
                \/ Loads(p) \/ Preserves(p)
                \/ /\ pc[p] \in KeySteps \/ (pc[p] \in {"stash", "putRecord"} /\ req[p].op = "putActor")
                   /\ SameRec(p)
           /\ pc'[p] \in {"putUsersACLs", "putOrgACLs"} => Ranges(p) \/ PutsClean(p)
<1>0. Stage(p) /\ req[p].op \in Ops
  BY Routed DEF Control
<1> USE DEF CreateSteps, KeySteps, RenameSteps, SameRec, Ops, Writes, KeyWrites
<1>1. CASE Ends(p)
  BY <1>1 DEF Ends
<1>2. CASE AuthEffect(p)
  BY <1>0, <1>2 DEF AuthEffect, Finds, Retries, Knows, Looks, Sees, Admits, Asks, Reads
<1>3. CASE ActorEffect(p)
  <2>1. CASE Claims(p) \/ Preserves(p)
    BY <1>0, <2>1 DEF Claims, Preserves, Reads, Stage, UpdateSteps
  <2>2. CASE ~Claims(p) /\ ~Preserves(p)
    BY <1>0, <1>3, <2>2 DEF ActorEffect, Stashes, Creates, Grants, Joins, Starts, Merges, Chooses,
              PutsDefault, PutsRecord, Reads, Stays, Stage, UpdateSteps
  <2> QED
    BY <2>1, <2>2
<1>4. CASE DeleteEffect(p)
  BY <1>0, <1>4 DEF DeleteEffect, Locks, Ranges, PutsClean, Finishes, Leaves, DropsACL, Lists,
              DropsRow, DropsActor, Reads
<1>5. CASE KeyEffect(p)
  BY <1>0, <1>5 DEF KeyEffect, Loads, AddsKey, Plans, PutsKey, RenamesTo, RenamesFrom, DeletesKey, SetsPub, Reads,
              Stays
<1>6. CASE ACLEffect(p)
  BY <1>0, <1>6 DEF ACLEffect, Checks, Guards, Vets, LoadsACL, StoresACL, Reads
<1> QED
  BY <1>1, <1>2, <1>3, <1>4, <1>5, <1>6 DEF Effect

LEMMA HarmlessOwn ==
    ASSUME Control, Sealed, ACLsSealed, NEW p \in Procs, Effect(p), Outsider(p), Harmless(p)
    PROVE  Harmless(p)'
<1>0. /\ Moves(p) /\ Stage(p) /\ req' = req /\ Shaped
      /\ req[p].op \in {"createActor", "putActor", "deleteActor"} => req[p].seg \in Segs
  BY EffectMoves, Routed DEF Moves, Control
<1>1. ASSUME pc'[p] \in CreateSteps \cup {"stash"}, req[p].op = "createActor"
      PROVE  ~Theirs(req[p].name)
  <2>1. CASE Claims(p)
    <3>1. pc[p] = "createActor" /\ Rival(Target(p)) \notin DOMAIN actors
      BY <2>1 DEF Claims, Reads
    <3>2. req[p].seg = "clients"
      BY <1>0, <1>1, <3>1 DEF Stage, Outsider, Segs
    <3>3. Rival(Target(p)) = <<"users", req[p].name>>
      BY <3>2 DEF Rival, Target
    <3> QED
      BY <3>1, <3>3 DEF Sealed, Theirs
  <2>2. CASE pc[p] \in CreateSteps \cup {"stash"}
    BY <1>1, <2>2 DEF Harmless
  <2> QED
    BY <1>1, <2>1, <2>2, Approaches
<1>2. ASSUME Found(p)', req[p].seg = "clients", Theirs(req[p].name)
      PROVE  FALSE
  <2>1. Found(p) \/ Target(p) \in DOMAIN actors
    BY <1>2, FoundOwn
  <2>2. ~Found(p)
    BY <1>2 DEF Harmless
  <2>3. Target(p) = <<"clients", req[p].name>>
    BY <1>2 DEF Target
  <2> QED
    BY <1>2, <2>1, <2>2, <2>3 DEF Sealed, Theirs
<1>3. ASSUME pc'[p] \in KeySteps \/ (pc'[p] \in {"stash", "putRecord"} /\ req[p].op = "putActor"),
             req[p].seg = "users", ~Theirs(req[p].name)
      PROVE  ~Admin(loc'[p].rec)
  <2>0. Target(p) \in DOMAIN actors => ~Admin(actors[Target(p)])
    <3>1. Target(p)[1] = "users" /\ Target(p)[2] = req[p].name
      BY <1>3 DEF Target
    <3> QED
      BY <1>3, <3>1 DEF Sealed
  <2>1. CASE Loads(p)
    BY <2>0, <2>1 DEF Loads
  <2>2. CASE Preserves(p)
    <3>1. ~loc[p].who.super
      BY <2>2 DEF Preserves, Reads, Outsider
    <3> QED
      BY <1>3, <2>0, <2>2, <3>1 DEF Preserves, Preserved
  <2>3. CASE /\ pc[p] \in KeySteps \/ (pc[p] \in {"stash", "putRecord"} /\ req[p].op = "putActor")
             /\ SameRec(p)
    BY <1>3, <2>3 DEF Harmless, SameRec
  <2> QED
    BY <1>3, <2>1, <2>2, <2>3, Approaches
<1>4. ASSUME pc'[p] \in {"putUsersACLs", "putOrgACLs"},
             NEW x \in loc'[p].todo, NEW perm, Reserved(x[1], perm)
      PROVE  AdminsOnly(x[2][perm])
  <2>1. CASE Ranges(p)
    <3>1. PICK k \in DOMAIN acls : x = <<k, Without(acls[k], req[p].name)>>
      BY <2>1, <1>4 DEF Ranges, Named
    <3>2. x[1] = k /\ x[2] = Without(acls[k], req[p].name)
      BY <3>1
    <3>3. IsACL(acls[k]) /\ perm \in aclPerms /\ Reserved(k, perm)
      BY <1>0, <1>4, <3>2 DEF Shaped, Reserved
    <3>4. AdminsOnly(loadACL(k)[perm])
      BY <3>3 DEF ACLsSealed
    <3>5. AdminsOnly(acls[k][perm])
      BY <3>4 DEF loadACL
    <3> QED
      BY <3>2, <3>3, <3>5, WithoutGroups
  <2>2. CASE PutsClean(p)
    <3>1. x \in loc[p].todo /\ pc[p] \in {"putUsersACLs", "putOrgACLs"}
      BY <1>4, <2>2 DEF PutsClean
    <3> QED
      BY <1>4, <3>1 DEF Harmless
  <2> QED
    BY <1>4, <2>1, <2>2, Approaches
<1> QED
  BY <1>0, <1>1, <1>2, <1>3, <1>4 DEF Harmless

\* A goroutine past authorization is at none of the requests that are shut, so
\* it does not write to a trusted user.
LEMMA Spared ==
    ASSUME Control, NEW p \in Procs, Outsider(p), pc[p] \notin {"idle"} \cup AuthSteps,
           req[p].op \in {"putActor", "deleteActor"} \cup KeyWrites
    PROVE  ~(req[p].seg = "users" /\ Theirs(req[p].name))
BY UserRoutes DEF Outsider

LEMMA ActorsSealed ==
    ASSUME Control, Sealed, NEW p \in Procs, Effect(p), Outsider(p), Harmless(p)
    PROVE  /\ \A a \in DOMAIN actors' : a[1] = "users" /\ Admin(actors'[a]) => Theirs(a[2])
           /\ \A u \in Trusted : /\ <<"users", u>> \in DOMAIN actors' /\ <<"clients", u>> \notin DOMAIN actors'
                                 /\ actors'[<<"users", u>>].pub \in TrustedKeys \cup {NoKey}
<1>0. /\ Typed /\ Stage(p) /\ Locals(loc[p]) /\ Target(p)[1] = req[p].seg /\ Target(p)[2] = req[p].name
      /\ req[p].op \in {"createActor", "putActor", "deleteActor"} => req[p].seg \in Segs
  BY Routed DEF Control, Typed, Target
<1>1. CASE actors' = actors
  BY <1>1 DEF Sealed
<1>2. CASE LosesActor(p)
  <2>1. /\ DOMAIN actors' = DOMAIN actors \ {Target(p)} /\ \A a \in DOMAIN actors' : actors'[a] = actors[a]
    BY <1>2 DEF LosesActor, Less
  <2>2. pc[p] \notin {"idle"} \cup AuthSteps /\ req[p].op = "deleteActor"
    BY <1>0, <1>2 DEF LosesActor, AuthSteps, Stage, DeleteSteps
  <2>3. \A u \in Trusted : <<"users", u>> # Target(p)
    BY <1>0, <2>2, Spared DEF Theirs, Target
  <2> QED
    BY <2>1, <2>3 DEF Sealed
<1>3. CASE PutsActor(p) /\ actors' # actors
  <2>1. /\ DOMAIN actors' = DOMAIN actors \cup {Target(p)}
        /\ \A a \in DOMAIN actors \ {Target(p)} : actors'[a] = actors[a]
    BY <1>3 DEF PutsActor, With
  <2>2. CASE req[p].op = "createActor"
    <3>1. pc[p] = "create" /\ req[p].seg = "clients"
      BY <1>0, <1>3, <2>2 DEF PutsActor, Stage, CreateSteps, Outsider, Segs
    <3>2. ~Theirs(req[p].name)
      BY <2>2, <3>1 DEF Harmless, CreateSteps
    <3>3. \A u \in Trusted : Target(p) \notin {<<"users", u>>, <<"clients", u>>}
      BY <3>1, <3>2 DEF Target, Theirs
    <3> QED
      BY <1>0, <2>1, <3>1, <3>3 DEF Sealed
  <2>3. CASE req[p].op # "createActor"
    <3>1. PutsRecord(p) \/ SetsPub(p)
      <4>1. ASSUME Creates(p) PROVE FALSE
        BY <1>0, <2>3, <4>1 DEF Creates, Stage, CreateSteps
      <4>2. ASSUME DropsActor(p) PROVE FALSE
        BY <1>0, <1>3, <4>2 DEF DropsActor, PutsActor, Stage, DeleteSteps, KeyWrites
      <4> QED
        BY <1>3, <4>1, <4>2, ActorWriters
    <3>2. pc[p] \in {"putRecord", "setPub", "setNewPub"} /\ Found(p)
      BY <1>3, <2>3, <3>1 DEF PutsActor, PutsRecord, SetsPub
    <3>3. req[p].op \in {"putActor"} \cup KeyWrites
      BY <1>3, <2>3 DEF PutsActor
    <3>4. ~(req[p].seg = "users" /\ Theirs(req[p].name))
      BY <3>2, <3>3, Spared DEF AuthSteps
    <3>5. ~(req[p].seg = "clients" /\ Theirs(req[p].name))
      BY <3>2 DEF Harmless
    <3>6. \A u \in Trusted : Target(p) \notin {<<"users", u>>, <<"clients", u>>}
      BY <3>4, <3>5 DEF Target, Theirs
    <3>7. Admin(actors'[Target(p)]) => Admin(loc[p].rec)
      <4>1. CASE PutsRecord(p)
        BY <4>1 DEF PutsRecord, With
      <4>2. CASE SetsPub(p)
        <5>1. PICK rec : rec = [loc[p].rec EXCEPT !.pub = loc[p].pub]
          OBVIOUS
        <5>2. actors'[Target(p)] = rec
          BY <4>2, <5>1 DEF SetsPub, With
        <5>3. rec.admin = loc[p].rec.admin
          BY <1>0, <5>1 DEF Locals
        <5> QED
          BY <5>2, <5>3, Zenon DEF Admin
      <4> QED
        BY <3>1, <4>1, <4>2
    <3>8. req[p].seg = "users" /\ ~Theirs(req[p].name) => ~Admin(loc[p].rec)
      BY <1>0, <3>2 DEF Harmless, KeySteps, Stage, UpdateSteps
    <3>9. Target(p)[1] = "users" => ~Admin(actors'[Target(p)])
      BY <1>0, <3>4, <3>7, <3>8
    <3> QED
      BY <2>1, <3>6, <3>9 DEF Sealed
  <2> QED
    BY <2>2, <2>3
<1> QED
  BY <1>1, <1>2, <1>3, ActorsStep

LEMMA SealedStep ==
    ASSUME Control, Sealed, NEW p \in Procs, Effect(p), Outsider(p), Harmless(p)
    PROVE  Sealed'
<1>0. Stage(p)
  BY DEF Control
<1>1. ASSUME NEW k \in DOMAIN rows', k[1] = "users", Theirs(k[2])
      PROVE  rows'[k].pub \in TrustedKeys
  <2>1. CASE rows' = rows
    BY <1>1, <2>1 DEF Sealed
  <2>2. CASE \E x : PutsRow(p, x) /\ DOMAIN rows' = DOMAIN rows \cup {x}
                    /\ \A y \in DOMAIN rows \ {x} : rows'[y] = rows[y]
    <3>1. PICK x : PutsRow(p, x) /\ DOMAIN rows' = DOMAIN rows \cup {x}
                    /\ \A y \in DOMAIN rows \ {x} : rows'[y] = rows[y]
      BY <2>2
    <3>2. x[1] = req[p].seg /\ x[2] = req[p].name /\ req[p].op \in {"putActor"} \cup KeyWrites
      BY <3>1 DEF PutsRow, KeyRow, Target
    <3>3. rows' = rows \/ pc[p] \notin {"idle"} \cup AuthSteps
      BY RowWriters DEF PutsDefault, AddsKey, PutsKey, RenamesTo, RenamesFrom, DeletesKey, DropsRow, AuthSteps
    <3>4. rows' = rows \/ k # x
      BY <1>1, <3>2, <3>3, Spared
    <3> QED
      BY <1>1, <2>1, <3>1, <3>4 DEF Sealed
  <2>3. CASE \E x : LosesRow(p, x) /\ DOMAIN rows' = DOMAIN rows \ {x}
                    /\ \A y \in DOMAIN rows' : rows'[y] = rows[y]
    BY <1>1, <2>3 DEF Sealed
  <2> QED
    BY <2>1, <2>2, <2>3, RowsStep
<1>2. ASSUME NEW m \in member', m[1] = "admins"
      PROVE  Theirs(m[2])
  <2>1. m \in member \/ (Joins(p) /\ m = <<"clients", req[p].name>>)
    BY Changing DEF Change, SameStore, PutsActor, LosesActor, PutsRow, LosesRow,
                    ChangesACLs, ChangesMembers, Leaves, Joins
  <2>2. m # <<"clients", req[p].name>>
    BY <1>2
  <2> QED
    BY <1>2, <2>1, <2>2 DEF Sealed
<1> QED
  BY <1>1, <1>2, ActorsSealed DEF Sealed

LEMMA ACLsSealedStep ==
    ASSUME Control, ACLsSealed, NEW p \in Procs, Effect(p), Outsider(p), Harmless(p)
    PROVE  ACLsSealed'
<1>0. Stage(p) /\ Typed
  BY DEF Control
<1> SUFFICES ASSUME NEW k, NEW perm, Reserved(k, perm)
             PROVE  AdminsOnly((loadACL(k)')[perm])
  BY Zenon DEF ACLsSealed
<1>1. AdminsOnly(loadACL(k)[perm]) /\ k[1] \notin Segs
  BY DEF ACLsSealed, Reserved
<1>2. ASSUME (k \in DOMAIN acls') = (k \in DOMAIN acls), k \in DOMAIN acls => acls'[k] = acls[k]
      PROVE  AdminsOnly((loadACL(k)')[perm])
  BY <1>1, <1>2 DEF loadACL
<1>3. ASSUME NEW x, NEW acl, acls' = With(acls, x, acl), x = k => AdminsOnly(acl[perm])
      PROVE  AdminsOnly((loadACL(k)')[perm])
  <2>1. DOMAIN acls' = DOMAIN acls \cup {x} /\ acls'[x] = acl /\ \A y \in DOMAIN acls : y # x => acls'[y] = acls[y]
    BY <1>3 DEF With
  <2>2. CASE x = k
    BY <1>3, <2>1, <2>2 DEF loadACL
  <2> QED
    BY <1>2, <2>1, <2>2
<1>4. CASE acls' = acls
  BY <1>2, <1>4
<1>5. CASE Grants(p)
  <2>1. req[p].seg \in Segs /\ Target(p)[1] = req[p].seg
    BY <1>0, <1>5, Routed DEF Grants, Stage, CreateSteps, Target
  <2> QED
    BY <1>1, <1>3, <1>5, <2>1 DEF Grants
<1>6. CASE PutsClean(p)
  <2>1. PICK x \in loc[p].todo : acls' = With(acls, x[1], x[2])
    BY <1>6 DEF PutsClean
  <2>2. x[1] = k => AdminsOnly(x[2][perm])
    BY <1>6 DEF PutsClean, Harmless
  <2> QED
    BY <1>3, <2>1, <2>2
<1>7. CASE DropsACL(p)
  <2>1. req[p].seg \in Segs /\ Target(p)[1] = req[p].seg
    BY <1>0, <1>7, Routed DEF DropsACL, Stage, DeleteSteps, Target
  <2>2. k # Target(p)
    BY <1>1, <2>1
  <2>3. DOMAIN acls' = DOMAIN acls \ {Target(p)} /\ \A y \in DOMAIN acls' : acls'[y] = acls[y]
    BY <1>7 DEF DropsACL, Less
  <2> QED
    BY <1>2, <2>2, <2>3
<1>8. CASE StoresACL(p)
  <2>1. pc[p] = "storeACL" /\ req[p].op = "putACL"
    BY <1>0, <1>8 DEF StoresACL, Stage, ACLSteps
  <2>2. ~ShutTo(p)
    BY <2>1 DEF Outsider, AuthSteps
  <2>3. ACLTarget(req[p]) # k
    BY <1>0, <2>1, <2>2, ACLRoutes
  <2> QED
    BY <1>3, <1>8, <2>3 DEF StoresACL
<1> QED
  BY <1>4, <1>5, <1>6, <1>7, <1>8, Changing
     DEF Change, SameStore, PutsActor, LosesActor, PutsRow, LosesRow, ChangesACLs, ChangesMembers

LEMMA ContainedStep ==
    ASSUME Control, Contained, NEW p \in Procs, Effect(p)
    PROVE  Contained'
<1>1. Moves(p) /\ byAdmin' = byAdmin
  BY EffectMoves DEF Moves, Answering
<1> SUFFICES ASSUME ~byAdmin
             PROVE  Sealed' /\ ACLsSealed' /\ \A q \in Procs : Outsider(q)' /\ Harmless(q)'
  BY <1>1 DEF Contained
<1>2. Sealed /\ ACLsSealed /\ \A q \in Procs : Outsider(q) /\ Harmless(q)
  BY DEF Contained
<1>3. Sealed' /\ ACLsSealed'
  BY <1>2, SealedStep, ACLsSealedStep
<1>4. Outsider(p)' /\ Harmless(p)'
  BY <1>2, OutsiderOwn, HarmlessOwn
<1>5. \A q \in Procs \ {p} : Outsider(q)' /\ Harmless(q)'
  BY <1>1, <1>2, OthersContained
<1> QED
  BY <1>3, <1>4, <1>5

\* A goroutine that does nothing, or takes up a request of one of the others.
LEMMA IdleContained ==
    ASSUME NEW q \in Procs, Outsider(q), Harmless(q),
           pc'[q] = pc[q], loc'[q] = loc[q], req'[q] = req[q], out'[q] = out[q]
    PROVE  Outsider(q)' /\ Harmless(q)'
<1>1. ShutTo(q)' = ShutTo(q) /\ Found(q)' = Found(q)
  BY DEF ShutTo, Found
<1>2. Outsider(q)'
  BY <1>1 DEF Outsider
<1>3. Harmless(q)'
  BY <1>1 DEF Harmless
<1> QED
  BY <1>2, <1>3

LEMMA SameSealed ==
    ASSUME SameStore, Sealed, ACLsSealed
    PROVE  Sealed' /\ ACLsSealed'
<1>1. Sealed'
  BY DEF SameStore, Sealed
<1>2. \A k : loadACL(k)' = loadACL(k)
  BY DEF SameStore, loadACL
<1>3. ACLsSealed'
  BY <1>2 DEF ACLsSealed
<1> QED
  BY <1>1, <1>3

LEMMA ContainedBegin ==
    ASSUME Control, Contained, NEW p \in Procs, Begin(p)
    PROVE  Contained'
<1>1. Begins(p) /\ Arrives(p)
  BY BeginEffect DEF Begins
<1> SUFFICES ASSUME ~byAdmin'
             PROVE  Sealed' /\ ACLsSealed' /\ \A q \in Procs : Outsider(q)' /\ Harmless(q)'
  BY DEF Contained
<1>2. Sealed /\ ACLsSealed /\ (\A q \in Procs : Outsider(q) /\ Harmless(q)) /\ req'[p].signer \notin TrustedKeys
  BY <1>1 DEF Contained, Arrives
<1>3. Sealed' /\ ACLsSealed'
  BY <1>1, <1>2, SameSealed DEF Begins
<1>4. pc'[p] = "auth" /\ out'[p] = 0
  BY <1>1 DEF Begins, Arrives
<1>5. Outsider(p)'
  BY <1>2, <1>4 DEF Outsider, AuthSteps
<1>6. Harmless(p)'
  BY <1>4 DEF Harmless, Found, CreateSteps, UpdateSteps, KeySteps, RenameSteps
<1>7. \A q \in Procs \ {p} : Outsider(q)' /\ Harmless(q)'
  BY <1>1, <1>2, IdleContained DEF Begins, Arrives
<1> QED
  BY <1>3, <1>5, <1>6, <1>7

LEMMA ContainedNext ==
    ASSUME Control, Contained, [Next]_vars
    PROVE  Contained'
<1>1. CASE \E p \in Procs : Begin(p) \/ Effect(p)
  BY <1>1, ContainedStep, ContainedBegin
<1>2. CASE UNCHANGED vars
  <2> SUFFICES ASSUME ~byAdmin
               PROVE  Sealed' /\ ACLsSealed' /\ \A q \in Procs : Outsider(q)' /\ Harmless(q)'
    BY <1>2 DEF Contained, vars
  <2>1. Sealed /\ ACLsSealed /\ \A q \in Procs : Outsider(q) /\ Harmless(q)
    BY DEF Contained
  <2>2. SameStore /\ \A q \in Procs : pc'[q] = pc[q] /\ loc'[q] = loc[q] /\ req'[q] = req[q] /\ out'[q] = out[q]
    BY <1>2 DEF vars, SameStore
  <2> QED
    BY <2>1, <2>2, SameSealed, IdleContained
<1> QED
  BY <1>1, <1>2, Stepping

LEMMA ContainedInit == Init => Contained
<1> SUFFICES ASSUME Init
             PROVE  Contained
  OBVIOUS
<1>1. PICK s \in Scenarios : actors = s.actors /\ rows = s.rows /\ acls = s.acls /\ member = s.member
  BY DEF Init
<1>2. Sealed
  BY <1>1, TrustedStart DEF Sealed, Admin, Theirs
<1>3. ACLsSealed
  BY <1>1 DEF ACLsSealed, Reserved, loadACL
<1>4. ASSUME NEW p \in Procs
      PROVE  Outsider(p) /\ Harmless(p)
  <2>1. pc[p] = "idle" /\ out[p] = 0
    BY DEF Init
  <2> QED
    BY <2>1 DEF Outsider, Harmless, Found, CreateSteps, UpdateSteps, KeySteps, RenameSteps
<1> QED
  BY <1>2, <1>3, <1>4 DEF Contained

\* As long as no holder of a trusted key has sent a request, whatever the others
\* send, in any order and with any failures: only trusted users are superusers,
\* their keys are their own, no client answers to their name, only admins grant
\* on the organization, its groups and its containers, and no guarded request is
\* answered with success (classifyRequest, preservePrivilege, actorNameCollision
\* and fallbackACL together).
THEOREM NothingEscalates == Spec => []NoEscalation
<1>1. ASSUME Contained
      PROVE  NoEscalation
  <2> SUFFICES ASSUME ~byAdmin
               PROVE  /\ \A a \in DOMAIN actors : a[1] = "users" /\ actors[a].admin => a[2] \in Trusted
                      /\ \A t \in Trusted : /\ Listed(<<"users", t>>) \subseteq TrustedKeys
                                            /\ <<"clients", t>> \notin DOMAIN actors
                      /\ \A k \in Objects \cup {<<"organizations", Org>>} :
                           k[1] \in {"organizations", "groups", "containers"} =>
                              AdminsOnly(loadACL(k)["grant"])
                      /\ \A p \in Procs : <<MethodOf(req[p]), PathOf(req[p])>> \in Guarded =>
                                             out[p] \notin {200, 201}
    BY DEF NoEscalation
  <2>1. Sealed /\ ACLsSealed /\ \A p \in Procs : Outsider(p)
    BY <1>1 DEF Contained
  <2>2. \A a \in DOMAIN actors : a[1] = "users" /\ actors[a].admin => a[2] \in Trusted
    BY <2>1, Zenon DEF Sealed, Admin, Theirs
  <2>3. ASSUME NEW t \in Trusted
        PROVE  Listed(<<"users", t>>) \subseteq TrustedKeys /\ <<"clients", t>> \notin DOMAIN actors
    <3>1. PICK a : a = <<"users", t>>
      OBVIOUS
    <3>2. a[1] = "users" /\ a[2] = t
      BY <3>1
    <3>3. actors[a].pub \in TrustedKeys \cup {NoKey} /\ <<"clients", t>> \notin DOMAIN actors
      BY <2>1, <3>1 DEF Sealed
    <3>4. \A k \in DOMAIN rows : k[1] = a[1] /\ k[2] = a[2] => rows[k].pub \in TrustedKeys
      BY <2>1, <3>2 DEF Sealed, Theirs
    <3>5. Listed(a) \subseteq TrustedKeys
      BY <3>3, <3>4 DEF Listed
    <3> QED
      BY <3>1, <3>3, <3>5
  <2>4. ASSUME NEW k \in Objects \cup {<<"organizations", Org>>},
               k[1] \in {"organizations", "groups", "containers"}
        PROVE  AdminsOnly(loadACL(k)["grant"])
    BY <2>1, <2>4, TrustedStart DEF ACLsSealed
  <2>5. ASSUME NEW p \in Procs, <<MethodOf(req[p]), PathOf(req[p])>> \in Guarded
        PROVE  out[p] \notin {200, 201}
    <3>1. PICK g \in Guarded : g = <<MethodOf(req[p]), PathOf(req[p])>>
      BY <2>5
    <3>2. g[1] = MethodOf(req[p]) /\ g[2] = PathOf(req[p])
      BY <3>1
    <3>3. ShutTo(p)
      BY <3>2, TrustedStart DEF ShutTo
    <3> QED
      BY <2>1, <3>3 DEF Outsider
  <2> QED
    BY <2>2, <2>3, <2>4, <2>5
<1>2. Contained /\ Control /\ [Next]_vars => Contained'
  BY ContainedNext
<1> QED
  BY <1>1, <1>2, ContainedInit, Base, PTL DEF Spec

-----------------------------------------------------------------------------
(* Who signed.  resolveAuth has read the record, and reads the rows next: a  *)
(* key it has read is on the list, or a row hides it.  To bring it back takes *)
(* two writes to the actor: one that gives it another key, one that removes  *)
(* the row.                                                                  *)

\* What is on the list is in the history.
Heard(p) == pc[p] # "idle" => \A s \in Segs : \A x \in Listed(<<s, req[p].as>>) : <<s, x>> \in valid[p]
\* The row is gone before the actor's own key is cleared.
Cleared(p) ==
    pc[p] \in {"setPub", "setNewPub"} /\ req[p].op = "deleteKey" =>
        req[p].name \in frayed \/ Default(Target(p)) \notin DOMAIN rows
Excused(p) == Swapped(p) \/ Troubled(p)
Met(p) == \E r \in near[p] : req[p].as \in Touches(r)
Rotated(p) == \E r \in near[p] : Rotates(r, req[p].as)
Backed(p, a, pub) ==
    \/ pub = NoKey \/ Excused(p) \/ <<a[1], pub>> \in valid[p]
    \/ /\ Default(a) \in DOMAIN rows
       /\ Rotated(p) \/ (a \in DOMAIN actors /\ actors[a].pub = pub)
Holding(p) ==
    LET a == <<loc[p].seg, req[p].as>>
    IN pc[p] = "keys" => /\ loc[p].seg \in Segs
                         /\ Met(p) \/ a \in DOMAIN actors
                         /\ Backed(p, a, loc[p].rec.pub)
SignedFor(p, who) ==
    \/ who.web /\ req[p].signer = WebKey
    \/ Excused(p)
    \/ <<IF who.client THEN "clients" ELSE "users", req[p].signer>> \in valid[p]
Vouched(p) == /\ pc[p] \in {"auth", "keys"} => loc[p].who = NoOne
              /\ pc[p] \notin {"idle", "auth", "keys"} => SignedFor(p, loc[p].who)
SigningInv == \A p \in Procs : Heard(p) /\ Cleared(p) /\ Holding(p) /\ Vouched(p)

\* The history grows while a request is in flight.
LEMMA Tracking ==
    ASSUME [Next]_vars, \A q \in Procs : Heard(q)
    PROVE  \A q \in Procs : /\ Heard(q)'
                            /\ pc[q] # "idle" /\ pc'[q] # "idle" => valid[q] \subseteq valid'[q]
<1>1. CASE Track
  <2> SUFFICES ASSUME NEW q \in Procs, pc'[q] # "idle"
               PROVE  /\ \A s \in Segs : \A x \in Listed(<<s, req[q].as>>)' : <<s, x>> \in valid'[q]
                      /\ pc[q] # "idle" => valid[q] \subseteq valid'[q]
    BY DEF Heard
  <2> DEFINE now == UNION {{<<s, x>> : x \in Listed(<<s, req[q].as>>)} : s \in {"users", "clients"}}
  <2>1. valid'[q] = IF pc[q] = "idle" THEN now' ELSE valid[q] \cup now'
    BY <1>1 DEF Track
  <2>2. ASSUME NEW s \in Segs, NEW x \in Listed(<<s, req[q].as>>)'
        PROVE  <<s, x>> \in now'
    BY <2>2 DEF Segs
  <2> HIDE DEF now
  <2> QED
    BY <2>1, <2>2
<1>2. CASE UNCHANGED vars
  BY <1>2 DEF vars, Heard, Listed
<1> QED
  BY <1>1, <1>2, Zenon DEF Next, Done

\* A listed key is in the history after the step.
LEMMA ListedNow ==
    ASSUME NEW p \in Procs, Heard(p)', Shaped', pc'[p] # "idle", NEW s \in Segs, NEW a, a = <<s, req'[p].as>>,
           a \in DOMAIN actors'
    PROVE  /\ Default(a) \notin DOMAIN rows' /\ actors'[a].pub # NoKey => <<s, actors'[a].pub>> \in valid'[p]
           /\ \A k \in DOMAIN rows' : k[1] = s /\ k[2] = req'[p].as /\ rows'[k].exp # "past" =>
                <<s, rows'[k].pub>> \in valid'[p]
<1>0. a[1] = s /\ a[2] = req'[p].as
  OBVIOUS
<1>1. \A x \in Listed(a)' : <<s, x>> \in valid'[p]
  BY DEF Heard
<1>2. ASSUME Default(a) \notin DOMAIN rows', actors'[a].pub # NoKey
      PROVE  actors'[a].pub \in Listed(a)'
  <2>1. \A k \in DOMAIN rows' : k[1] = a[1] /\ k[2] = a[2] => k[3] # "default"
    BY <1>2 DEF Shaped, Default, KeyRow
  <2> QED
    BY <1>2, <2>1 DEF Listed
<1>3. ASSUME NEW k \in DOMAIN rows', k[1] = s, k[2] = req'[p].as, rows'[k].exp # "past"
      PROVE  rows'[k].pub \in Listed(a)'
  BY <1>0, <1>3 DEF Listed
<1> QED
  BY <1>1, <1>2, <1>3

\* What excuses a request stays with it.
LEMMA ExcuseStays ==
    ASSUME NEW p \in Procs, req'[p] = req[p], near[p] \subseteq near'[p], frayed \subseteq frayed'
    PROVE  /\ Excused(p) => Excused(p)'
           /\ Met(p) => Met(p)'
           /\ Rotated(p) => Rotated(p)'
<1>1. Swapped(p) => Swapped(p)'
  BY DEF Swapped, Rotates, Removes
<1>2. Met(p) => Met(p)'
  BY DEF Met
<1>3. Rotated(p) => Rotated(p)'
  BY DEF Rotated
<1>4. Troubled(p) => Troubled(p)'
  BY DEF Troubled
<1> QED
  BY <1>1, <1>2, <1>3, <1>4 DEF Excused

\* A step that takes the default row of an actor away, or one that writes its
\* record while the row is there.
LEMMA RowTaken ==
    ASSUME Control, NEW q \in Procs, Effect(q), NEW a, a = Target(q),
           Default(a) \in DOMAIN rows, Default(a) \notin DOMAIN rows'
    PROVE  Removes(req[q], req[q].name) /\ actors' = actors
<1>0. Stage(q) /\ Batch(q)
  BY DEF Control
<1>1. rows' # rows
  OBVIOUS
<1>2. CASE RenamesFrom(q)
  <2>1. pc[q] = "renameDelete" /\ rows' = Less(rows, {Row(q)}) /\ actors' = actors
    BY <1>2 DEF RenamesFrom
  <2>2. Default(a) = Row(q)
    BY <2>1 DEF Less
  <2>3. req[q].key = "default"
    BY <2>2 DEF Default, Row, KeyRow
  <2> QED
    BY <1>0, <2>1, <2>3 DEF Stage, RenameSteps, Removes
<1>3. CASE DeletesKey(q)
  <2>1. req[q].op = "deleteKey" /\ rows' = Less(rows, {Row(q)}) /\ actors' = actors
    BY <1>3 DEF DeletesKey
  <2>2. Default(a) = Row(q)
    BY <2>1 DEF Less
  <2>3. req[q].key = "default"
    BY <2>2 DEF Default, Row, KeyRow
  <2> QED
    BY <2>1, <2>3 DEF Removes
<1>4. CASE DropsRow(q)
  BY <1>0, <1>4 DEF DropsRow, Stage, DeleteSteps, Removes
<1>5. CASE PutsDefault(q) \/ AddsKey(q) \/ PutsKey(q) \/ RenamesTo(q)
  BY <1>5 DEF PutsDefault, AddsKey, PutsKey, RenamesTo, With
<1> QED
  BY <1>1, <1>2, <1>3, <1>4, <1>5, RowWriters

LEMMA RecordWritten ==
    ASSUME Control, RowsInv, NEW q \in Procs, Effect(q), Cleared(q), NEW a, a = Target(q),
           a \in DOMAIN actors, Default(a) \in DOMAIN rows, actors' # actors
    PROVE  Rotates(req[q], req[q].name) \/ req[q].name \in frayed
<1>0. Stage(q)
  BY DEF Control
<1>1. CASE Creates(q)
  BY <1>1 DEF Creates
<1>2. CASE PutsRecord(q)
  BY <1>0, <1>2 DEF PutsRecord, Stage, UpdateSteps, Rotates
<1>3. CASE SetsPub(q)
  BY <1>0, <1>3 DEF SetsPub, Stage, Cleared, Rotates, KeyWrites
<1>4. CASE DropsActor(q)
  <2>1. KeyRows(Target(q)) \subseteq {} \/ req[q].name \in frayed
    BY <1>4 DEF DropsActor, RowsInv, Listing
  <2>2. Default(a)[1] = a[1] /\ Default(a)[2] = a[2] /\ a = <<a[1], a[2]>>
    BY DEF Default, KeyRow, Target
  <2>3. Default(a) \in KeyRows(a)
    BY <2>2 DEF KeyRows
  <2> QED
    BY <2>1, <2>3
<1> QED
  BY <1>1, <1>2, <1>3, <1>4, ActorWriters

\* While p is between its two reads, another goroutine takes a step.
LEMMA HoldingOther ==
    ASSUME Control, Control', RowsInv, NEW q \in Procs, Effect(q), Cleared(q), NEW p \in Procs, p # q,
           Holding(p), Heard(p)', valid[p] \subseteq valid'[p], pc[p] = "keys"
    PROVE  Holding(p)'
<1>0. /\ pc'[p] = "keys" /\ loc'[p] = loc[p] /\ req' = req /\ near' = near /\ frayed' = frayed
      /\ p \in Busy /\ q \in Busy
  BY EffectMoves DEF Moves, Busy
<1>1. PICK a, pub : a = <<loc[p].seg, req[p].as>> /\ pub = loc[p].rec.pub
  OBVIOUS
<1>2. /\ loc[p].seg \in Segs
      /\ Met(p) \/ a \in DOMAIN actors
      /\ Backed(p, a, pub) /\ a[1] = loc[p].seg /\ a[2] = req[p].as
  BY <1>1 DEF Holding
<1>3. /\ Excused(p) => Excused(p)'
      /\ Met(p) => Met(p)'
      /\ Rotated(p) => Rotated(p)'
  BY <1>0, ExcuseStays
<1>4. req[q] \in near[p]
  BY <1>0 DEF Control, Aware
<1>5. ASSUME Target(q) = a, ~UNCHANGED <<actors, rows>>
      PROVE  req[q].name = req[p].as /\ Met(p) /\ (req[p].as \in frayed => Excused(p))
  <2>1. req[q].name = req[p].as
    BY <1>1, <1>5 DEF Target
  <2>2. req[q].name \in Touches(req[q])
    BY <1>5, StoreTouches
  <2> QED
    BY <1>4, <2>1, <2>2 DEF Met, Excused, Troubled
<1>6. ASSUME a # Target(q) \/ UNCHANGED <<actors, rows>>
      PROVE  /\ a \in DOMAIN actors' <=> a \in DOMAIN actors
             /\ a \in DOMAIN actors => actors'[a] = actors[a]
             /\ Default(a) \in DOMAIN rows' <=> Default(a) \in DOMAIN rows
  <2>1. <<Default(a)[1], Default(a)[2]>> = a
    BY <1>1 DEF Default, KeyRow
  <2> QED
    BY <1>6, <2>1, Elsewhere
<1>7. Met(p) \/ a \in DOMAIN actors'
  BY <1>2, <1>5, <1>6
<1>8. Backed(p, a, pub)'
  <2>1. CASE pub = NoKey \/ Excused(p) \/ <<a[1], pub>> \in valid[p]
    BY <1>3, <2>1 DEF Backed
  <2>2. CASE /\ Default(a) \in DOMAIN rows
             /\ Rotated(p) \/ (a \in DOMAIN actors /\ actors[a].pub = pub)
    <3>1. CASE a # Target(q) \/ UNCHANGED <<actors, rows>>
      BY <1>3, <1>6, <2>2, <3>1 DEF Backed
    <3>2. CASE Target(q) = a /\ ~UNCHANGED <<actors, rows>>
      <4>1. CASE Rotated(p)
        <5>1. CASE Default(a) \in DOMAIN rows'
          BY <1>3, <4>1, <5>1 DEF Backed
        <5>2. CASE Default(a) \notin DOMAIN rows'
          <6>1. Removes(req[q], req[p].as)
            BY <1>5, <2>2, <3>2, <5>2, RowTaken
          <6>2. Swapped(p)
            BY <1>4, <4>1, <6>1 DEF Swapped, Rotated
          <6> QED
            BY <1>3, <6>2 DEF Backed, Excused
        <5> QED
          BY <5>1, <5>2
      <4>2. CASE a \in DOMAIN actors /\ actors[a].pub = pub /\ actors' # actors
        <5>1. Rotates(req[q], req[q].name) \/ req[q].name \in frayed
          BY <2>2, <3>2, <4>2, RecordWritten
        <5>2. Default(a) \in DOMAIN rows'
          BY <2>2, <3>2, <4>2, RowTaken
        <5>3. Rotated(p) \/ Excused(p)
          BY <1>4, <1>5, <3>2, <5>1 DEF Rotated
        <5> QED
          BY <1>3, <5>2, <5>3 DEF Backed
      <4>3. CASE a \in DOMAIN actors /\ actors[a].pub = pub /\ actors' = actors
        <5>1. CASE Default(a) \in DOMAIN rows'
          BY <4>3, <5>1 DEF Backed
        <5>2. CASE Default(a) \notin DOMAIN rows'
          <6>1. pub # NoKey => <<loc[p].seg, pub>> \in valid'[p]
            BY <1>0, <1>1, <1>2, <4>3, <5>2, ListedNow DEF Control
          <6> QED
            BY <1>2, <6>1 DEF Backed
        <5> QED
          BY <5>1, <5>2
      <4> QED
        BY <2>2, <4>1, <4>2, <4>3
    <3> QED
      BY <3>1, <3>2
  <2> QED
    BY <1>2, <2>1, <2>2 DEF Backed
<1> QED
  BY <1>0, <1>1, <1>2, <1>3, <1>7, <1>8 DEF Holding

\* p reads the record.
LEMMA HoldingOwn ==
    ASSUME Control, Control', NEW p \in Procs, Effect(p), Heard(p)'
    PROVE  Holding(p)'
<1> SUFFICES ASSUME pc'[p] = "keys"
             PROVE  Holding(p)'
  BY DEF Holding
<1>1. Finds(p) /\ req' = req
  BY ToKeys, EffectMoves DEF Moves
<1>2. PICK a, pub, seg : a = <<loc'[p].seg, req'[p].as>> /\ pub = loc'[p].rec.pub /\ seg = loc'[p].seg
  OBVIOUS
<1>3. /\ seg \in Segs /\ a \in DOMAIN actors /\ pub = actors[a].pub /\ a[1] = seg
      /\ actors' = actors /\ rows' = rows
  BY <1>1, <1>2 DEF Finds, Recorded, Reads, SameStore
<1>4. Default(a) \notin DOMAIN rows' /\ pub # NoKey => <<seg, pub>> \in valid'[p]
  BY <1>2, <1>3, ListedNow DEF Control
<1>5. Backed(p, a, pub)'
  BY <1>3, <1>4 DEF Backed
<1> QED
  BY <1>2, <1>3, <1>5 DEF Holding

\* The steps of authentication.
LEMMA Awaiting ==
    ASSUME Control, NEW p \in Procs, Effect(p), pc'[p] \in {"auth", "keys"}
    PROVE  pc[p] \in {"auth", "keys"} /\ SameWho(p)
<1>0. req[p].op \notin {"auth", "keys"}
  BY Routed DEF Control, Ops, Writes, KeyWrites
<1>1. CASE Ends(p)
  BY <1>1 DEF Ends
<1>2. CASE AuthEffect(p)
  BY <1>0, <1>2 DEF AuthEffect, Finds, Retries, Knows, Looks, Sees, Admits, Asks, Reads
<1>3. CASE ActorEffect(p)
  BY <1>3 DEF ActorEffect, Claims, Stashes, Creates, Grants, Joins, Starts, Merges, Chooses,
              PutsDefault, Preserves, PutsRecord, Reads
<1>4. CASE DeleteEffect(p)
  BY <1>4 DEF DeleteEffect, Locks, Ranges, PutsClean, Finishes, Leaves, DropsACL, Lists,
              DropsRow, DropsActor, Reads
<1>5. CASE KeyEffect(p)
  BY <1>5 DEF KeyEffect, Loads, AddsKey, Plans, PutsKey, RenamesTo, RenamesFrom, DeletesKey, SetsPub, Reads
<1>6. CASE ACLEffect(p)
  BY <1>6 DEF ACLEffect, Checks, Guards, Vets, LoadsACL, StoresACL, Reads
<1> QED
  BY <1>1, <1>2, <1>3, <1>4, <1>5, <1>6 DEF Effect

\* p reads the rows: the key that signed is a row of an actor that exists, or
\* the one the record held.
LEMMA KnowsSigner ==
    ASSUME Control, Control', RowsInv, NEW p \in Procs, Knows(p), Holding(p), Heard(p)',
           valid[p] \subseteq valid'[p]
    PROVE  SignedFor(p, loc[p].who)'
<1>0. /\ pc[p] = "keys" /\ pc'[p] = "authorize" /\ Signed(p) /\ req' = req /\ near' = near /\ frayed' = frayed
      /\ actors' = actors /\ rows' = rows
  BY DEF Knows, Reads, Moves, SameStore
<1>1. PICK a, pub, seg, who : /\ a = <<loc[p].seg, req[p].as>> /\ pub = loc[p].rec.pub /\ seg = loc[p].seg
                              /\ who = loc'[p].who
  OBVIOUS
<1>2. /\ seg \in Segs /\ a[1] = seg /\ a[2] = req[p].as
      /\ Met(p) \/ a \in DOMAIN actors
      /\ Backed(p, a, pub)
  BY <1>0, <1>1 DEF Holding
<1>3. /\ seg = IF who.client THEN "clients" ELSE "users"
      /\ \/ who.web /\ req[p].signer = WebKey
         \/ req[p].signer \in SigningKeys(a, pub)
  BY <1>0, <1>1, <1>2 DEF Signed
<1>4. Excused(p) => Excused(p)'
  BY <1>0, ExcuseStays
<1>5. ASSUME req[p].signer \in SigningKeys(a, pub)
      PROVE  Excused(p) \/ <<seg, req[p].signer>> \in valid'[p]
  <2>1. \/ \E k \in DOMAIN rows : <<k[1], k[2]>> = a /\ ~keyExpired(rows[k].exp) /\ req[p].signer = rows[k].pub
        \/ Default(a) \notin DOMAIN rows /\ req[p].signer = pub /\ pub # NoKey
    BY <1>5 DEF SigningKeys, Default
  <2>2. CASE Default(a) \notin DOMAIN rows /\ req[p].signer = pub /\ pub # NoKey
    BY <1>2, <2>2 DEF Backed
  <2>3. ASSUME NEW k \in DOMAIN rows, <<k[1], k[2]>> = a, rows[k].exp # "past", req[p].signer = rows[k].pub
        PROVE  Excused(p) \/ <<seg, req[p].signer>> \in valid'[p]
    <3>0. k[1] = seg /\ k[2] = req[p].as
      BY <1>2, <2>3
    <3>1. CASE a \in DOMAIN actors
      BY <1>0, <1>1, <1>2, <2>3, <3>0, <3>1, ListedNow DEF Control
    <3>2. CASE a \notin DOMAIN actors
      <4>1. req[p].as \in frayed
        BY <2>3, <3>0, <3>2 DEF RowsInv, Owned
      <4> QED
        BY <1>2, <3>2, <4>1 DEF Met, Excused, Troubled
    <3> QED
      BY <3>1, <3>2
  <2> QED
    BY <2>1, <2>2, <2>3 DEF keyExpired
<1> QED
  BY <1>0, <1>1, <1>3, <1>4, <1>5 DEF SignedFor

LEMMA SignedForStays ==
    ASSUME NEW p \in Procs, req'[p] = req[p], near[p] \subseteq near'[p], frayed \subseteq frayed',
           valid[p] \subseteq valid'[p], SignedFor(p, loc[p].who), loc'[p].who = loc[p].who
    PROVE  SignedFor(p, loc[p].who)'
<1>1. Excused(p) => Excused(p)'
  BY ExcuseStays
<1> QED
  BY <1>1, Zenon DEF SignedFor

LEMMA VouchedOwn ==
    ASSUME Control, Control', RowsInv, NEW p \in Procs, Effect(p), Holding(p), Vouched(p), Heard(p)',
           pc'[p] # "idle" => valid[p] \subseteq valid'[p]
    PROVE  Vouched(p)'
<1>0. req' = req /\ near' = near /\ frayed' = frayed
  BY EffectMoves DEF Moves
<1>1. ASSUME pc'[p] \in {"auth", "keys"}
      PROVE  loc'[p].who = NoOne
  BY <1>1, Awaiting DEF Vouched, SameWho
<1>2. ASSUME pc'[p] \notin {"idle", "auth", "keys"}
      PROVE  SignedFor(p, loc[p].who)'
  <2>1. valid[p] \subseteq valid'[p]
    BY <1>2
  <2>2. CASE Knows(p)
    BY <2>1, <2>2, KnowsSigner
  <2>3. CASE pc[p] \notin {"idle", "auth", "keys"} /\ SameWho(p)
    BY <1>0, <2>1, <2>3, SignedForStays DEF Vouched, SameWho
  <2> QED
    BY <1>2, <2>2, <2>3, Acting
<1> QED
  BY <1>1, <1>2 DEF Vouched

LEMMA ClearedStep ==
    ASSUME Control, NEW q \in Procs, Effect(q), NEW p \in Procs, Cleared(p)
    PROVE  Cleared(p)'
<1>0. req' = req /\ frayed' = frayed /\ Target(p)' = Target(p) /\ Stage(p)
  BY EffectMoves DEF Moves, Target, Control
<1> SUFFICES ASSUME pc'[p] \in {"setPub", "setNewPub"}, req[p].op = "deleteKey", req[p].name \notin frayed
             PROVE  Default(Target(p)) \notin DOMAIN rows'
  BY <1>0 DEF Cleared
<1>1. CASE p = q
  <2>1. DeletesKey(p)
    BY <1>0, <1>1, Arriving DEF AddsKey, PutsKey, RenamesFrom, Stage, RenameSteps
  <2>2. req[p].key = "default" /\ rows' = Less(rows, {Row(p)})
    BY <2>1 DEF DeletesKey
  <2> QED
    BY <2>2 DEF Less, Row, Default
<1>2. CASE p # q
  <2>1. pc[p] \in {"setPub", "setNewPub"}
    BY <1>2, EffectMoves DEF Moves
  <2>2. Target(p) # Target(q) \/ UNCHANGED <<actors, rows>>
    BY <1>2, <2>1, Undisturbed DEF KeyWrites
  <2>3. PICK a, k : a = Target(p) /\ k = Default(a)
    OBVIOUS
  <2>4. <<k[1], k[2]>> = a
    BY <2>3 DEF Default, KeyRow, Target
  <2>5. k \notin DOMAIN rows
    BY <2>1, <2>3 DEF Cleared
  <2>6. k \in DOMAIN rows' <=> k \in DOMAIN rows
    BY <2>2, <2>3, <2>4, Elsewhere
  <2> QED
    BY <2>3, <2>5, <2>6
<1> QED
  BY <1>1, <1>2

\* A request that is not the one that moves, when nothing is stored.
LEMMA SigningQuiet ==
    ASSUME NEW p \in Procs, SameStore, frayed \subseteq frayed',
           pc'[p] = pc[p], loc'[p] = loc[p], req'[p] = req[p],
           pc[p] # "idle" => near[p] \subseteq near'[p] /\ valid[p] \subseteq valid'[p],
           Cleared(p), Holding(p), Vouched(p)
    PROVE  Cleared(p)' /\ Holding(p)' /\ Vouched(p)'
<1>0. actors' = actors /\ rows' = rows
  BY DEF SameStore
<1>1. Cleared(p)'
  <2>1. Target(p)' = Target(p)
    BY DEF Target
  <2> QED
    BY <1>0, <2>1 DEF Cleared
<1>2. ASSUME pc[p] = "keys"
      PROVE  Holding(p)'
  <2>1. PICK a, pub : a = <<loc[p].seg, req[p].as>> /\ pub = loc[p].rec.pub
    OBVIOUS
  <2>2. /\ loc[p].seg \in Segs
        /\ Met(p) \/ a \in DOMAIN actors
        /\ Backed(p, a, pub)
    BY <1>2, <2>1 DEF Holding
  <2>3. /\ Excused(p) => Excused(p)'
        /\ Met(p) => Met(p)'
        /\ Rotated(p) => Rotated(p)'
    BY <1>2, ExcuseStays
  <2>4. Backed(p, a, pub)'
    BY <1>0, <1>2, <2>2, <2>3 DEF Backed
  <2> QED
    BY <1>0, <2>1, <2>2, <2>3, <2>4 DEF Holding
<1>3. Vouched(p)'
  BY SignedForStays DEF Vouched
<1> QED
  BY <1>1, <1>2, <1>3 DEF Holding

LEMMA SigningNext ==
    ASSUME Control, Control', RowsInv, SigningInv, [Next]_vars
    PROVE  SigningInv'
<1>1. \A p \in Procs : /\ Heard(p)'
                       /\ pc[p] # "idle" /\ pc'[p] # "idle" => valid[p] \subseteq valid'[p]
  BY Tracking DEF SigningInv
<1>2. ASSUME NEW q \in Procs, Effect(q), NEW p \in Procs
      PROVE  Cleared(p)' /\ Holding(p)' /\ Vouched(p)'
  <2>0. /\ Moves(q) /\ pc[q] # "idle"
        /\ \A x \in Procs : Cleared(x) /\ Holding(x) /\ Vouched(x)
    BY <1>2, EffectMoves DEF Moves, SigningInv
  <2>1. Cleared(p)'
    BY <1>2, <2>0, ClearedStep
  <2>2. CASE p = q
    BY <1>1, <1>2, <2>0, <2>1, <2>2, HoldingOwn, VouchedOwn
  <2>3. CASE p # q
    <3>1. pc'[p] = pc[p] /\ loc'[p] = loc[p] /\ req' = req /\ near' = near /\ frayed' = frayed
      BY <2>0, <2>3 DEF Moves
    <3>2. Holding(p)'
      BY <1>1, <1>2, <2>0, <2>3, <3>1, HoldingOther DEF Holding
    <3>3. Vouched(p)'
      BY <1>1, <2>0, <3>1, SignedForStays DEF Vouched
    <3> QED
      BY <2>1, <3>2, <3>3
  <2> QED
    BY <2>2, <2>3
<1>3. ASSUME NEW q \in Procs, Begin(q), NEW p \in Procs
      PROVE  Cleared(p)' /\ Holding(p)' /\ Vouched(p)'
  <2>0. Begins(q)
    BY <1>3, BeginEffect
  <2>1. CASE p = q
    <3>1. pc'[p] = "auth" /\ loc'[p].who = NoOne
      BY <2>0, <2>1 DEF Begins, NoLocals
    <3> QED
      BY <3>1 DEF Cleared, Holding, Vouched
  <2>2. CASE p # q
    <3>1. /\ SameStore /\ frayed \subseteq frayed'
          /\ pc'[p] = pc[p] /\ loc'[p] = loc[p] /\ req'[p] = req[p]
          /\ pc[p] # "idle" => near[p] \subseteq near'[p]
      BY <2>0, <2>2 DEF Begins, Busy
    <3> QED
      BY <1>1, <3>1, SigningQuiet DEF SigningInv
  <2> QED
    BY <2>1, <2>2
<1>4. ASSUME UNCHANGED vars, NEW p \in Procs
      PROVE  Cleared(p)' /\ Holding(p)' /\ Vouched(p)'
  <2>1. /\ SameStore /\ frayed' = frayed /\ near' = near /\ valid' = valid
        /\ pc'[p] = pc[p] /\ loc'[p] = loc[p] /\ req'[p] = req[p]
    BY <1>4 DEF vars, SameStore
  <2> QED
    BY <2>1, SigningQuiet DEF SigningInv
<1> QED
  BY <1>1, <1>2, <1>3, <1>4, Stepping DEF SigningInv

LEMMA SigningInit == Init => SigningInv
BY DEF Init, SigningInv, Heard, Cleared, Holding, Vouched

\* A request runs as an actor only if it was signed with a key that the keys API
\* listed as unexpired for that actor at some moment of the request, although
\* resolveAuth reads the record and the key rows one after the other; or if the
\* web console signed it; or if other writes to the actor overlapped it, one that
\* rotates the default key and one that takes the new row away, or one of several
\* that overlapped each other (SigningKeys: "the single definition of that set").
THEOREM SignersAreListed == Spec => []KeysAuthenticate
<1>1. ASSUME SigningInv
      PROVE  KeysAuthenticate
  <2> SUFFICES ASSUME NEW p \in Busy, loc[p].who # NoOne
               PROVE  SignedFor(p, loc[p].who)
    BY DEF KeysAuthenticate, SignedFor, Excused
  <2> QED
    BY <1>1 DEF SigningInv, Vouched, Busy
<1>2. Control /\ Control' /\ RowsInv /\ SigningInv /\ [Next]_vars => SigningInv'
  BY SigningNext
<1> QED
  BY <1>1, <1>2, SigningInit, Base, Rows, PTL DEF Spec

=============================================================================
