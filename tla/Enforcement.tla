---------------------------- MODULE Enforcement -----------------------------
(***************************************************************************)
(* What a request needs: the mapping from method and path to the permission *)
(* it requires (classifyRequest), the ACLs objects have before any is       *)
(* stored, and how an entry of an ACL is read.  A path is the sequence of   *)
(* its segments.                                                            *)
(***************************************************************************)
EXTENDS Integers, Sequences

aclPerms == {"create", "read", "update", "delete", "grant"}
Crud     == {"create", "read", "update", "delete"}

ACE(actors, groups) == [actors |-> actors, groups |-> groups]
ACLs(Actors, Groups) == [aclPerms -> [actors : SUBSET Actors, groups : SUBSET Groups]]

-----------------------------------------------------------------------------
(* ACLs that are not stored.                                                *)

\* policyACL: from what each group is granted.
policyACL(grants) ==
    [perm \in aclPerms |-> ACE({}, {g \in DOMAIN grants : perm \in grants[g]})]

defaultACL == policyACL([admins |-> aclPerms, users |-> Crud, clients |-> {"read"}])

containerUserPerms(name) ==
    CASE name = "clients" -> {"read", "delete"}
      [] name = "groups"  -> {"read"}
      [] name = "sandboxes" -> {"create"}
      [] name \in {"cookbooks", "data", "nodes", "roles", "environments", "policies",
                   "policy_groups", "cookbook_artifacts"} -> Crud
      [] OTHER -> {"read"}        \* containers, and any container made later

containerClientPerms(name) ==
    CASE name = "nodes" -> {"create", "read"}
      [] name \in {"policies", "policy_groups", "cookbook_artifacts", "data", "cookbooks",
                   "environments", "roles"} -> {"read"}
      [] OTHER -> {}

containerACL(name) == policyACL([admins |-> aclPerms, users |-> containerUserPerms(name),
                                 clients |-> containerClientPerms(name)])

groupACL(name) ==
    CASE name \in {"admins", "clients", "users"} -> policyACL([admins |-> aclPerms])
      [] name = "billing-admins" -> [perm \in aclPerms |->
             ACE({}, IF perm \in {"read", "update"} THEN {"billing-admins"} ELSE {})]
      [] name = "public_key_read_access" -> policyACL([admins |-> {"read", "update"}])
      [] OTHER -> containerACL("groups")

orgACL == policyACL([admins |-> aclPerms, users |-> {"read"}])

fallbackACL(typ, name) ==
    CASE typ = "organizations" -> orgACL
      [] typ = "containers"    -> containerACL(name)
      [] typ = "groups"        -> groupACL(name)
      [] OTHER                 -> defaultACL

\* writeCreatorACL and validatorClientsACL.
creatorACL(creator) == [perm \in aclPerms |-> [defaultACL[perm] EXCEPT !.actors = @ \cup {creator}]]
validatorClientsACL(v) == [containerACL("clients") EXCEPT !["create"].actors = {v}]

\* aceAllows, for an actor in the given groups.
aceAllows(ace, name, groups) == name \in ace.actors \/ ace.groups \cap groups # {}

-----------------------------------------------------------------------------
(* Classification.                                                          *)

Unclassified == [kind |-> "none"]
Superuser    == [kind |-> "superuser", self |-> ""]
SelfOr(name) == [kind |-> "superuser", self |-> name]
Needs(typ, name, perm) ==
    [kind |-> "acl", typ |-> typ, name |-> name, perm |-> perm, self |-> "", exist |-> <<>>,
     global |-> FALSE]
After(c, exist) == [c EXCEPT !.exist = exist]       \* a 404 comes first
UserACL(name) == [After(Needs("users", name, "grant"), <<"acl", "users", name>>) EXCEPT !.global = TRUE]

Reading(method) == method \in {"GET", "HEAD"}

itemPerm(method) ==
    CASE Reading(method)   -> "read"
      [] method = "PUT"    -> "update"
      [] method = "DELETE" -> "delete"
      [] OTHER             -> ""

NeedsItem(method, typ, name) ==
    IF itemPerm(method) = "" THEN Unclassified ELSE Needs(typ, name, itemPerm(method))

enforceSegs   == {"nodes", "roles", "environments", "clients", "groups", "containers",
                  "policies", "policy_groups"}
existenceSegs == enforceSegs \ {"policies", "policy_groups"}

classifyUsers(method, rest) ==
    CASE rest = <<>> -> IF Reading(method) \/ method = "POST" THEN Superuser ELSE Unclassified
      [] Len(rest) = 1 -> IF itemPerm(method) # "" THEN SelfOr(rest[1]) ELSE Unclassified
      [] OTHER ->
           CASE rest[2] = "_acl" -> UserACL(rest[1])
             [] rest[2] = "keys" -> IF method = "POST" \/ itemPerm(method) # ""
                                    THEN SelfOr(rest[1]) ELSE Unclassified
             [] OTHER -> Unclassified

classifySubResource(method, seg, rest) ==
    LET name == rest[2]  sub == rest[3]
        perm == CASE Reading(method) -> "read"
                  [] seg = "policies" /\ sub = "revisions" /\ method = "DELETE" -> "delete"
                  [] OTHER -> "update"
    IN IF Len(rest) >= 3 /\ (sub = "keys" \/ <<seg, sub>> \in {<<"policies", "revisions">>,
                                                              <<"policy_groups", "policies">>})
       THEN Needs(seg, name, perm) ELSE Unclassified

\* The container governs the collection, an object's ACL its own routes.
classifyGeneric(method, seg, rest) ==
    CASE Len(rest) = 1 /\ Reading(method)   -> Needs("containers", seg, "read")
      [] Len(rest) = 1 /\ method = "POST"   -> Needs("containers", seg, "create")
      [] Len(rest) = 2 -> LET c == NeedsItem(method, seg, rest[2])
                          IN IF c # Unclassified /\ seg \in existenceSegs
                             THEN After(c, <<"coll", seg, rest[2]>>) ELSE c
      [] Len(rest) > 2 -> classifySubResource(method, seg, rest)
      [] OTHER -> Unclassified

\* One ACL governs all versions.  A name that begins with "_" goes with the
\* collection; _latest and _recipes, the two that have an endpoint, stand for it.
classifyCookbook(method, seg, rest) ==
    CASE Len(rest) <= 2 /\ Reading(method) ->
           IF Len(rest) = 1 \/ rest[2] \in {"_latest", "_recipes"}
           THEN Needs("containers", seg, "read") ELSE Needs(seg, rest[2], "read")
      [] Len(rest) = 3 -> NeedsItem(method, seg, rest[2])
      [] OTHER -> Unclassified

classifyDataBag(method, rest) ==
    LET perm == CASE Reading(method) -> "read"
                  [] Len(rest) = 2 /\ method = "POST"   -> "update"
                  [] Len(rest) = 2 /\ method = "DELETE" -> "delete"
                  [] Len(rest) = 3 /\ method \in {"PUT", "DELETE"} -> "update"
                  [] OTHER -> ""
    IN CASE Len(rest) = 1 -> IF Reading(method) THEN Needs("containers", "data", "read")
                             ELSE IF method = "POST" THEN Needs("containers", "data", "create")
                             ELSE Unclassified
         [] Len(rest) \in {2, 3} /\ perm # "" ->
              After(Needs("data", rest[2], perm), <<"coll", "data_bags", rest[2]>>)
         [] OTHER -> Unclassified

classifyOrgMembership(method, org, rest) ==
    LET c == Needs("organizations", org, "update")
    IN CASE method \notin {"POST", "PUT", "DELETE"} \/ Len(rest) > 2 -> Unclassified
         [] rest = <<"users">> /\ method = "POST" -> Superuser
         [] rest[1] = "users" /\ Len(rest) = 2 /\ method = "DELETE" ->
              [After(c, <<"coll", "association", rest[2]>>) EXCEPT !.self = rest[2]]
         [] OTHER -> c

classifyRequest(method, path) ==
    LET org == path[2]
        rest == SubSeq(path, 3, Len(path))
        acl == {i \in DOMAIN rest : rest[i] = "_acl"}
        first == CHOOSE i \in acl : \A j \in acl : i <= j
    IN CASE path[1] = "users" -> classifyUsers(method, Tail(path))
         [] path = <<"organizations">> -> IF method = "POST" THEN Superuser ELSE Unclassified
         [] path[1] \notin {"users", "organizations"} -> Unclassified
         [] path[1] = "organizations" /\ Len(path) >= 2 /\ acl # {} ->
              CASE first = 2 /\ rest[1] = "organizations" -> Needs("organizations", org, "grant")
                [] first = 3 -> After(Needs(rest[1], rest[2], "grant"), <<"acl", rest[1], rest[2]>>)
                [] OTHER -> Unclassified
         [] path[1] = "organizations" /\ Len(path) = 2 ->
              IF method \in {"PUT", "DELETE"} THEN Superuser ELSE NeedsItem(method, "organizations", org)
         [] OTHER ->
              CASE rest[1] = "data" -> classifyDataBag(method, rest)
                [] rest[1] \in {"cookbooks", "cookbook_artifacts"} -> classifyCookbook(method, rest[1], rest)
                [] rest[1] \in {"users", "association_requests"} -> classifyOrgMembership(method, org, rest)
                [] rest[1] \in enforceSegs -> classifyGeneric(method, rest[1], rest)
                [] OTHER -> Unclassified

\* openWrites: writes that are deliberately left without an ACL check.
openWrite(method, path) ==
    \/ method = "POST" /\ path = <<"authenticate_user">>
    \/ /\ path[1] = "organizations" /\ Len(path) >= 3
       /\ \/ method = "POST" /\ path[3] = "sandboxes" /\ Len(path) = 3
          \/ method = "PUT"  /\ path[3] \in {"sandboxes", "file_store"}
          \/ method = "POST" /\ path[3] \in {"search", "environments"}
    \/ method = "PUT" /\ path[1] = "users" /\ Len(path) >= 3 /\ path[3] = "association_requests"

\* refuseUnclassifiedWrite, for a request that matches a registered route.
refuseUnclassifiedWrite(method, path) ==
    method \in {"POST", "PUT", "DELETE", "PATCH"} /\ ~openWrite(method, path)

=============================================================================
