----------------------------- MODULE Membership -----------------------------
(***************************************************************************)
(* Group membership of one organization, and the authorization index that  *)
(* is derived from it.                                                      *)
(*                                                                          *)
(* A group's members are recorded twice: in the group's document (listed)   *)
(* and, for members added one at a time, in rows of their own (rows).  Both *)
(* are inverted lazily into an in-memory index that every authorization     *)
(* check reads.  Document writes invalidate the index through a generation  *)
(* counter; row writes patch it, or drop it, through the store's write      *)
(* stream.                                                                  *)
(*                                                                          *)
(* Requests are handled by goroutines (Procs) that interleave at every      *)
(* access to the store.  API.membership, a sync.RWMutex, orders them: what  *)
(* adds one member holds it shared, what revokes or rewrites membership     *)
(* holds it exclusively.                                                    *)
(*                                                                          *)
(* A write to the store is two steps: it lands, and it is then reported     *)
(* (store.Org.note) on the goroutine that made it.  ev[p] is the report     *)
(* that p still owes.  ACLs, keys and passwords are other collections and   *)
(* are not part of this module's state.                                     *)
(***************************************************************************)
EXTENDS Naturals

CONSTANTS
    Procs,          \* goroutines serving requests
    Clients,        \* client names of the organization
    Users,          \* global user names
    Groups,         \* group names
    ClientsGroup,   \* the group a registered client joins
    UsersGroup,     \* the group an associated user joins
    AdminsGroup,    \* the group whose members may not be dissociated
    Bodies,         \* the member sets a group's request body may name
    KindSets,       \* the sets of member kinds a group update may replace
    Ops,            \* the operations a run exercises
    SeedActors,     \* actors that exist at the start
    SeedAssoc,      \* users associated with the organization at the start
    SeedDocs,       \* the memberships the group documents may declare at the start
    MaxRequests,    \* bound: requests served in a behaviour
    NoProc          \* "nobody" (the index lock is free)

Actors  == Clients \cup Users
Members == Actors \cup Groups
Pairs   == Groups \X Members
Kinds   == {"users", "clients", "groups"}

AllOps == {"createActor", "deleteActor", "associate", "disassociate",
           "invite", "rescind", "respond",
           "createGroup", "putGroup", "deleteGroup", "check"}

ASSUME NamesDisjoint ==
    /\ Clients \cap Users = {}
    /\ Actors \cap Groups = {}

ASSUME ConstantTypes ==
    /\ ClientsGroup \in Groups /\ UsersGroup \in Groups /\ AdminsGroup \in Groups
    /\ Bodies \subseteq SUBSET Members
    /\ KindSets \subseteq SUBSET Kinds
    /\ Ops \subseteq AllOps
    /\ SeedActors \subseteq Actors
    /\ SeedAssoc \subseteq SeedActors \cap Users
    /\ SeedDocs \subseteq SUBSET Pairs
    /\ MaxRequests \in Nat
    /\ NoProc \notin Procs

VARIABLES
    actors,     \* clients and users that exist
    assoc,      \* users associated with the organization
    invites,    \* users with a pending invitation
    groups,     \* groups that have a document
    listed,     \* <<g, m>>: g's document lists m
    rows,       \* <<g, a>>: an incremental membership row
    gen,        \* the store's groups generation
    cached,     \* an index is installed in the cache
    idx,        \* the installed index: generation and inverted membership
    cmu,        \* holder of the cache's lock while it builds an index
    build,      \* the index under construction by cmu
    pc,         \* where each goroutine is in its handler
    req,        \* the request it serves
    holds,      \* how it holds API.membership
    ev,         \* the write it has landed and not yet reported
    held,       \* the index a check has got hold of
    served,     \* requests started so far
    may, must, ever \* history: see below

store == <<actors, assoc, invites, groups, listed, rows>>
cache == <<cached, idx, cmu, build>>
vars  == <<actors, assoc, invites, groups, listed, rows, gen, cached, idx,
           cmu, build, pc, req, holds, ev, held, served, may, must, ever>>

\* A group's effective membership is the union of its document and its rows.
Effective == listed \cup rows

\* What an observer that trails the unreported writes may still believe, and
\* what even such an observer has been told.
MayHold  == Effective \cup UNION {ev[p].out : p \in Procs}
MustHold == Effective \ UNION {ev[p].in : p \in Procs}

Kind(m) == IF m \in Users THEN "users"
           ELSE IF m \in Clients THEN "clients" ELSE "groups"

\* groupIndex.membership: the groups an actor is in, nesting followed
\* transitively, i.e. the least set closed under "lists a group we are in".
GroupsOf(mem, a) ==
    {g \in Groups : \A S \in SUBSET Groups :
        (\A h \in Groups : (<<h, a>> \in mem \/ \E k \in S : <<h, k>> \in mem)
                              => h \in S)
        => g \in S}

NoEvent  == [t |-> "none", add |-> {}, in |-> {}, out |-> {}]
NoIndex  == [gen |-> 0, mem |-> {}]
NoHeld   == [gen |-> 0, mem |-> {}, live |-> FALSE]
Request(o, x, b) == [op |-> o, on |-> x, body |-> b, kinds |-> {}, pre |-> FALSE]
NoReq    == Request("check", UsersGroup, {})

-----------------------------------------------------------------------------
(* Initial state: a freshly seeded organization (seedAuthz), with whatever  *)
(* actors, associations and hand-written group documents the state          *)
(* directory declares.                                                      *)

Init ==
    /\ actors = SeedActors
    /\ assoc = SeedAssoc
    /\ invites = {}
    /\ groups = Groups
    /\ listed \in SeedDocs
    /\ rows = {UsersGroup} \X SeedAssoc
    /\ gen = 0
    /\ cached = FALSE
    /\ idx = NoIndex
    /\ cmu = NoProc
    /\ build = NoIndex
    /\ pc = [p \in Procs |-> "idle"]
    /\ req = [p \in Procs |-> NoReq]
    /\ holds = [p \in Procs |-> "none"]
    /\ ev = [p \in Procs |-> NoEvent]
    /\ held = [p \in Procs |-> NoHeld]
    /\ served = 0
    /\ may = [p \in Procs |-> {}]
    /\ must = [p \in Procs |-> {}]
    /\ ever = [p \in Procs |-> {}]

-----------------------------------------------------------------------------
(* Plumbing shared by the handlers.                                         *)

\* p is about to execute the step l, its last store call having returned.
At(p, l) == pc[p] = l /\ ev[p].t = "none"

Goto(p, l) == pc' = [pc EXCEPT ![p] = l]

\* A request arrives.
Begin(p, r, l) ==
    /\ pc[p] = "idle"
    /\ r.op \in Ops
    /\ served < MaxRequests
    /\ served' = served + 1
    /\ req' = [req EXCEPT ![p] = r]
    /\ Goto(p, l)
    /\ UNCHANGED <<store, gen, cache, holds, ev, held>>

\* The handler returns; its deferred unlocks run.
Finish(p) ==
    /\ Goto(p, "idle")
    /\ req' = [req EXCEPT ![p] = NoReq]
    /\ holds' = [holds EXCEPT ![p] = "none"]
    /\ held' = [held EXCEPT ![p] = NoHeld]

\* A write by p to the groups or group_members collection has landed and has
\* to be reported.  in and out record what it changed in the effective
\* membership; add is the row an observer is told of.
Land(p, t, add) ==
    ev' = [ev EXCEPT ![p] = [t |-> t, add |-> add,
                             in |-> Effective' \ Effective,
                             out |-> Effective \ Effective']]

\* sync.RWMutex: a waiting writer keeps new readers out.
RLock(p) ==
    /\ pc[p] = "rlock"
    /\ \A q \in Procs : holds[q] # "exclusive" /\ pc[q] # "lock"
    /\ holds' = [holds EXCEPT ![p] = "shared"]
    /\ Goto(p, CASE req[p].op = "createActor" -> "create"
                 [] req[p].op = "associate"   -> "findUser"
                 [] OTHER                     -> "findInvite")
    /\ UNCHANGED <<store, gen, cache, req, ev, held, served>>

\* Mutant: writers do not exclude each other.
LockReadersOnly(p) ==
    /\ pc[p] = "lock"
    /\ \A q \in Procs : holds[q] # "shared"
    /\ holds' = [holds EXCEPT ![p] = "exclusive"]
    /\ Goto(p, CASE req[p].op = "createGroup" -> "rows"
                 [] req[p].op = "putGroup"    -> "recheck"
                 [] OTHER                     -> "lookup")
    /\ UNCHANGED <<store, gen, cache, req, ev, held, served>>

Lock(p) ==
    /\ pc[p] = "lock"
    /\ \A q \in Procs : holds[q] = "none"
    /\ holds' = [holds EXCEPT ![p] = "exclusive"]
    /\ Goto(p, CASE req[p].op = "createGroup" -> "rows"
                 [] req[p].op = "putGroup"    -> "recheck"
                 [] OTHER                     -> "lookup")
    /\ UNCHANGED <<store, gen, cache, req, ev, held, served>>

-----------------------------------------------------------------------------
(* The write stream: reporting a landed write (store.Org.note).             *)

\* noteWrite: a write to the groups collection advances the generation, after
\* it has landed.
NoteDoc(p) ==
    /\ ev[p].t = "doc"
    /\ gen' = gen + 1
    /\ ev' = [ev EXCEPT ![p] = NoEvent]
    /\ UNCHANGED <<store, cache, pc, req, holds, held, served>>

\* groupIndexCache.observe of a new row: patched in place into the installed
\* index, so whoever already holds that index sees it too.
NotePut(p) ==
    /\ ev[p].t = "put"
    /\ cmu = NoProc
    /\ idx' = IF cached THEN [idx EXCEPT !.mem = @ \cup ev[p].add] ELSE idx
    /\ held' = [q \in Procs |->
                  IF held[q].live
                  THEN [held[q] EXCEPT !.mem = @ \cup ev[p].add] ELSE held[q]]
    /\ ev' = [ev EXCEPT ![p] = NoEvent]
    /\ UNCHANGED <<store, gen, cached, cmu, build, pc, req, holds, served>>

\* Mutant: a removed row leaves the index alone.
NoteDelIgnored(p) ==
    /\ ev[p].t = "del"
    /\ ev' = [ev EXCEPT ![p] = NoEvent]
    /\ UNCHANGED <<store, gen, cache, pc, req, holds, held, served>>

\* groupIndexCache.observe of a removed row: the index is dropped.
NoteDel(p) ==
    /\ ev[p].t = "del"
    /\ cmu = NoProc
    /\ cached' = FALSE
    /\ idx' = NoIndex
    /\ held' = [q \in Procs |-> [held[q] EXCEPT !.live = FALSE]]
    /\ ev' = [ev EXCEPT ![p] = NoEvent]
    /\ UNCHANGED <<store, gen, cmu, build, pc, req, holds, served>>

Note(p) == NoteDoc(p) \/ NotePut(p) \/ NoteDel(p)

-----------------------------------------------------------------------------
(* groupIndexCache.get, called by every check and by disassociateUser.      *)

Check(p) == \E a \in Actors : Begin(p, Request("check", a, {}), "getRead")

\* Read the installed index under the cache's read lock...
GetRead(p) ==
    /\ At(p, "getRead")
    /\ cmu = NoProc
    /\ held' = [held EXCEPT ![p] =
                  IF cached THEN [gen |-> idx.gen, mem |-> idx.mem, live |-> TRUE]
                  ELSE NoHeld]
    /\ Goto(p, IF cached THEN "getFresh" ELSE "getLock")
    /\ UNCHANGED <<store, gen, cache, req, holds, ev, served>>

\* ... and, having released it, use that index if its generation is current.
GetFresh(p) ==
    /\ At(p, "getFresh")
    /\ \/ /\ held[p].gen = gen
          /\ Goto(p, "use")
          /\ UNCHANGED held
       \/ /\ held[p].gen # gen
          /\ Goto(p, "getLock")
          /\ held' = [held EXCEPT ![p] = NoHeld]
    /\ UNCHANGED <<store, gen, cache, req, holds, ev, served>>

\* Take the cache's lock; use an index rebuilt meanwhile, or sample the
\* generation and start building.
GetLock(p) ==
    /\ At(p, "getLock")
    /\ cmu = NoProc
    /\ \/ /\ cached /\ idx.gen = gen
          /\ held' = [held EXCEPT ![p] = [gen |-> idx.gen, mem |-> idx.mem,
                                          live |-> TRUE]]
          /\ Goto(p, "use")
          /\ UNCHANGED <<cmu, build>>
       \/ /\ ~(cached /\ idx.gen = gen)
          /\ cmu' = p
          /\ build' = [gen |-> gen, mem |-> {}]
          /\ Goto(p, "rangeDocs")
          /\ UNCHANGED held
    /\ UNCHANGED <<store, gen, cached, idx, req, holds, ev, served>>

RangeDocs(p) ==
    /\ At(p, "rangeDocs")
    /\ build' = [build EXCEPT !.mem = listed]
    /\ Goto(p, "rangeRows")
    /\ UNCHANGED <<store, gen, cached, idx, cmu, req, holds, ev, held, served>>

\* Mutant: the index is stamped with the generation at the end of the build.
RangeRowsLateStamp(p) ==
    LET built == [gen |-> gen, mem |-> build.mem \cup rows] IN
    /\ At(p, "rangeRows")
    /\ idx' = built
    /\ cached' = TRUE
    /\ held' = [q \in Procs |->
                  IF q = p THEN [gen |-> built.gen, mem |-> built.mem, live |-> TRUE]
                  ELSE [held[q] EXCEPT !.live = FALSE]]
    /\ cmu' = NoProc
    /\ build' = NoIndex
    /\ Goto(p, "use")
    /\ UNCHANGED <<store, gen, req, holds, ev, served>>

\* Fold the rows in, install the index and release the cache's lock.  What was
\* built is used for this request whether or not it is still current.
RangeRows(p) ==
    LET built == [build EXCEPT !.mem = @ \cup rows] IN
    /\ At(p, "rangeRows")
    /\ idx' = built
    /\ cached' = TRUE
    /\ held' = [q \in Procs |->
                  IF q = p THEN [gen |-> built.gen, mem |-> built.mem, live |-> TRUE]
                  ELSE [held[q] EXCEPT !.live = FALSE]]
    /\ cmu' = NoProc
    /\ build' = NoIndex
    /\ Goto(p, "use")
    /\ UNCHANGED <<store, gen, req, holds, ev, served>>

\* Mutant: a dissociation looks at direct membership of admins only.
UseIndexDirect(p) ==
    /\ At(p, "use")
    /\ \/ /\ \/ req[p].op = "check"
             \/ <<AdminsGroup, req[p].on>> \in held[p].mem
          /\ Finish(p)
       \/ /\ req[p].op = "disassociate"
          /\ <<AdminsGroup, req[p].on>> \notin held[p].mem
          /\ Goto(p, "delAssoc")
          /\ held' = [held EXCEPT ![p] = NoHeld]
          /\ UNCHANGED <<req, holds>>
    /\ UNCHANGED <<store, gen, cache, ev, served>>

\* The caller expands the membership and acts on it.  A check answers; a
\* dissociation is refused if the user is, transitively, an admin.
UseIndex(p) ==
    /\ At(p, "use")
    /\ \/ /\ \/ req[p].op = "check"
             \/ AdminsGroup \in GroupsOf(held[p].mem, req[p].on)
          /\ Finish(p)
       \/ /\ req[p].op = "disassociate"
          /\ AdminsGroup \notin GroupsOf(held[p].mem, req[p].on)
          /\ Goto(p, "delAssoc")
          /\ held' = [held EXCEPT ![p] = NoHeld]
          /\ UNCHANGED <<req, holds>>
    /\ UNCHANGED <<store, gen, cache, ev, served>>

-----------------------------------------------------------------------------
(* Adding one member: API.membership is held shared.                        *)

CreateActor(p) ==
    \E a \in Actors :
        Begin(p, Request("createActor", a, {}), "rlock")

AssociateUser(p) ==
    \E u \in Users :
        Begin(p, Request("associate", u, {}), "rlock")

RespondInvite(p) ==
    \E u \in Users :
        Begin(p, Request("respond", u, {}), "rlock")

\* Mutant: the lock is released between the client and its row.
CreateThenUnlock(p) ==
    /\ At(p, "create")
    /\ actors' = actors \cup {req[p].on}
    /\ \/ Finish(p)
       \/ /\ req[p].on \in Clients \ actors
          /\ Goto(p, "addMember")
          /\ holds' = [holds EXCEPT ![p] = "none"]
          /\ UNCHANGED <<req, held>>
    /\ UNCHANGED <<assoc, invites, groups, listed, rows, gen, cache, ev, served>>

\* org.Create of the actor; a client other than a validator goes on to join
\* the clients group.
Create(p) ==
    /\ At(p, "create")
    /\ actors' = actors \cup {req[p].on}
    /\ \/ Finish(p)        \* conflict, a user, or a validator
       \/ /\ req[p].on \in Clients \ actors
          /\ Goto(p, "addMember")
          /\ UNCHANGED <<req, holds, held>>
    /\ UNCHANGED <<assoc, invites, groups, listed, rows, gen, cache, ev, served>>

\* associateUser: the user must exist...
FindUser(p) ==
    /\ At(p, "findUser")
    /\ \/ req[p].on \in actors /\ Goto(p, "findAssoc") /\ UNCHANGED <<req, holds, held>>
       \/ req[p].on \notin actors /\ Finish(p)
    /\ UNCHANGED <<store, gen, cache, ev, served>>

\* ... and not be associated yet.
FindAssoc(p) ==
    /\ At(p, "findAssoc")
    /\ \/ req[p].on \notin assoc /\ Goto(p, "putAssoc") /\ UNCHANGED <<req, holds, held>>
       \/ req[p].on \in assoc /\ Finish(p)
    /\ UNCHANGED <<store, gen, cache, ev, served>>

\* respondInvite: the invitation must exist.
FindInvite(p) ==
    /\ At(p, "findInvite")
    /\ \/ req[p].on \in invites /\ Goto(p, "consumeInvite") /\ UNCHANGED <<req, holds, held>>
       \/ req[p].on \notin invites /\ Finish(p)
    /\ UNCHANGED <<store, gen, cache, ev, served>>

\* The response (accept or reject) and the inviter's authority decide: refuse
\* and keep the invitation, reject and consume it, or consume it and join.
ConsumeInvite(p) ==
    /\ At(p, "consumeInvite")
    /\ \/ /\ Finish(p)
          /\ invites' \in {invites, invites \ {req[p].on}}
       \/ /\ Goto(p, "putAssoc")
          /\ invites' = invites \ {req[p].on}
          /\ UNCHANGED <<req, holds, held>>
    /\ UNCHANGED <<actors, assoc, groups, listed, rows, gen, cache, ev, served>>

PutAssoc(p) ==
    /\ At(p, "putAssoc")
    /\ assoc' = assoc \cup {req[p].on}
    /\ Goto(p, "addMember")
    /\ UNCHANGED <<actors, invites, groups, listed, rows, gen, cache, req, holds,
                   ev, held, served>>

\* Mutant: the row's key has group and actor the wrong way round.
AddMemberSwapped(p) ==
    LET g   == IF req[p].on \in Clients THEN ClientsGroup ELSE UsersGroup
        row == <<req[p].on, g>>
    IN  /\ At(p, "addMember")
        /\ rows' = rows \cup {row}
        /\ UNCHANGED <<actors, assoc, invites, groups, listed>>
        /\ Land(p, "put", {row})
        /\ Goto(p, "done")
        /\ UNCHANGED <<gen, cache, req, holds, held, served>>

\* addMember writes the row.
AddMember(p) ==
    LET g   == IF req[p].on \in Clients THEN ClientsGroup ELSE UsersGroup
        row == <<g, req[p].on>>
    IN  /\ At(p, "addMember")
        /\ rows' = rows \cup {row}
        /\ UNCHANGED <<actors, assoc, invites, groups, listed>>
        /\ Land(p, "put", {row})
        /\ Goto(p, "done")
        /\ UNCHANGED <<gen, cache, req, holds, held, served>>

\* The handler's last write has been reported.
Done(p) ==
    /\ At(p, "done")
    /\ Finish(p)
    /\ UNCHANGED <<store, gen, cache, ev, served>>

-----------------------------------------------------------------------------
(* Invitations: createInvite and rescindInvite take no lock.                *)

\* createInvite: the invitee exists...
CreateInvite(p) ==
    \E u \in Users \cap actors :
        Begin(p, Request("invite", u, {}), "checkMember")

\* ... is not a member, and has not been invited yet.
CheckInvite(p) ==
    /\ \/ At(p, "checkMember") /\ req[p].on \notin assoc /\ Goto(p, "checkInvite")
          /\ UNCHANGED <<req, holds, held>>
       \/ At(p, "checkInvite") /\ req[p].on \notin invites /\ Goto(p, "putInvite")
          /\ UNCHANGED <<req, holds, held>>
       \/ At(p, "checkMember") /\ req[p].on \in assoc /\ Finish(p)
       \/ At(p, "checkInvite") /\ req[p].on \in invites /\ Finish(p)
    /\ UNCHANGED <<store, gen, cache, ev, served>>

PutInvite(p) ==
    /\ At(p, "putInvite")
    /\ invites' = invites \cup {req[p].on}
    /\ Finish(p)
    /\ UNCHANGED <<actors, assoc, groups, listed, rows, gen, cache, ev, served>>

RescindInvite(p) ==
    \E u \in Users :
        Begin(p, Request("rescind", u, {}), "rescind")

DropInvite(p) ==
    /\ At(p, "rescind")
    /\ invites' = invites \ {req[p].on}
    /\ Finish(p)
    /\ UNCHANGED <<actors, assoc, groups, listed, rows, gen, cache, ev, served>>

-----------------------------------------------------------------------------
(* Revocations and rewrites: API.membership is held exclusively.            *)

DeleteActor(p) ==
    \E a \in Actors :
        Begin(p, Request("deleteActor", a, {}), "lock")

DisassociateUser(p) ==
    \E u \in Users :
        Begin(p, Request("disassociate", u, {}), "lock")

CreateGroup(p) ==
    \E g \in Groups, b \in Bodies :
        Begin(p, Request("createGroup", g, b), "lock")

\* putGroup checks that the group exists before it waits for the lock.  pre: the
\* request carries the document that authorize read (any caller but the
\* superuser, under enforcement), and viewObject will answer from it.
PutGroup(p) ==
    \E g \in groups, b \in Bodies, k \in KindSets, pre \in BOOLEAN :
        Begin(p, [op |-> "putGroup", on |-> g, body |-> b, kinds |-> k, pre |-> pre],
              "lock")

DeleteGroup(p) ==
    \E g \in Groups :
        Begin(p, Request("deleteGroup", g, {}), "lock")

\* The target is looked up again under the lock.
Lookup(p) ==
    LET op == req[p].op
        on == req[p].on
        found == \/ op = "deleteActor" /\ on \in actors
                 \/ op = "disassociate" /\ on \in assoc
                 \/ op = "deleteGroup" /\ on \in groups
    IN  /\ At(p, "lookup")
        /\ \/ ~found /\ Finish(p)
           \/ /\ found
              /\ Goto(p, CASE op = "disassociate" -> "getRead"
                           [] op = "deleteGroup"  -> "docs"
                           [] OTHER -> IF on \in Users THEN "delAssoc" ELSE "rows")
              /\ UNCHANGED <<req, holds, held>>
        /\ UNCHANGED <<store, gen, cache, ev, served>>

DelAssoc(p) ==
    /\ At(p, "delAssoc")
    /\ assoc' = assoc \ {req[p].on}
    /\ Goto(p, IF req[p].op = "disassociate" THEN "rows" ELSE "delInvite")
    /\ UNCHANGED <<actors, invites, groups, listed, rows, gen, cache, req, holds,
                   ev, held, served>>

DelInvite(p) ==
    /\ At(p, "delInvite")
    /\ invites' = invites \ {req[p].on}
    /\ Goto(p, "rows")
    /\ UNCHANGED <<actors, assoc, groups, listed, rows, gen, cache, req, holds,
                   ev, held, served>>

\* removeMemberRows and clearMembers: every row of the actor, or of the group,
\* one delete at a time.  The keys their Range collected are the ones still
\* there, since the lock keeps every adder out.
RowTargets(p) ==
    {r \in rows : IF req[p].on \in Groups THEN r[1] = req[p].on ELSE r[2] = req[p].on}

\* Mutant: an actor's rows are removed and its entries in group documents are not.
RemoveRowsOnly(p) ==
    /\ At(p, "rows")
    /\ \/ \E r \in RowTargets(p) :
            /\ rows' = rows \ {r}
            /\ UNCHANGED <<actors, assoc, invites, groups, listed>>
            /\ Land(p, "del", {})
            /\ UNCHANGED pc
       \/ /\ RowTargets(p) = {}
          /\ Goto(p, CASE req[p].op = "createGroup"  -> "createDoc"
                       [] req[p].op = "putGroup"     -> "putDoc"
                       [] req[p].op = "disassociate" -> "docs"
                       [] OTHER                      -> "delete")
          /\ UNCHANGED <<store, ev>>
    /\ UNCHANGED <<gen, cache, req, holds, held, served>>

RemoveRows(p) ==
    /\ At(p, "rows")
    /\ \/ \E r \in RowTargets(p) :
            /\ rows' = rows \ {r}
            /\ UNCHANGED <<actors, assoc, invites, groups, listed>>
            /\ Land(p, "del", {})
            /\ UNCHANGED pc
       \/ /\ RowTargets(p) = {}
          /\ Goto(p, CASE req[p].op = "createGroup" -> "createDoc"
                       [] req[p].op = "putGroup"    -> "putDoc"
                       [] req[p].op = "deleteGroup" -> "delete"
                       [] OTHER                     -> "docs")
          /\ UNCHANGED <<store, ev>>
    /\ UNCHANGED <<gen, cache, req, holds, held, served>>

\* removeFromGroupDocs: rewrite each document that lists the target.
RemoveFromDocs(p) ==
    /\ At(p, "docs")
    /\ \/ \E g \in Groups :
            /\ <<g, req[p].on>> \in listed
            /\ listed' = listed \ {<<g, req[p].on>>}
            /\ UNCHANGED <<actors, assoc, invites, groups, rows>>
            /\ Land(p, "doc", {})
            /\ UNCHANGED pc
       \/ /\ \A g \in Groups : <<g, req[p].on>> \notin listed
          /\ Goto(p, CASE req[p].op = "deleteGroup"  -> "rows"
                       [] req[p].op = "disassociate" -> "done"
                       [] OTHER                      -> "delete")
          /\ UNCHANGED <<store, ev>>
    /\ UNCHANGED <<gen, cache, req, holds, held, served>>

\* The record itself goes last.
Delete(p) ==
    /\ At(p, "delete")
    /\ \/ /\ req[p].op = "deleteActor"
          /\ actors' = actors \ {req[p].on}
          /\ UNCHANGED <<groups, listed, ev>>
       \/ /\ req[p].op = "deleteGroup"
          /\ groups' = groups \ {req[p].on}
          /\ listed' = {d \in listed : d[1] # req[p].on}
          /\ UNCHANGED <<actors, assoc, invites, rows>>
          /\ Land(p, "doc", {})
    /\ Goto(p, "done")
    /\ UNCHANGED <<assoc, invites, rows, gen, cache, req, holds, held, served>>

\* Write g's document with the members m.
PutDoc(p, g, m) ==
    /\ groups' = groups \cup {g}
    /\ listed' = {d \in listed : d[1] # g} \cup ({g} \X m)
    /\ UNCHANGED <<actors, assoc, invites, rows>>
    /\ Land(p, "doc", {})

\* createGroup's Create: a conflict leaves the document alone.
CreateDoc(p) ==
    /\ At(p, "createDoc")
    /\ \/ req[p].on \in groups /\ UNCHANGED <<store, ev>>
       \/ req[p].on \notin groups /\ PutDoc(p, req[p].on, req[p].body)
    /\ Goto(p, "done")
    /\ UNCHANGED <<gen, cache, req, holds, held, served>>

\* The members putGroup will write: the body's for the kinds it names, the
\* effective ones for the kinds it leaves out (groupUpdateMembers), less the names
\* that do not exist (knownGroupMembers).
Merged(r) ==
    {m \in actors \cup groups :
        IF Kind(m) \in r.kinds THEN m \in r.body ELSE <<r.on, m>> \in Effective}

\* putGroup's second existence check, answered from the preread if there is one.
Recheck(p) ==
    /\ At(p, "recheck")
    /\ \/ ~(req[p].pre \/ req[p].on \in groups) /\ Finish(p)
       \/ /\ req[p].pre \/ req[p].on \in groups
          /\ req' = [req EXCEPT ![p].body = Merged(req[p])]
          /\ Goto(p, "rows")
          /\ UNCHANGED <<holds, held>>
    /\ UNCHANGED <<store, gen, cache, ev, served>>

UpdateDoc(p) ==
    /\ At(p, "putDoc")
    /\ PutDoc(p, req[p].on, req[p].body)
    /\ Goto(p, "done")
    /\ UNCHANGED <<gen, cache, req, holds, held, served>>

-----------------------------------------------------------------------------
\* Any store call may fail: the handler answers 500 and returns, leaving done
\* what it has done so far.
StoreSteps == {"rangeDocs", "rangeRows", "create", "findUser", "findAssoc",
               "findInvite", "consumeInvite", "putAssoc", "addMember",
               "checkMember", "checkInvite", "putInvite", "rescind", "lookup", "delAssoc",
               "delInvite", "rows", "docs", "delete", "createDoc", "recheck",
               "putDoc"}

StoreError(p) ==
    /\ pc[p] \in StoreSteps
    /\ ev[p].t = "none"
    /\ Finish(p)
    /\ cmu' = IF cmu = p THEN NoProc ELSE cmu
    /\ build' = IF cmu = p THEN NoIndex ELSE build
    /\ UNCHANGED <<store, gen, cached, idx, ev, served>>

Arrive(p) ==
    \/ Check(p) \/ CreateActor(p) \/ AssociateUser(p) \/ RespondInvite(p)
    \/ CreateInvite(p) \/ RescindInvite(p) \/ DeleteActor(p) \/ DisassociateUser(p)
    \/ CreateGroup(p) \/ PutGroup(p) \/ DeleteGroup(p)

Work(p) ==
    \/ RLock(p) \/ Lock(p) \/ Note(p)
    \/ GetRead(p) \/ GetFresh(p) \/ GetLock(p) \/ RangeDocs(p) \/ RangeRows(p)
    \/ UseIndex(p)
    \/ Create(p) \/ FindUser(p) \/ FindAssoc(p) \/ FindInvite(p)
    \/ ConsumeInvite(p) \/ PutAssoc(p) \/ AddMember(p) \/ Done(p)
    \/ CheckInvite(p) \/ PutInvite(p) \/ DropInvite(p)
    \/ Lookup(p) \/ DelAssoc(p) \/ DelInvite(p) \/ RemoveRows(p)
    \/ RemoveFromDocs(p) \/ Delete(p) \/ CreateDoc(p) \/ Recheck(p) \/ UpdateDoc(p)

\* History.  For each check in progress: the memberships that held, or whose
\* revocation was still being reported, at some moment since it began, and
\* those that held and were fully reported at every moment since.  ever: the
\* groups the actor was in, nesting followed, at some moment since.
Checking(p) == pc[p] # "idle" /\ req[p].op = "check"

History ==
    /\ may' = [p \in Procs |->
                 IF Checking(p)' THEN may[p] \cup MayHold' ELSE {}]
    /\ must' = [p \in Procs |->
                  IF ~Checking(p)' THEN {}
                  ELSE IF Checking(p) THEN must[p] \cap MustHold' ELSE MustHold']
    /\ ever' = [p \in Procs |->
                  IF Checking(p)' THEN ever[p] \cup GroupsOf(MayHold', req'[p].on) ELSE {}]

\* All the requests of the bounded run have been answered.
Quiet ==
    /\ served = MaxRequests
    /\ \A p \in Procs : pc[p] = "idle"
    /\ UNCHANGED vars

Step(p) == (Arrive(p) \/ Work(p) \/ StoreError(p)) /\ History

Next == (\E p \in Procs : Step(p)) \/ Quiet

Spec == Init /\ [][Next]_vars

-----------------------------------------------------------------------------
(* Properties.                                                              *)

Steps == {"idle", "rlock", "lock", "getRead", "getFresh", "getLock", "use", "done"}
            \cup StoreSteps

IndexType == [gen : Nat, mem : SUBSET Pairs]

\* Every variable has its type, whatever the requests do.
TypeOK ==
    /\ actors \subseteq Actors
    /\ assoc \subseteq Users
    /\ invites \subseteq Users
    /\ groups \subseteq Groups
    /\ listed \subseteq Pairs
    /\ rows \subseteq Groups \X Actors
    /\ gen \in Nat
    /\ cached \in BOOLEAN
    /\ idx \in IndexType
    /\ cmu \in Procs \cup {NoProc}
    /\ build \in IndexType
    /\ pc \in [Procs -> Steps]
    /\ req \in [Procs -> [op : AllOps, on : Members, body : SUBSET Members,
                          kinds : SUBSET Kinds, pre : BOOLEAN]]
    /\ holds \in [Procs -> {"none", "shared", "exclusive"}]
    /\ ev \in [Procs -> [t : {"none", "doc", "put", "del"}, add : SUBSET Pairs,
                         in : SUBSET Pairs, out : SUBSET Pairs]]
    /\ held \in [Procs -> [gen : Nat, mem : SUBSET Pairs, live : BOOLEAN]]
    /\ served \in Nat
    /\ may \in [Procs -> SUBSET Pairs]
    /\ must \in [Procs -> SUBSET Pairs]
    /\ ever \in [Procs -> SUBSET Groups]

\* An index whose generation is current agrees with the store on every
\* membership, except for what a landed and still unreported write changed:
\* the cache never latches onto stale data (store.Org.noteWrite) and never
\* loses a row written during a rebuild (groupIndexCache.get).
IndexSandwich ==
    cached /\ idx.gen = gen => MustHold \subseteq idx.mem /\ idx.mem \subseteq MayHold

\* A check decides on an index that contains every membership that held all the
\* time it ran, and none that was revoked, and reported, before it started.
CheckSandwich ==
    \A p \in Procs : pc[p] = "use" /\ req[p].op = "check" =>
        must[p] \subseteq held[p].mem /\ held[p].mem \subseteq may[p]

\* A membership row of a client always names a client that exists: a row left
\* behind would belong to the next client of that name (createActor,
\* scopedDelete).
ClientRowsNameClients ==
    \A r \in rows : r[2] \in Clients => r[2] \in actors

\* When an actor is deleted nothing names it any more: not a row, not a group
\* document, not the organization's member list (scopedDelete).
CleanDelete ==
    [][\A a \in actors \ actors' :
          a \notin assoc /\ \A g \in Groups : <<g, a>> \notin Effective]_vars

\* p has read a group's membership and has not written it back yet.
Updating(p) == req[p].op = "putGroup" /\ pc[p] \in {"rows", "putDoc"}

\* The members p is going to write all stay in existence, no user among them is
\* dropped from the organization, and nobody else changes who is in the group.
Undisturbed(p) ==
    /\ req[p].body \subseteq actors' \cup groups'
    /\ req[p].body \cap assoc \subseteq assoc'
    /\ ev'[p] = ev[p] =>
         \A m \in Members : <<req[p].on, m>> \in Effective <=> <<req[p].on, m>> \in Effective'

\* No revocation lands between an update's read of a group and its write, where
\* the write would undo it: deleting an actor or a group, dropping a user from the
\* organization and rewriting the group all wait (putGroup; the ordering that
\* groupmembers.go has API.membership keep).
UpdatesAreIsolated ==
    [][\A p \in Procs : Updating(p) => Undisturbed(p)]_vars

\* A user who is an admin of the organization, directly or through nested
\* groups, is never dissociated from it (disassociateUser).
AdminsStay ==
    \A p \in Procs : pc[p] = "delAssoc" /\ req[p].op = "disassociate" =>
        AdminsGroup \notin GroupsOf(Effective, req[p].on)

\* A group exists only because it was created: in particular an update does not
\* undo a concurrent delete (putGroup's comment).
OnlyCreateMakesGroups ==
    [][\A g \in groups' \ groups :
          \E p \in Procs : pc[p] = "createDoc" /\ req[p].on = g]_vars

\* A check grants only what a group gave the actor at some moment while it ran:
\* an index built while a write was going on is discarded (groupindex.go).
GrantWasHeld ==
    \A p \in Procs : pc[p] = "use" /\ req[p].op = "check" =>
        GroupsOf(held[p].mem, req[p].on) \subseteq ever[p]

\* A user's membership row names a user that exists (respondInvite).
UserRowsNameUsers ==
    \A r \in rows : r[2] \in Users => r[2] \in actors

=============================================================================
