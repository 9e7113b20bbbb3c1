-------------------------- MODULE MembershipProofs --------------------------
(***************************************************************************)
(* Proofs about Membership, for any number of goroutines, actors, groups    *)
(* and requests.                                                            *)
(***************************************************************************)
EXTENDS Membership, TLAPS

ReqType == [op : AllOps, on : Members, body : SUBSET Members,
            kinds : SUBSET Kinds, pre : BOOLEAN]
EvType == [t : {"none", "doc", "put", "del"}, add : SUBSET Pairs,
           in : SUBSET Pairs, out : SUBSET Pairs]
HeldType == [gen : Nat, mem : SUBSET Pairs, live : BOOLEAN]

StoreOK ==
    /\ actors \subseteq Actors
    /\ assoc \subseteq Users
    /\ invites \subseteq Users
    /\ groups \subseteq Groups
    /\ listed \subseteq Pairs
    /\ rows \subseteq Groups \X Actors

CacheOK ==
    /\ gen \in Nat
    /\ cached \in BOOLEAN
    /\ idx \in IndexType
    /\ cmu \in Procs \cup {NoProc}
    /\ build \in IndexType

ControlOK ==
    /\ pc \in [Procs -> Steps]
    /\ req \in [Procs -> ReqType]
    /\ holds \in [Procs -> {"none", "shared", "exclusive"}]
    /\ ev \in [Procs -> EvType]
    /\ held \in [Procs -> HeldType]
    /\ served \in Nat

HistoryOK ==
    /\ may \in [Procs -> SUBSET Pairs]
    /\ must \in [Procs -> SUBSET Pairs]
    /\ ever \in [Procs -> SUBSET Groups]

\* Who a request is about.
ActorOps == {"createActor", "deleteActor"}
UserOps  == {"associate", "disassociate", "invite", "rescind", "respond"}
GroupOps == {"createGroup", "putGroup", "deleteGroup"}

Target(r) ==
    /\ r.op \in ActorOps => r.on \in Actors
    /\ r.op \in UserOps => r.on \in Users
    /\ r.op \in GroupOps => r.on \in Groups

\* The steps of each family of handlers.
FreeSteps == {"idle", "rlock", "lock", "checkMember", "checkInvite", "putInvite", "rescind"}
SharedSteps == {"create", "findUser", "findAssoc", "findInvite", "consumeInvite",
                "putAssoc", "addMember"}
ExclusiveSteps == {"lookup", "delAssoc", "delInvite", "rows", "docs", "delete",
                   "createDoc", "recheck", "putDoc"}
IndexSteps == {"getRead", "getFresh", "getLock", "rangeDocs", "rangeRows", "use"}

\* Which requests reach a step.
Route(l, r) ==
    /\ l = "rlock" => r.op \in {"createActor", "associate", "respond"}
    /\ l = "lock" => r.op \in {"deleteActor", "disassociate"} \cup GroupOps
    /\ l = "create" => r.op = "createActor"
    /\ l \in {"findUser", "findAssoc"} => r.op = "associate"
    /\ l \in {"findInvite", "consumeInvite"} => r.op = "respond"
    /\ l = "putAssoc" => r.op \in {"associate", "respond"}
    /\ l = "addMember" => r.op \in {"createActor", "associate", "respond"}
    /\ l \in {"checkMember", "checkInvite", "putInvite"} => r.op = "invite"
    /\ l = "rescind" => r.op = "rescind"
    /\ l \in IndexSteps => r.op \in {"check", "disassociate"}
    /\ l = "lookup" => r.op \in {"deleteActor", "disassociate", "deleteGroup"}
    /\ l = "delAssoc" => r.op \in {"deleteActor", "disassociate"} /\ r.on \in Users
    /\ l = "delInvite" => r.op = "deleteActor" /\ r.on \in Users
    /\ l = "rows" => r.op \in {"deleteActor", "disassociate"} \cup GroupOps
    /\ l = "docs" => r.op \in {"deleteActor", "disassociate", "deleteGroup"}
    /\ l = "delete" => r.op \in {"deleteActor", "deleteGroup"}
    /\ l = "createDoc" => r.op = "createGroup"
    /\ l \in {"recheck", "putDoc"} => r.op = "putGroup"

\* How a handler holds API.membership at each step.
LockAt(l, r, h) ==
    /\ l \in FreeSteps => h = "none"
    /\ l \in SharedSteps => h = "shared"
    /\ l \in ExclusiveSteps => h = "exclusive"
    /\ l \in IndexSteps => h = IF r.op = "disassociate" THEN "exclusive" ELSE "none"

\* Writes that revoke or rewrite are reported under the exclusive lock, the ones
\* that add a member under the shared one.
EventUnder(t, h) ==
    /\ t = "put" => h = "shared"
    /\ t \in {"doc", "del"} => h = "exclusive"

Control(p) ==
    /\ Target(req[p])
    /\ Route(pc[p], req[p])
    /\ LockAt(pc[p], req[p], holds[p])
    /\ EventUnder(ev[p].t, holds[p])
    /\ ev[p].t # "none" => pc[p] \in {"rows", "docs", "done"}
    /\ cmu = p <=> pc[p] \in {"rangeDocs", "rangeRows"}

\* At most one holder of API.membership when it is held exclusively.
Exclusion ==
    \A p, q \in Procs : p # q /\ holds[p] = "exclusive" => holds[q] = "none"

TypeInv == TypeOK /\ (\A p \in Procs : Control(p)) /\ Exclusion

\* What each handler has established about the store and, by the lock it holds,
\* can rely on.
DataAt(p) ==
    /\ pc[p] = "addMember" /\ req[p].op = "createActor" => req[p].on \in actors
    /\ req[p].op = "deleteActor" =>
         /\ pc[p] \in {"delInvite", "rows", "docs", "delete"} => req[p].on \notin assoc
         /\ pc[p] \in {"docs", "delete"} => \A g \in Groups : <<g, req[p].on>> \notin rows
         /\ pc[p] = "delete" => \A g \in Groups : <<g, req[p].on>> \notin listed
    /\ req[p].op = "putGroup" /\ pc[p] \in {"rows", "putDoc"} =>
         req[p].body \subseteq actors \cup groups
    /\ pc[p] \in {"createDoc", "putDoc"} => \A r \in rows : r[1] # req[p].on

DataInv == ClientRowsNameClients /\ \A p \in Procs : DataAt(p)

\* What an unreported write says of the store.
EventAt(p) ==
    /\ ev[p].t = "none" => ev[p].in = {} /\ ev[p].out = {}
    /\ ev[p].t = "put" => ev[p].add \subseteq rows /\ ev[p].in \subseteq ev[p].add /\ ev[p].out = {}

\* An index under construction that would still be current when installed: its
\* document part is the documents' contents, unless a document write has landed
\* since and is unreported; then it is caught between before and after.
BuildSandwich ==
    \A p \in Procs : pc[p] = "rangeRows" /\ build.gen = gen =>
        /\ (\A q \in Procs : ev[q].t # "doc") => build.mem = listed
        /\ MustHold \subseteq build.mem \cup rows
        /\ build.mem \subseteq MayHold

\* No generation runs ahead of the store's.
GenInv ==
    /\ idx.gen <= gen /\ build.gen <= gen
    /\ \A p \in Procs : held[p].gen <= gen

IndexInv ==
    /\ GenInv
    /\ \A p \in Procs : EventAt(p)
    /\ BuildSandwich
    /\ IndexSandwich

\* A dissociation holds the lock exclusively throughout, so its index is exact.
AdminAt(p) ==
    req[p].op = "disassociate" =>
        /\ pc[p] = "rangeRows" => build.mem = listed
        /\ pc[p] = "getFresh" /\ held[p].gen = gen => Effective \subseteq held[p].mem
        /\ pc[p] = "use" => Effective \subseteq held[p].mem
        /\ pc[p] = "delAssoc" => AdminsGroup \notin GroupsOf(Effective, req[p].on)

\* What a check has in hand lies between what has held all along and what has
\* held at some moment.
CheckAt(p) ==
    /\ must[p] \subseteq MustHold
    /\ MayHold \subseteq may[p]
    /\ (pc[p] = "getFresh" /\ held[p].gen = gen) \/ pc[p] = "use" =>
         must[p] \subseteq held[p].mem /\ held[p].mem \subseteq may[p]
    /\ pc[p] = "rangeRows" =>
         /\ build.mem \subseteq may[p]
         /\ \A r \in must[p] : r \in build.mem \/ (r \in rows /\ r \notin listed)

CheckInv == \A p \in Procs : Checking(p) => CheckAt(p)

AdminInv == \A p \in Procs : AdminAt(p)

LEMMA TypeParts == TypeOK <=> StoreOK /\ CacheOK /\ ControlOK /\ HistoryOK
  BY DEF TypeOK, StoreOK, CacheOK, ControlOK, HistoryOK, ReqType, EvType, HeldType

LEMMA PrimedParts == StoreOK' /\ CacheOK' /\ ControlOK' /\ HistoryOK' => TypeOK'
  BY DEF TypeOK, StoreOK, CacheOK, ControlOK, HistoryOK, ReqType, EvType, HeldType

LEMMA Names ==
    /\ Clients \subseteq Actors /\ Users \subseteq Actors
    /\ Actors \subseteq Members /\ Groups \subseteq Members
    /\ Groups \X Actors \subseteq Pairs
    /\ Pairs = Groups \X Members
  BY DEF Actors, Members, Pairs

LEMMA Nothing ==
    /\ NoReq \in ReqType
    /\ NoEvent \in EvType
    /\ NoIndex \in IndexType
    /\ NoHeld \in HeldType
  BY ConstantTypes, Names
     DEF NoReq, Request, NoEvent, NoIndex, NoHeld, ReqType, EvType, IndexType, HeldType, AllOps

LEMMA InitType == Init => TypeOK
<1> SUFFICES ASSUME Init PROVE TypeOK
  OBVIOUS
<1>1. StoreOK
  BY ConstantTypes DEF Init, StoreOK, Actors
<1>2. CacheOK
  BY Nothing DEF Init, CacheOK
<1>3. ControlOK
  BY Nothing DEF Init, ControlOK, Steps
<1>4. HistoryOK
  BY DEF Init, HistoryOK
<1> QED
  BY <1>1, <1>2, <1>3, <1>4, TypeParts

\* A write that lands is reported with memberships.
LEMMA LandType ==
    ASSUME NEW p \in Procs, NEW t \in {"none", "doc", "put", "del"},
           NEW add \in SUBSET Pairs, StoreOK, StoreOK', ev \in [Procs -> EvType],
           Land(p, t, add)
    PROVE  ev' \in [Procs -> EvType]
<1>1. Effective \subseteq Pairs /\ Effective' \subseteq Pairs
  BY Names DEF Effective, StoreOK
<1>2. [t |-> t, add |-> add, in |-> Effective' \ Effective, out |-> Effective \ Effective']
         \in EvType
  BY <1>1 DEF EvType
<1> QED
  BY <1>2 DEF Land

LEMMA HistoryType ==
    ASSUME StoreOK', ControlOK', HistoryOK, History
    PROVE  HistoryOK'
<1>1. MayHold' \subseteq Pairs /\ MustHold' \subseteq Pairs
  BY Names DEF MayHold, MustHold, Effective, StoreOK, ControlOK, EvType
<1>2. \A m, a : GroupsOf(m, a) \subseteq Groups
  BY DEF GroupsOf
<1> QED
  BY <1>1, <1>2 DEF History, HistoryOK

LEMMA BeginType ==
    ASSUME NEW p \in Procs, NEW r \in ReqType, NEW l \in Steps,
           StoreOK, CacheOK, ControlOK, Begin(p, r, l)
    PROVE  StoreOK' /\ CacheOK' /\ ControlOK'
<1>1. StoreOK' /\ CacheOK'
  BY DEF Begin, StoreOK, CacheOK, store, cache
<1>2. ControlOK'
  BY DEF Begin, Goto, ControlOK
<1> QED
  BY <1>1, <1>2

\* A request arrives about a target of the right kind, at the first step of its
\* handler.
LEMMA ArriveBegins ==
    ASSUME NEW p \in Procs, StoreOK, Arrive(p)
    PROVE  \E r \in ReqType, l \in Steps \cap (FreeSteps \cup {"getRead"}) :
              Target(r) /\ Route(l, r) /\ (l = "getRead" => r.op = "check") /\ Begin(p, r, l)
<1> USE Names, ConstantTypes
<1>1. ASSUME NEW x \in Members, NEW o \in AllOps
      PROVE  Request(o, x, {}) \in ReqType
  BY <1>1 DEF ReqType, Request
<1>2. ASSUME NEW g \in Groups, NEW b \in Bodies
      PROVE  Request("createGroup", g, b) \in ReqType
  BY <1>2 DEF ReqType, Request, AllOps
<1>3. ASSUME NEW g \in Groups, NEW b \in Bodies, NEW k \in KindSets, NEW pre \in BOOLEAN
      PROVE  [op |-> "putGroup", on |-> g, body |-> b, kinds |-> k, pre |-> pre] \in ReqType
  BY <1>3 DEF ReqType, AllOps
<1>4. {"rlock", "lock", "getRead", "checkMember", "rescind"}
         \subseteq Steps \cap (FreeSteps \cup {"getRead"})
  BY DEF Steps, StoreSteps, FreeSteps
<1>5. ActorOps \cup UserOps \cup GroupOps \cup {"check"} \subseteq AllOps
  BY DEF AllOps, ActorOps, UserOps, GroupOps
<1>6. \A o, x, b : Request(o, x, b).op = o /\ Request(o, x, b).on = x
  BY DEF Request
<1>7. ASSUME NEW x \in Actors, NEW o \in ActorOps \cup {"check"}
      PROVE  Target(Request(o, x, {}))
  BY <1>6 DEF Target, ActorOps, UserOps, GroupOps
<1>8. ASSUME NEW x \in Users, NEW o \in UserOps
      PROVE  Target(Request(o, x, {}))
  BY <1>6 DEF Target, ActorOps, UserOps, GroupOps
<1>9. ASSUME NEW x \in Groups, NEW o \in GroupOps, NEW b
      PROVE  Target(Request(o, x, b))
  BY <1>6 DEF Target, ActorOps, UserOps, GroupOps
<1>10. ASSUME NEW o, NEW l, NEW x, NEW b,
              \/ l = "rlock" /\ o \in {"createActor", "associate", "respond"}
              \/ l = "lock" /\ o \in {"deleteActor", "disassociate"} \cup GroupOps
              \/ l = "checkMember" /\ o = "invite"
              \/ l = "rescind" /\ o = "rescind"
              \/ l = "getRead" /\ o = "check"
       PROVE  Route(l, Request(o, x, b)) /\ (l = "getRead" => Request(o, x, b).op = "check")
  <2>1. CASE l = "getRead"
    BY <1>10, <2>1, <1>6 DEF Route, IndexSteps
  <2>2. CASE l = "rlock" 
    BY <1>10, <2>2, <1>6 DEF Route, IndexSteps
  <2>3. CASE l = "lock" 
    BY <1>10, <2>3, <1>6 DEF Route, IndexSteps
  <2>4. CASE l \in {"checkMember", "rescind"}
    BY <1>10, <2>4, <1>6 DEF Route, IndexSteps
  <2> QED
    BY <1>10, <2>1, <2>2, <2>3, <2>4
<1>11. CASE Check(p)
  BY <1>11, <1>1, <1>7, <1>10, <1>4, <1>5 DEF Check, ActorOps
<1>12. CASE CreateActor(p)
  BY <1>12, <1>1, <1>7, <1>10, <1>4, <1>5 DEF CreateActor, ActorOps
<1>13. CASE AssociateUser(p)
  BY <1>13, <1>1, <1>8, <1>10, <1>4, <1>5 DEF AssociateUser, UserOps
<1>14. CASE RespondInvite(p)
  BY <1>14, <1>1, <1>8, <1>10, <1>4, <1>5 DEF RespondInvite, UserOps
<1>15. CASE CreateInvite(p)
  BY <1>15, <1>1, <1>8, <1>10, <1>4, <1>5 DEF CreateInvite, UserOps
<1>16. CASE RescindInvite(p)
  BY <1>16, <1>1, <1>8, <1>10, <1>4, <1>5 DEF RescindInvite, UserOps
<1>17. CASE DeleteActor(p)
  BY <1>17, <1>1, <1>7, <1>10, <1>4, <1>5 DEF DeleteActor, ActorOps
<1>18. CASE DisassociateUser(p)
  BY <1>18, <1>1, <1>8, <1>10, <1>4, <1>5 DEF DisassociateUser, UserOps
<1>19. CASE CreateGroup(p)
  BY <1>19, <1>2, <1>9, <1>10, <1>4, <1>5 DEF CreateGroup, GroupOps
<1>20. CASE PutGroup(p)
  <2>1. PICK g \in groups, b \in Bodies, k \in KindSets, pre \in BOOLEAN :
          Begin(p, [op |-> "putGroup", on |-> g, body |-> b, kinds |-> k, pre |-> pre], "lock")
    BY <1>20 DEF PutGroup
  <2> DEFINE r == [op |-> "putGroup", on |-> g, body |-> b, kinds |-> k, pre |-> pre]
  <2>2. r \in ReqType
    BY <1>3 DEF StoreOK
  <2>3. r.op = "putGroup" /\ r.on \in Groups
    BY DEF StoreOK
  <2> HIDE DEF r
  <2>4. Target(r) /\ Route("lock", r)
    BY <2>3 DEF Target, Route, ActorOps, UserOps, GroupOps, IndexSteps
  <2> QED
    BY <2>1, <2>2, <2>4, <1>4 DEF r
<1>21. CASE DeleteGroup(p)
  BY <1>21, <1>1, <1>9, <1>10, <1>4, <1>5 DEF DeleteGroup, GroupOps
<1> QED
  BY <1>11, <1>12, <1>13, <1>14, <1>15, <1>16, <1>17, <1>18, <1>19, <1>20, <1>21 DEF Arrive

\* What a handler's return leaves is typed.
LEMMA FinishType ==
    ASSUME NEW p \in Procs, ControlOK, Finish(p)
    PROVE  /\ pc' \in [Procs -> Steps]
           /\ req' \in [Procs -> ReqType]
           /\ holds' \in [Procs -> {"none", "shared", "exclusive"}]
           /\ held' \in [Procs -> HeldType]
  BY Nothing DEF Finish, Goto, ControlOK, Steps

LEMMA WorkType ==
    ASSUME NEW p \in Procs, StoreOK, CacheOK, ControlOK, Target(req[p]),
           Route(pc[p], req[p]), Work(p) \/ StoreError(p)
    PROVE  StoreOK' /\ CacheOK' /\ ControlOK'
<1> USE Names, Nothing
<1>s. StoreSteps \cup {"idle", "rlock", "lock", "getRead", "getFresh", "getLock", "use", "done"}
        \subseteq Steps
  BY DEF Steps
<1>1. CASE RLock(p)
  BY <1>1, <1>s DEF RLock, Goto, StoreOK, CacheOK, ControlOK, store, cache, StoreSteps
<1>2. CASE Lock(p)
  BY <1>2, <1>s DEF Lock, Goto, StoreOK, CacheOK, ControlOK, store, cache, StoreSteps
<1>3. CASE NoteDoc(p)
  BY <1>3 DEF NoteDoc, StoreOK, CacheOK, ControlOK, store, cache
<1>4. CASE NotePut(p)
  <2>1. ev[p].add \subseteq Pairs
    BY DEF ControlOK, EvType
  <2>2. StoreOK' /\ CacheOK'
    BY <1>4, <2>1 DEF NotePut, StoreOK, CacheOK, store, IndexType
  <2>3. ASSUME NEW q \in Procs
        PROVE  (IF held[q].live THEN [held[q] EXCEPT !.mem = @ \cup ev[p].add] ELSE held[q])
                  \in HeldType
    BY <2>1 DEF ControlOK, HeldType
  <2>4. ControlOK'
    BY <1>4, <2>3 DEF NotePut, ControlOK
  <2> QED
    BY <2>2, <2>4
<1>5. CASE NoteDel(p)
  BY <1>5 DEF NoteDel, StoreOK, CacheOK, ControlOK, store, HeldType
<1>6. CASE GetRead(p)
  BY <1>6, <1>s DEF GetRead, Goto, StoreOK, CacheOK, ControlOK, store, cache, HeldType, IndexType
<1>7. CASE GetFresh(p)
  BY <1>7, <1>s DEF GetFresh, Goto, StoreOK, CacheOK, ControlOK, store, cache
<1>8. CASE GetLock(p)
  <2>1. [gen |-> idx.gen, mem |-> idx.mem, live |-> TRUE] \in HeldType
    BY DEF CacheOK, IndexType, HeldType
  <2>2. [gen |-> gen, mem |-> {}] \in IndexType
    BY DEF CacheOK, IndexType
  <2>3. StoreOK' /\ CacheOK'
    BY <1>8, <2>2 DEF GetLock, StoreOK, CacheOK, store
  <2>4. ControlOK'
    BY <1>8, <1>s, <2>1 DEF GetLock, Goto, ControlOK, StoreSteps
  <2> QED
    BY <2>3, <2>4
<1>9. CASE RangeDocs(p)
  BY <1>9, <1>s DEF RangeDocs, Goto, StoreOK, CacheOK, ControlOK, store, IndexType, StoreSteps
<1>10. CASE RangeRows(p)
  BY <1>10, <1>s DEF RangeRows, Goto, StoreOK, CacheOK, ControlOK, store, IndexType, HeldType
<1>11. CASE UseIndex(p)
  BY <1>11, <1>s, FinishType DEF UseIndex, Goto, StoreOK, CacheOK, ControlOK, store, cache, StoreSteps
<1>12. CASE Create(p)
  <2>1. req[p].on \in Actors
    BY <1>12 DEF Create, At, Target, Route, ActorOps
  <2> QED
    BY <1>12, <1>s, <2>1, FinishType DEF Create, Goto, StoreOK, CacheOK, ControlOK, cache, StoreSteps
<1>13. CASE FindUser(p)
  BY <1>13, <1>s, FinishType DEF FindUser, Goto, StoreOK, CacheOK, ControlOK, store, cache, StoreSteps
<1>14. CASE FindAssoc(p)
  BY <1>14, <1>s, FinishType DEF FindAssoc, Goto, StoreOK, CacheOK, ControlOK, store, cache, StoreSteps
<1>15. CASE FindInvite(p)
  BY <1>15, <1>s, FinishType DEF FindInvite, Goto, StoreOK, CacheOK, ControlOK, store, cache, StoreSteps
<1>16. CASE CheckInvite(p)
  BY <1>16, <1>s, FinishType DEF CheckInvite, Goto, StoreOK, CacheOK, ControlOK, store, cache, StoreSteps
<1>17. CASE Lookup(p)
  BY <1>17, <1>s, FinishType DEF Lookup, Goto, StoreOK, CacheOK, ControlOK, store, cache, StoreSteps
<1>18. CASE Done(p)
  BY <1>18, FinishType DEF Done, StoreOK, CacheOK, ControlOK, store, cache
<1>19. CASE ConsumeInvite(p)
  BY <1>19, <1>s, FinishType DEF ConsumeInvite, Goto, StoreOK, CacheOK, ControlOK, cache, StoreSteps
<1>20. CASE DropInvite(p)
  BY <1>20, <1>s, FinishType DEF DropInvite, Goto, StoreOK, CacheOK, ControlOK, cache, StoreSteps
<1>21. CASE DelInvite(p)
  BY <1>21, <1>s, FinishType DEF DelInvite, Goto, StoreOK, CacheOK, ControlOK, cache, StoreSteps
<1>22. CASE PutAssoc(p)
  <2>1. req[p].on \in Users
    BY <1>22 DEF PutAssoc, At, Target, Route, UserOps
  <2> QED
    BY <1>22, <1>s, <2>1, FinishType DEF PutAssoc, Goto, StoreOK, CacheOK, ControlOK, cache, StoreSteps
<1>23. CASE PutInvite(p)
  <2>1. req[p].on \in Users
    BY <1>23 DEF PutInvite, At, Target, Route, UserOps
  <2> QED
    BY <1>23, <1>s, <2>1, FinishType DEF PutInvite, Goto, StoreOK, CacheOK, ControlOK, cache, StoreSteps
<1>24. CASE DelAssoc(p)
  BY <1>24, <1>s, FinishType DEF DelAssoc, Goto, StoreOK, CacheOK, ControlOK, cache, StoreSteps
<1>25. CASE AddMember(p)
  <2> DEFINE row == <<IF req[p].on \in Clients THEN ClientsGroup ELSE UsersGroup, req[p].on>>
  <2>1. req[p].on \in Actors
    BY <1>25 DEF AddMember, At, Target, Route, ActorOps, UserOps
  <2>2. row \in Groups \X Actors
    BY <2>1, ConstantTypes
  <2>3. rows' = rows \cup {row} /\ Land(p, "put", {row})
    BY <1>25 DEF AddMember
  <2> HIDE DEF row
  <2>4. StoreOK' /\ CacheOK'
    BY <1>25, <2>2, <2>3 DEF AddMember, StoreOK, CacheOK, cache
  <2>5. ev' \in [Procs -> EvType]
    BY <2>2, <2>3, <2>4, LandType DEF ControlOK
  <2> QED
    BY <1>25, <1>s, <2>4, <2>5 DEF AddMember, Goto, ControlOK
<1>26. CASE RemoveRows(p)
  <2>1. StoreOK' /\ CacheOK'
    BY <1>26 DEF RemoveRows, StoreOK, CacheOK, store, cache
  <2>2. ev' \in [Procs -> EvType]
    BY <1>26, <2>1, LandType DEF RemoveRows, ControlOK
  <2>3. pc' \in [Procs -> Steps]
    BY <1>26, <1>s DEF RemoveRows, Goto, ControlOK, StoreSteps
  <2> QED
    BY <1>26, <2>1, <2>2, <2>3 DEF RemoveRows, ControlOK
<1>27. CASE RemoveFromDocs(p)
  <2>1. StoreOK' /\ CacheOK'
    BY <1>27 DEF RemoveFromDocs, StoreOK, CacheOK, store, cache
  <2>2. ev' \in [Procs -> EvType]
    BY <1>27, <2>1, LandType DEF RemoveFromDocs, ControlOK
  <2>3. pc' \in [Procs -> Steps]
    BY <1>27, <1>s DEF RemoveFromDocs, Goto, ControlOK, StoreSteps
  <2> QED
    BY <1>27, <2>1, <2>2, <2>3 DEF RemoveFromDocs, ControlOK
<1>28. CASE Delete(p)
  <2>1. StoreOK' /\ CacheOK'
    BY <1>28 DEF Delete, StoreOK, CacheOK, store, cache
  <2>2. ev' \in [Procs -> EvType]
    BY <1>28, <2>1, LandType DEF Delete, ControlOK
  <2>3. pc' \in [Procs -> Steps]
    BY <1>28, <1>s DEF Delete, Goto, ControlOK, StoreSteps
  <2> QED
    BY <1>28, <2>1, <2>2, <2>3 DEF Delete, ControlOK
<1>29. CASE CreateDoc(p)
  <2>0. {req[p].on} \X req[p].body \subseteq Pairs /\ req[p].on \in Groups
    BY <1>29 DEF CreateDoc, At, Target, Route, GroupOps, ControlOK, ReqType
  <2>1. StoreOK' /\ CacheOK'
    BY <1>29, <2>0 DEF CreateDoc, PutDoc, StoreOK, CacheOK, store, cache
  <2>2. ev' \in [Procs -> EvType]
    BY <1>29, <2>1, LandType DEF CreateDoc, PutDoc, ControlOK
  <2>3. pc' \in [Procs -> Steps]
    BY <1>29, <1>s DEF CreateDoc, Goto, ControlOK, StoreSteps
  <2> QED
    BY <1>29, <2>1, <2>2, <2>3 DEF CreateDoc, ControlOK
<1>30. CASE UpdateDoc(p)
  <2>0. {req[p].on} \X req[p].body \subseteq Pairs /\ req[p].on \in Groups
    BY <1>30 DEF UpdateDoc, At, Target, Route, GroupOps, ControlOK, ReqType
  <2>1. StoreOK' /\ CacheOK'
    BY <1>30, <2>0 DEF UpdateDoc, PutDoc, StoreOK, CacheOK, store, cache
  <2>2. ev' \in [Procs -> EvType]
    BY <1>30, <2>1, LandType DEF UpdateDoc, PutDoc, ControlOK
  <2>3. pc' \in [Procs -> Steps]
    BY <1>30, <1>s DEF UpdateDoc, Goto, ControlOK, StoreSteps
  <2> QED
    BY <1>30, <2>1, <2>2, <2>3 DEF UpdateDoc, ControlOK
<1>31. CASE Recheck(p)
  <2>1. \A B \in SUBSET Members : [req[p] EXCEPT !.body = B] \in ReqType
    BY DEF ControlOK, ReqType
  <2>2. Merged(req[p]) \subseteq Members
    BY DEF Merged, StoreOK
  <2>3. req' \in [Procs -> ReqType]
    BY <1>31, <2>1, <2>2, FinishType DEF Recheck, ControlOK
  <2>4. StoreOK' /\ CacheOK'
    BY <1>31 DEF Recheck, StoreOK, CacheOK, store, cache
  <2> QED
    BY <1>31, <1>s, <2>3, <2>4, FinishType DEF Recheck, Goto, ControlOK, StoreSteps
<1>32. CASE StoreError(p)
  BY <1>32, FinishType DEF StoreError, StoreOK, CacheOK, ControlOK, store
<1> QED
  BY <1>1, <1>2, <1>3, <1>4, <1>5, <1>6, <1>7, <1>8, <1>9, <1>10, <1>11, <1>12, <1>13, <1>14, <1>15, <1>16, <1>17, <1>18, <1>19, <1>20, <1>21, <1>22, <1>23, <1>24, <1>25, <1>26, <1>27, <1>28, <1>29, <1>30, <1>31, <1>32 DEF Work, Note

\* A step of p leaves the other handlers where they are.
Frame(p) ==
    \A q \in Procs \ {p} :
        /\ pc'[q] = pc[q] /\ req'[q] = req[q] /\ holds'[q] = holds[q] /\ ev'[q] = ev[q]
        /\ cmu' = q <=> cmu = q

LEMMA WorkFrame ==
    ASSUME NEW p \in Procs, ControlOK, CacheOK, Control(p), Work(p) \/ StoreError(p)
    PROVE  Frame(p)
<1> USE ConstantTypes DEF Frame, ControlOK
<1>1. CASE RLock(p)
  BY <1>1 DEF RLock, Goto, cache
<1>2. CASE Lock(p)
  BY <1>2 DEF Lock, Goto, cache
<1>3. CASE NoteDoc(p)
  BY <1>3 DEF NoteDoc, cache
<1>4. CASE NotePut(p)
  BY <1>4 DEF NotePut
<1>5. CASE NoteDel(p)
  BY <1>5 DEF NoteDel
<1>6. CASE GetRead(p)
  BY <1>6 DEF GetRead, Goto, cache
<1>7. CASE GetFresh(p)
  BY <1>7 DEF GetFresh, Goto, cache
<1>8. CASE GetLock(p)
  BY <1>8 DEF GetLock, Goto
<1>9. CASE RangeDocs(p)
  BY <1>9 DEF RangeDocs, At, Goto, Control
<1>10. CASE RangeRows(p)
  BY <1>10 DEF RangeRows, At, Goto, Control
<1>11. CASE UseIndex(p)
  BY <1>11 DEF UseIndex, Goto, Finish, cache
<1>12. CASE Create(p)
  BY <1>12 DEF Create, Goto, Finish, cache
<1>13. CASE FindUser(p)
  BY <1>13 DEF FindUser, Goto, Finish, cache
<1>14. CASE FindAssoc(p)
  BY <1>14 DEF FindAssoc, Goto, Finish, cache
<1>15. CASE FindInvite(p)
  BY <1>15 DEF FindInvite, Goto, Finish, cache
<1>16. CASE CheckInvite(p)
  BY <1>16 DEF CheckInvite, Goto, Finish, cache
<1>17. CASE Lookup(p)
  BY <1>17 DEF Lookup, Goto, Finish, cache
<1>18. CASE Done(p)
  BY <1>18 DEF Done, Goto, Finish, cache
<1>19. CASE ConsumeInvite(p)
  BY <1>19 DEF ConsumeInvite, Goto, Finish, cache
<1>20. CASE DropInvite(p)
  BY <1>20 DEF DropInvite, Goto, Finish, cache
<1>21. CASE DelInvite(p)
  BY <1>21 DEF DelInvite, Goto, cache
<1>22. CASE PutAssoc(p)
  BY <1>22 DEF PutAssoc, Goto, cache
<1>23. CASE PutInvite(p)
  BY <1>23 DEF PutInvite, Goto, Finish, cache
<1>24. CASE DelAssoc(p)
  BY <1>24 DEF DelAssoc, Goto, cache
<1>25. CASE AddMember(p)
  BY <1>25 DEF AddMember, Goto, Land, cache
<1>26. CASE RemoveRows(p)
  BY <1>26 DEF RemoveRows, Goto, Land, cache
<1>27. CASE RemoveFromDocs(p)
  BY <1>27 DEF RemoveFromDocs, Goto, Land, cache
<1>28. CASE Delete(p)
  BY <1>28 DEF Delete, Goto, Land, cache
<1>29. CASE CreateDoc(p)
  BY <1>29 DEF CreateDoc, Goto, Land, PutDoc, cache
<1>30. CASE UpdateDoc(p)
  BY <1>30 DEF UpdateDoc, Goto, Land, PutDoc, cache
<1>31. CASE Recheck(p)
  BY <1>31 DEF Recheck, Goto, Finish, cache
<1>32. CASE StoreError(p)
  BY <1>32 DEF StoreError, Goto, Finish, Control
<1> QED
  BY <1>1, <1>2, <1>3, <1>4, <1>5, <1>6, <1>7, <1>8, <1>9, <1>10, <1>11, <1>12, <1>13, <1>14, <1>15, <1>16, <1>17, <1>18, <1>19, <1>20, <1>21, <1>22, <1>23, <1>24, <1>25, <1>26, <1>27, <1>28, <1>29, <1>30, <1>31, <1>32 DEF Work, Note

\* A handler that returns with its writes reported and without the cache's lock is
\* back where it started.
LEMMA FinishControl ==
    ASSUME NEW p \in Procs, ControlOK, Finish(p), ev'[p].t = "none", cmu' # p
    PROVE  Control(p)'
<1>1. pc'[p] = "idle" /\ req'[p] = NoReq /\ holds'[p] = "none"
  BY DEF Finish, Goto, ControlOK
<1>2. NoReq.op = "check"
  BY DEF NoReq, Request
<1> QED
  BY <1>1, <1>2 DEF Control, Target, Route, LockAt, EventUnder, ActorOps, UserOps, GroupOps,
                    IndexSteps, FreeSteps, SharedSteps, ExclusiveSteps

\* Each step takes a handler to a step it may be at, with the lock that goes with it.
LEMMA WorkControl ==
    ASSUME NEW p \in Procs, ControlOK, CacheOK, Control(p), Work(p) \/ StoreError(p)
    PROVE  Control(p)'
<1> USE ConstantTypes
    DEF ControlOK, Control, Target, Route, LockAt, EventUnder, ActorOps, UserOps, GroupOps,
        IndexSteps, FreeSteps, SharedSteps, ExclusiveSteps
<1>n. NoEvent.t = "none"
  BY DEF NoEvent
<1>1. CASE RLock(p)
  BY <1>1, <1>n DEF RLock, Goto, cache
<1>2. CASE Lock(p)
  BY <1>2, <1>n DEF Lock, Goto, cache
<1>3. CASE NoteDoc(p)
  BY <1>3, <1>n DEF NoteDoc, cache
<1>4. CASE NotePut(p)
  BY <1>4, <1>n DEF NotePut
<1>5. CASE NoteDel(p)
  BY <1>5, <1>n DEF NoteDel
<1>6. CASE GetRead(p)
  BY <1>6, <1>n DEF GetRead, At, Goto, cache
<1>7. CASE GetFresh(p)
  BY <1>7, <1>n DEF GetFresh, At, Goto, cache
<1>8. CASE GetLock(p)
  BY <1>8, <1>n DEF GetLock, At, Goto
<1>9. CASE RangeDocs(p)
  BY <1>9, <1>n DEF RangeDocs, At, Goto
<1>10. CASE RangeRows(p)
  BY <1>10, <1>n DEF RangeRows, At, Goto
<1>11. CASE UseIndex(p)
  BY <1>11, <1>n, FinishControl DEF UseIndex, At, Goto, cache
<1>12. CASE Create(p)
  BY <1>12, <1>n, FinishControl DEF Create, At, Goto, cache
<1>13. CASE FindUser(p)
  BY <1>13, <1>n, FinishControl DEF FindUser, At, Goto, cache
<1>14. CASE FindAssoc(p)
  BY <1>14, <1>n, FinishControl DEF FindAssoc, At, Goto, cache
<1>15. CASE FindInvite(p)
  BY <1>15, <1>n, FinishControl DEF FindInvite, At, Goto, cache
<1>16. CASE CheckInvite(p)
  BY <1>16, <1>n, FinishControl DEF CheckInvite, At, Goto, cache
<1>17. CASE Lookup(p)
  BY <1>17, <1>n, FinishControl DEF Lookup, At, Goto, cache
<1>18. CASE Done(p)
  BY <1>18, <1>n, FinishControl DEF Done, At, cache
<1>19. CASE ConsumeInvite(p)
  BY <1>19, <1>n, FinishControl DEF ConsumeInvite, At, Goto, cache
<1>20. CASE DropInvite(p)
  BY <1>20, <1>n, FinishControl DEF DropInvite, At, cache
<1>21. CASE DelInvite(p)
  BY <1>21, <1>n DEF DelInvite, At, Goto, cache
<1>22. CASE PutAssoc(p)
  BY <1>22, <1>n DEF PutAssoc, At, Goto, cache
<1>23. CASE PutInvite(p)
  BY <1>23, <1>n, FinishControl DEF PutInvite, At, cache
<1>24. CASE DelAssoc(p)
  BY <1>24, <1>n DEF DelAssoc, At, Goto, cache
<1>25. CASE AddMember(p)
  BY <1>25, <1>n DEF AddMember, At, Goto, Land, cache
<1>26. CASE RemoveRows(p)
  BY <1>26, <1>n DEF RemoveRows, At, Goto, Land, cache
<1>27. CASE RemoveFromDocs(p)
  <2>1. /\ pc[p] = "docs" /\ req'[p] = req[p] /\ holds'[p] = holds[p] /\ cmu' = cmu
        /\ ev'[p].t \in {"none", "doc"}
        /\ pc'[p] \in {"docs", "rows", "done", "delete"}
        /\ pc'[p] = "rows" => req[p].op = "deleteGroup"
        /\ pc'[p] = "delete" => req[p].op \notin {"deleteGroup", "disassociate"}
        /\ ev'[p].t # "none" => pc'[p] = "docs"
    <3>1. pc[p] = "docs" /\ req'[p] = req[p] /\ holds'[p] = holds[p] /\ cmu' = cmu /\ ev[p].t = "none"
      BY <1>27 DEF RemoveFromDocs, At, cache
    <3>2. CASE Land(p, "doc", {}) /\ UNCHANGED pc
      BY <3>1, <3>2 DEF Land
    <3>3. CASE /\ Goto(p, CASE req[p].op = "deleteGroup"  -> "rows"
                            [] req[p].op = "disassociate" -> "done"
                            [] OTHER                      -> "delete")
               /\ UNCHANGED ev
      BY <3>1, <3>3 DEF Goto
    <3> QED
      BY <1>27, <3>2, <3>3 DEF RemoveFromDocs
  <2> QED
    BY <2>1
<1>28. CASE Delete(p)
  BY <1>28, <1>n DEF Delete, At, Goto, Land, cache
<1>29. CASE CreateDoc(p)
  BY <1>29, <1>n DEF CreateDoc, At, Goto, Land, PutDoc, cache
<1>30. CASE UpdateDoc(p)
  BY <1>30, <1>n DEF UpdateDoc, At, Goto, Land, PutDoc, cache
<1>31. CASE Recheck(p)
  <2>1. ev'[p].t = "none" /\ cmu' # p
    BY <1>31 DEF Recheck, At, cache
  <2>2. CASE Finish(p)
    BY <2>1, <2>2, FinishControl
  <2>3. CASE req' = [req EXCEPT ![p].body = Merged(req[p])] /\ Goto(p, "rows") /\ UNCHANGED holds
    <3>1. req'[p].op = req[p].op /\ req'[p].on = req[p].on
      BY <2>3 DEF ReqType
    <3>2. pc'[p] = "rows" /\ holds'[p] = "exclusive" /\ req[p].op = "putGroup"
      BY <1>31, <2>3 DEF Recheck, At, Goto, Route, LockAt, ExclusiveSteps
    <3> QED
      BY <2>1, <3>1, <3>2
  <2> QED
    BY <1>31, <2>2, <2>3 DEF Recheck
<1>32. CASE StoreError(p)
  BY <1>32, <1>n, FinishControl DEF StoreError
<1> QED
  BY <1>1, <1>2, <1>3, <1>4, <1>5, <1>6, <1>7, <1>8, <1>9, <1>10, <1>11, <1>12, <1>13, <1>14, <1>15, <1>16, <1>17, <1>18, <1>19, <1>20, <1>21, <1>22, <1>23, <1>24, <1>25, <1>26, <1>27, <1>28, <1>29, <1>30, <1>31, <1>32 DEF Work, Note

\* The lock excludes: a writer enters when nobody holds it, a reader when no
\* writer does, and nobody else changes how it is held except to let go.
LEMMA WorkExclusion ==
    ASSUME NEW p \in Procs, ControlOK, Exclusion, Frame(p), Work(p) \/ StoreError(p)
    PROVE  Exclusion'
<1> USE DEF ControlOK
<1>1. CASE RLock(p)
  BY <1>1 DEF RLock, Exclusion, Frame
<1>2. CASE Lock(p)
  BY <1>2 DEF Lock, Exclusion, Frame
<1>3. CASE ~RLock(p) /\ ~Lock(p)
  <2>1. holds'[p] \in {holds[p], "none"}
    BY <1>3 DEF Work, Note, NoteDoc, NotePut, NoteDel, GetRead, GetFresh, GetLock, RangeDocs,
                RangeRows, UseIndex, Create, FindUser, FindAssoc, FindInvite, ConsumeInvite,
                PutAssoc, AddMember, Done, CheckInvite, PutInvite, DropInvite, Lookup, DelAssoc,
                DelInvite, RemoveRows, RemoveFromDocs, Delete, CreateDoc, Recheck, UpdateDoc,
                StoreError, Finish
  <2> QED
    BY <2>1 DEF Exclusion, Frame
<1> QED
  BY <1>1, <1>2, <1>3

LEMMA InitControl == Init => (\A p \in Procs : Control(p)) /\ Exclusion
<1> SUFFICES ASSUME Init PROVE (\A p \in Procs : Control(p)) /\ Exclusion
  OBVIOUS
<1>1. Exclusion
  BY DEF Init, Exclusion
<1>2. ASSUME NEW p \in Procs PROVE Control(p)
  <2>1. pc[p] = "idle" /\ req[p] = NoReq /\ holds[p] = "none" /\ ev[p] = NoEvent /\ cmu # p
    BY ConstantTypes DEF Init
  <2>2. NoReq.op = "check" /\ NoEvent.t = "none"
    BY DEF NoReq, Request, NoEvent
  <2> QED
    BY <2>1, <2>2 DEF Control, Target, Route, LockAt, EventUnder, ActorOps, UserOps, GroupOps,
                      IndexSteps, FreeSteps, SharedSteps, ExclusiveSteps
<1> QED
  BY <1>1, <1>2

LEMMA ArriveControl ==
    ASSUME NEW p \in Procs, StoreOK, CacheOK, ControlOK, \A q \in Procs : Control(q), Exclusion,
           Arrive(p)
    PROVE  Frame(p) /\ Control(p)' /\ Exclusion'
<1>1. PICK r \in ReqType, l \in Steps \cap (FreeSteps \cup {"getRead"}) :
         Target(r) /\ Route(l, r) /\ (l = "getRead" => r.op = "check") /\ Begin(p, r, l)
  BY ArriveBegins
<1>2. Frame(p) /\ Exclusion'
  BY <1>1 DEF Begin, Goto, Frame, Exclusion, ControlOK, cache
<1>3. /\ pc'[p] = l /\ req'[p] = r /\ holds'[p] = "none" /\ ev'[p].t = "none"
      /\ cmu' # p
  BY <1>1 DEF Begin, Goto, ControlOK, cache, Control, LockAt, EventUnder, FreeSteps, EvType
<1> QED
  BY <1>1, <1>2, <1>3 DEF Control, LockAt, EventUnder, FreeSteps, SharedSteps, ExclusiveSteps,
                          IndexSteps

\* Types and control are preserved by every step.
LEMMA NextTypeInv ==
    ASSUME TypeInv, [Next]_vars
    PROVE  TypeInv'
<1> USE TypeParts DEF TypeInv
<1>1. ASSUME NEW p \in Procs, Step(p) PROVE TypeInv'
  <2>1. CASE Arrive(p)
    <3>1. StoreOK' /\ CacheOK' /\ ControlOK'
      BY <2>1, ArriveBegins, BeginType
    <3>2. HistoryOK'
      BY <1>1, <3>1, HistoryType DEF Step
    <3>3. Frame(p) /\ Control(p)' /\ Exclusion'
      BY <2>1, ArriveControl
    <3>4. \A q \in Procs \ {p} : Control(q)'
      BY <3>3 DEF Frame, Control
    <3>5. TypeOK'
      BY <3>1, <3>2, PrimedParts
    <3> QED
      BY <3>3, <3>4, <3>5
  <2>2. CASE Work(p) \/ StoreError(p)
    <3>1. StoreOK' /\ CacheOK' /\ ControlOK'
      BY <2>2, WorkType DEF Control
    <3>2. HistoryOK'
      BY <1>1, <3>1, HistoryType DEF Step
    <3>3. Frame(p)
      BY <2>2, WorkFrame
    <3>4. Control(p)' /\ Exclusion'
      BY <2>2, <3>3, WorkControl, WorkExclusion
    <3>5. \A q \in Procs \ {p} : Control(q)'
      BY <3>3 DEF Frame, Control
    <3>6. TypeOK'
      BY <3>1, <3>2, PrimedParts
    <3> QED
      BY <3>4, <3>5, <3>6
  <2> QED
    BY <1>1, <2>1, <2>2 DEF Step
<1>2. CASE UNCHANGED vars
  BY <1>2 DEF vars, TypeOK, Control, Exclusion
<1> QED
  BY <1>1, <1>2 DEF Next, Quiet

\* Every variable keeps its type, for any number of goroutines, names and requests.
THEOREM TypeCorrect == Spec => []TypeOK
<1>1. Init => TypeInv
  BY InitType, InitControl DEF TypeInv
<1>2. TypeInv /\ [Next]_vars => TypeInv'
  BY NextTypeInv
<1>3. TypeInv => TypeOK
  BY DEF TypeInv
<1> QED
  BY <1>1, <1>2, <1>3, PTL DEF Spec

-----------------------------------------------------------------------------
(* The store changes only under the lock.                                   *)

Moves(p) == Arrive(p) \/ Work(p) \/ StoreError(p)

LEMMA ArriveKeeps ==
    ASSUME NEW p \in Procs, StoreOK, Arrive(p)
    PROVE  UNCHANGED <<store, gen, cache, holds, ev, held>> /\ pc[p] = "idle"
  BY ArriveBegins DEF Begin

LEMMA Writers ==
    ASSUME NEW p \in Procs, StoreOK, ControlOK, Control(p), Moves(p)
    PROVE  /\ holds[p] = "none" => UNCHANGED <<actors, assoc, groups, listed, rows>>
           /\ holds[p] = "shared" =>
                actors \subseteq actors' /\ rows \subseteq rows' /\ UNCHANGED <<groups, listed>>
<1>1. CASE Arrive(p)
  BY <1>1, ArriveKeeps DEF store
<1>2. CASE \/ Create(p) \/ ConsumeInvite(p) \/ PutAssoc(p) \/ AddMember(p)
  BY <1>2 DEF Control, LockAt, SharedSteps, At, Create, ConsumeInvite, PutAssoc, AddMember
<1>3. CASE \/ DelAssoc(p) \/ DelInvite(p) \/ RemoveRows(p) \/ RemoveFromDocs(p) \/ Delete(p)
           \/ CreateDoc(p) \/ UpdateDoc(p)
  BY <1>3 DEF Control, LockAt, ExclusiveSteps, At, DelAssoc, DelInvite, RemoveRows,
              RemoveFromDocs, Delete, CreateDoc, UpdateDoc
<1>4. CASE PutInvite(p) \/ DropInvite(p)
  BY <1>4 DEF PutInvite, DropInvite
<1>5. CASE UNCHANGED store
  BY <1>5 DEF store
<1>6. CASE \/ RLock(p) \/ Lock(p) \/ Note(p) \/ GetRead(p) \/ GetFresh(p) \/ GetLock(p)
           \/ RangeDocs(p) \/ RangeRows(p) \/ UseIndex(p) \/ FindUser(p) \/ FindAssoc(p)
           \/ FindInvite(p) \/ Done(p) \/ CheckInvite(p) \/ Lookup(p) \/ Recheck(p)
           \/ StoreError(p)
  BY <1>6, <1>5 DEF RLock, Lock, Note, NoteDoc, NotePut, NoteDel, GetRead, GetFresh, GetLock,
                    RangeDocs, RangeRows, UseIndex, FindUser, FindAssoc, FindInvite, Done,
                    CheckInvite, Lookup, Recheck, StoreError
<1> QED
  BY <1>1, <1>2, <1>3, <1>4, <1>6 DEF Moves, Work

LEMMA MovesFrame ==
    ASSUME NEW p \in Procs, TypeInv, Moves(p)
    PROVE  Frame(p)
  BY ArriveControl, WorkFrame, TypeParts DEF TypeInv, Moves

\* What another handler does leaves a handler's own facts alone.
LEMMA DataFrame ==
    ASSUME NEW p \in Procs, NEW q \in Procs \ {p}, TypeInv, DataAt(q), Moves(p)
    PROVE  DataAt(q)'
<1>1. StoreOK /\ CacheOK /\ ControlOK /\ Control(p) /\ Control(q) /\ Exclusion
  BY TypeParts DEF TypeInv
<1>2. pc'[q] = pc[q] /\ req'[q] = req[q]
  BY MovesFrame DEF Frame
<1>3. CASE holds[q] = "exclusive"
  <2>1. holds[p] = "none"
    BY <1>1, <1>3 DEF Exclusion
  <2>2. UNCHANGED <<actors, assoc, groups, listed, rows>>
    BY <1>1, <2>1, Writers
  <2> QED
    BY <1>2, <2>2 DEF DataAt
<1>4. CASE holds[q] = "shared"
  <2>1. holds[p] # "exclusive"
    BY <1>1, <1>4 DEF Exclusion
  <2>2. actors \subseteq actors'
    BY <1>1, <2>1, Writers DEF ControlOK
  <2>3. pc[q] \notin {"delInvite", "rows", "docs", "delete", "putDoc", "createDoc"}
    BY <1>1, <1>4 DEF Control, LockAt, ExclusiveSteps
  <2> QED
    BY <1>2, <2>2, <2>3 DEF DataAt
<1>5. CASE holds[q] = "none"
  <2>1. pc[q] \notin {"addMember", "delInvite", "rows", "docs", "delete", "putDoc", "createDoc"}
    BY <1>1, <1>5 DEF Control, LockAt, ExclusiveSteps, SharedSteps
  <2> QED
    BY <1>2, <2>1 DEF DataAt
<1> QED
  BY <1>1, <1>3, <1>4, <1>5 DEF ControlOK

\* What a handler does itself.
LEMMA DataOwn ==
    ASSUME NEW p \in Procs, TypeInv, DataAt(p), Moves(p)
    PROVE  DataAt(p)'
<1>t. StoreOK /\ CacheOK /\ ControlOK /\ Control(p)
  BY TypeParts DEF TypeInv
<1> DEFINE Busy == {"addMember", "delInvite", "rows", "docs", "delete", "putDoc", "createDoc"}
<1>0. CASE pc'[p] \notin Busy
  BY <1>0 DEF DataAt
<1>1. CASE Arrive(p)
  <2>1. pc'[p] \in FreeSteps \cup {"getRead"}
    BY <1>1, <1>t, ArriveBegins DEF Begin, Goto, ControlOK
  <2> QED
    BY <2>1, <1>0 DEF FreeSteps
<1>2. CASE \/ RLock(p) \/ GetRead(p) \/ GetFresh(p) \/ GetLock(p) \/ RangeDocs(p)
           \/ RangeRows(p) \/ FindUser(p) \/ FindAssoc(p) \/ FindInvite(p) \/ ConsumeInvite(p)
           \/ AddMember(p) \/ Done(p) \/ CheckInvite(p) \/ PutInvite(p) \/ DropInvite(p)
           \/ Delete(p) \/ CreateDoc(p) \/ UpdateDoc(p) \/ StoreError(p)
  <2>1. pc'[p] \notin Busy
    BY <1>2, <1>t DEF ControlOK, RLock, GetRead, GetFresh, GetLock, RangeDocs, RangeRows,
         FindUser, FindAssoc, FindInvite, ConsumeInvite, AddMember, Done, CheckInvite,
         PutInvite, DropInvite, Delete, CreateDoc, UpdateDoc, StoreError, Goto, Finish
  <2> QED
    BY <2>1, <1>0
<1>3. CASE UNCHANGED <<store, pc, req>>
  BY <1>3 DEF DataAt, store
<1>4. CASE Note(p)
  BY <1>4, <1>3 DEF Note, NoteDoc, NotePut, NoteDel
<1>5. CASE Lock(p)
  <2>1. pc'[p] \in Busy => pc'[p] = "rows" /\ req'[p].op = "createGroup"
    BY <1>5, <1>t DEF Lock, Goto, ControlOK
  <2> QED
    BY <2>1, <1>0 DEF DataAt
<1>6. CASE UseIndex(p)
  <2>1. pc'[p] \in {"idle", "delAssoc"}
    BY <1>6, <1>t DEF UseIndex, Finish, Goto, ControlOK
  <2> QED
    BY <2>1, <1>0
<1>7. CASE Create(p)
  <2>1. pc'[p] \in Busy => pc'[p] = "addMember" /\ req'[p] = req[p] /\ req[p].on \in actors'
    BY <1>7, <1>t DEF Create, Finish, Goto, ControlOK
  <2> QED
    BY <2>1, <1>0 DEF DataAt
<1>8. CASE PutAssoc(p)
  <2>1. pc'[p] = "addMember" /\ req'[p] = req[p] /\ req[p].op # "createActor"
    BY <1>8, <1>t DEF PutAssoc, At, Goto, ControlOK, Control, Route
  <2> QED
    BY <2>1 DEF DataAt
<1>9. CASE Lookup(p)
  <2>1. CASE pc'[p] = "rows"
    <3>1. req'[p] = req[p] /\ req[p].on \notin Users /\ UNCHANGED store
      BY <1>9, <2>1, <1>t DEF Lookup, Finish, Goto, ControlOK
    <3>2. req[p].on \notin assoc'
      BY <3>1, <1>t DEF StoreOK, store
    <3>3. req[p].op # "putGroup"
      BY <1>9, <1>t DEF Lookup, At, Control, Route
    <3> QED
      BY <2>1, <3>1, <3>2, <3>3 DEF DataAt
  <2>2. CASE pc'[p] # "rows"
    <3>1. pc'[p] \in Busy => pc'[p] = "docs" /\ req'[p] = req[p] /\ req[p].op = "deleteGroup"
      BY <1>9, <2>2, <1>t DEF Lookup, At, Finish, Goto, ControlOK, Control, Route
    <3> QED
      BY <3>1, <1>0 DEF DataAt
  <2> QED
    BY <2>1, <2>2
<1>10. CASE DelAssoc(p)
  <2>1. req'[p] = req[p] /\ req[p].on \notin assoc'
    BY <1>10 DEF DelAssoc
  <2>2. pc'[p] \in {"rows", "delInvite"} /\ req[p].op # "putGroup"
    BY <1>10, <1>t DEF DelAssoc, At, Goto, ControlOK, Control, Route
  <2> QED
    BY <2>1, <2>2 DEF DataAt
<1>11. CASE DelInvite(p)
  <2>1. pc'[p] = "rows" /\ pc[p] = "delInvite" /\ req'[p] = req[p] /\ assoc' = assoc
    BY <1>11, <1>t DEF DelInvite, At, Goto, ControlOK
  <2>2. req[p].op = "deleteActor"
    BY <2>1, <1>t DEF Control, Route
  <2> QED
    BY <2>1, <2>2 DEF DataAt
<1>12. CASE RemoveRows(p)
  <2>1. /\ pc[p] = "rows" /\ req'[p] = req[p]
        /\ actors' = actors /\ assoc' = assoc /\ groups' = groups
    BY <1>12 DEF RemoveRows, At, store
  <2>2. CASE UNCHANGED pc
    BY <2>1, <2>2 DEF DataAt
  <2>3. CASE /\ RowTargets(p) = {} /\ UNCHANGED store
             /\ Goto(p, CASE req[p].op = "createGroup" -> "createDoc"
                          [] req[p].op = "putGroup"    -> "putDoc"
                          [] req[p].op = "deleteGroup" -> "delete"
                          [] OTHER                     -> "docs")
    <3>1. req[p].op \in GroupOps => req[p].on \in Groups
      BY <1>t DEF Control, Target
    <3>2. req[p].op = "deleteActor" => req[p].on \notin Groups
      BY <1>t, NamesDisjoint DEF Control, Target, ActorOps
    <3>3. /\ req[p].on \in Groups => \A r \in rows : r[1] # req[p].on
          /\ req[p].on \notin Groups => \A r \in rows : r[2] # req[p].on
      BY <2>3 DEF RowTargets
    <3>4. /\ pc'[p] \in {"createDoc", "putDoc", "delete", "docs"}
          /\ pc'[p] = "createDoc" => req[p].op = "createGroup"
          /\ pc'[p] = "putDoc" => req[p].op = "putGroup"
          /\ pc'[p] = "delete" => req[p].op = "deleteGroup"
      BY <2>3, <1>t DEF Goto, ControlOK
    <3>5. rows' = rows /\ listed' = listed
      BY <2>3 DEF store
    <3>6. req[p].op = "deleteActor" => \A g \in Groups : <<g, req[p].on>> \notin rows
      BY <3>2, <3>3
    <3>7. pc'[p] \in {"createDoc", "putDoc"} => \A r \in rows : r[1] # req[p].on
      BY <3>1, <3>3, <3>4 DEF GroupOps
    <3> QED
      BY <2>1, <3>4, <3>5, <3>6, <3>7 DEF DataAt
  <2> QED
    BY <1>12, <2>2, <2>3 DEF RemoveRows
<1>13. CASE RemoveFromDocs(p)
  <2>1. /\ pc[p] = "docs" /\ req'[p] = req[p] /\ rows' = rows
        /\ actors' = actors /\ assoc' = assoc /\ groups' = groups
    BY <1>13 DEF RemoveFromDocs, At, store
  <2>2. CASE UNCHANGED pc
    BY <2>1, <2>2 DEF DataAt
  <2>3. CASE /\ \A g \in Groups : <<g, req[p].on>> \notin listed /\ UNCHANGED store
             /\ Goto(p, CASE req[p].op = "deleteGroup"  -> "rows"
                          [] req[p].op = "disassociate" -> "done"
                          [] OTHER                      -> "delete")
    <3>1. /\ pc'[p] \in {"rows", "done", "delete"}
          /\ pc'[p] = "rows" => req[p].op = "deleteGroup"
      BY <2>3, <1>t DEF Goto, ControlOK
    <3>2. \A g \in Groups : <<g, req[p].on>> \notin listed'
      BY <2>3 DEF store
    <3> QED
      BY <2>1, <3>1, <3>2 DEF DataAt
  <2> QED
    BY <1>13, <2>2, <2>3 DEF RemoveFromDocs
<1>14. CASE Recheck(p)
  <2>1. CASE pc'[p] \in Busy
    <3>1. pc'[p] = "rows" /\ req' = [req EXCEPT ![p].body = Merged(req[p])] /\ UNCHANGED store
      BY <1>14, <2>1, <1>t DEF Recheck, Finish, Goto, ControlOK
    <3>2. req[p].op = "putGroup"
      BY <1>14, <1>t DEF Recheck, At, Control, Route
    <3>3. req'[p].op = "putGroup" /\ req'[p].body = Merged(req[p])
      BY <3>1, <3>2, <1>t DEF ControlOK, ReqType
    <3>4. req'[p].body \subseteq actors' \cup groups'
      BY <3>1, <3>3 DEF Merged, store
    <3> QED
      BY <3>1, <3>3, <3>4 DEF DataAt
  <2> QED
    BY <2>1, <1>0
<1> QED
  BY <1>1, <1>2, <1>4, <1>5, <1>6, <1>7, <1>8, <1>9, <1>10, <1>11, <1>12, <1>13, <1>14
     DEF Moves, Work

\* A client's row is written while the client exists, and the client is deleted
\* once its rows are gone.
LEMMA ClientRowsStep ==
    ASSUME NEW p \in Procs, TypeInv, DataAt(p), ClientRowsNameClients, Moves(p)
    PROVE  ClientRowsNameClients'
<1>t. StoreOK /\ CacheOK /\ ControlOK /\ Control(p)
  BY TypeParts DEF TypeInv
<1>1. CASE AddMember(p)
  <2>1. req[p].on \in Clients => req[p].on \in actors
    <3>1. req[p].op \in UserOps => req[p].on \notin Clients
      BY <1>t, NamesDisjoint DEF Control, Target
    <3>2. pc[p] = "addMember" /\ req[p].op \in {"createActor", "associate", "respond"}
      BY <1>1, <1>t DEF AddMember, At, Control, Route
    <3> QED
      BY <3>1, <3>2 DEF DataAt, UserOps
  <2>2. \A r \in rows' \ rows : r[2] = req[p].on
    BY <1>1 DEF AddMember
  <2>3. actors' = actors
    BY <1>1 DEF AddMember
  <2> QED
    BY <2>1, <2>2, <2>3 DEF ClientRowsNameClients
<1>2. CASE Delete(p)
  <2>1. rows' = rows /\ pc[p] = "delete"
    BY <1>2 DEF Delete, At
  <2>2. CASE req[p].op = "deleteActor"
    <3>1. actors' = actors \ {req[p].on}
      BY <1>2, <2>2 DEF Delete
    <3>2. \A r \in rows : r[2] # req[p].on
      BY <2>1, <2>2, <1>t DEF DataAt, StoreOK
    <3> QED
      BY <2>1, <3>1, <3>2 DEF ClientRowsNameClients
  <2>3. CASE req[p].op # "deleteActor"
    <3>1. actors' = actors
      BY <1>2, <2>3 DEF Delete
    <3> QED
      BY <2>1, <3>1 DEF ClientRowsNameClients
  <2> QED
    BY <2>2, <2>3
<1>3. CASE ~AddMember(p) /\ ~Delete(p)
  <2>1. actors \subseteq actors' /\ rows' \subseteq rows
    <3>1. CASE Arrive(p)
      BY <3>1, <1>t, ArriveKeeps DEF store
    <3>2. CASE Work(p) \/ StoreError(p)
      BY <3>2, <1>3 DEF Work, Note, NoteDoc, NotePut, NoteDel, RLock, Lock, GetRead, GetFresh,
           GetLock, RangeDocs, RangeRows, UseIndex, Create, FindUser, FindAssoc, FindInvite,
           ConsumeInvite, PutAssoc, Done, CheckInvite, PutInvite, DropInvite, Lookup, DelAssoc,
           DelInvite, RemoveRows, RemoveFromDocs, CreateDoc, PutDoc, Recheck, UpdateDoc,
           StoreError, store
    <3> QED
      BY <3>1, <3>2 DEF Moves
  <2> QED
    BY <2>1 DEF ClientRowsNameClients
<1> QED
  BY <1>1, <1>2, <1>3

LEMMA NextDataInv ==
    ASSUME TypeInv, DataInv, [Next]_vars
    PROVE  DataInv'
<1>1. ASSUME NEW p \in Procs, Step(p) PROVE DataInv'
  <2>1. Moves(p)
    BY <1>1 DEF Step, Moves
  <2> QED
    BY <2>1, DataOwn, DataFrame, ClientRowsStep DEF DataInv
<1>2. CASE UNCHANGED vars
  BY <1>2 DEF vars, DataInv, DataAt, ClientRowsNameClients
<1> QED
  BY <1>1, <1>2 DEF Next, Quiet

LEMMA InitDataInv == Init => DataInv
<1> SUFFICES ASSUME Init PROVE DataInv
  OBVIOUS
<1>1. \A p \in Procs : pc[p] = "idle"
  BY DEF Init
<1>2. \A r \in rows : r[2] \notin Clients
  BY ConstantTypes, NamesDisjoint DEF Init
<1> QED
  BY <1>1, <1>2 DEF DataInv, DataAt, ClientRowsNameClients

LEMMA DataInvariant == Spec => [](TypeInv /\ DataInv)
<1>1. Init => TypeInv /\ DataInv
  BY InitType, InitControl, InitDataInv DEF TypeInv
<1>2. (TypeInv /\ DataInv) /\ [Next]_vars => (TypeInv /\ DataInv)'
  BY NextTypeInv, NextDataInv
<1> QED
  BY <1>1, <1>2, PTL DEF Spec

\* However registrations, deletions and failures interleave, a client's
\* membership row never outlives the client.
THEOREM RowsNameClients == Spec => []ClientRowsNameClients
<1>1. DataInv => ClientRowsNameClients
  BY DEF DataInv
<1> QED
  BY <1>1, DataInvariant, PTL

\* Whatever the other requests are, none of them revokes a member, or changes the
\* group, between a group update's read and its write.
THEOREM UpdatesNotUndoing == Spec => UpdatesAreIsolated
<1> DEFINE Isolated == \A p \in Procs : Updating(p) => Undisturbed(p)
<1>1. TypeInv /\ DataInv /\ [Next]_vars => [Isolated]_vars
  <2> SUFFICES ASSUME TypeInv, DataInv, Next, NEW q \in Procs, Updating(q) PROVE Undisturbed(q)
    BY DEF vars, Isolated
  <2>q. /\ StoreOK /\ ControlOK /\ Control(q) /\ Exclusion
        /\ req[q].body \subseteq actors \cup groups
        /\ holds[q] = "exclusive"
    BY TypeParts DEF TypeInv, DataInv, DataAt, Updating, Control, LockAt, ExclusiveSteps
  <2>1. CASE UNCHANGED <<actors, assoc, groups, listed, rows>>
    BY <2>1, <2>q DEF Effective, Undisturbed
  <2>2. ASSUME NEW p \in Procs, Moves(p) PROVE Undisturbed(q)
    <3>1. CASE p # q
      <4>1. holds[p] = "none" /\ Control(p)
        BY <3>1, <2>q DEF Exclusion, TypeInv
      <4> QED
        BY <2>1, <2>2, <2>q, <4>1, Writers
    <3>2. CASE p = q
      <4>1. CASE Arrive(q)
        BY <4>1, <2>q, <2>1, ArriveKeeps DEF store
      <4>2. CASE RemoveRows(q) \/ UpdateDoc(q)
        <5>1. /\ actors' = actors /\ groups \subseteq groups' /\ assoc' = assoc
              /\ UNCHANGED <<listed, rows>> \/ ev'[q].t \in {"del", "doc"}
          BY <4>2, <2>q DEF RemoveRows, UpdateDoc, PutDoc, Land, ControlOK, store
        <5>2. ev[q].t = "none"
          BY <4>2 DEF RemoveRows, UpdateDoc, At
        <5> QED
          BY <5>1, <5>2, <2>q DEF Effective, Undisturbed
      <4>3. CASE Note(q) \/ StoreError(q)
        BY <4>3, <2>1 DEF Note, NoteDoc, NotePut, NoteDel, StoreError, store
      <4> QED
        BY <2>2, <3>2, <4>1, <4>2, <4>3 DEF Updating, Moves, Work, RLock, Lock, GetRead, GetFresh,
             GetLock, RangeDocs, RangeRows, UseIndex, Create, FindUser, FindAssoc, FindInvite,
             ConsumeInvite, PutAssoc, AddMember, Done, CheckInvite, PutInvite, DropInvite, Lookup,
             DelAssoc, DelInvite, RemoveFromDocs, Delete, CreateDoc, Recheck, At
    <3> QED
      BY <3>1, <3>2
  <2>3. CASE Quiet
    BY <2>3, <2>1 DEF Quiet, vars
  <2> QED
    BY <2>2, <2>3 DEF Next, Step, Moves
<1> QED
  BY <1>1, DataInvariant, PTL DEF Spec, UpdatesAreIsolated

\* An actor is deleted only when no row, group document or member list names it.
THEOREM DeletesAreClean == Spec => CleanDelete
<1> DEFINE Clean == \A a \in actors \ actors' :
                      a \notin assoc /\ \A g \in Groups : <<g, a>> \notin Effective
<1>1. TypeInv /\ DataInv /\ [Next]_vars => [Clean]_vars
  <2> SUFFICES ASSUME TypeInv, DataInv, Next PROVE Clean
    BY DEF vars, Clean
  <2>1. ASSUME NEW p \in Procs, Moves(p) PROVE Clean
    <3>1. CASE Delete(p) /\ req[p].op = "deleteActor"
      <4>1. pc[p] = "delete" /\ actors' = actors \ {req[p].on}
        BY <3>1 DEF Delete, At
      <4> QED
        BY <3>1, <4>1 DEF DataInv, DataAt, Effective
    <3>2. CASE ~(Delete(p) /\ req[p].op = "deleteActor")
      <4>1. actors \subseteq actors'
        BY <2>1, <3>2, TypeParts, ArriveKeeps DEF TypeInv, Moves, Work, Note, NoteDoc, NotePut,
             NoteDel, RLock, Lock, GetRead, GetFresh, GetLock, RangeDocs, RangeRows, UseIndex,
             Create, FindUser, FindAssoc, FindInvite, ConsumeInvite, PutAssoc, AddMember, Done,
             CheckInvite, PutInvite, DropInvite, Lookup, DelAssoc, DelInvite, RemoveRows,
             RemoveFromDocs, Delete, CreateDoc, PutDoc, Recheck, UpdateDoc, StoreError, store
      <4> QED
        BY <4>1
    <3> QED
      BY <3>1, <3>2
  <2>2. CASE Quiet
    BY <2>2 DEF Quiet, vars
  <2> QED
    BY <2>1, <2>2 DEF Next, Step, Moves
<1> QED
  BY <1>1, DataInvariant, PTL DEF Spec, CleanDelete

-----------------------------------------------------------------------------
(* The index.                                                               *)

\* While a write is unreported, what it changed is neither certain nor excluded.
LEMMA LandSandwich ==
    ASSUME NEW p \in Procs, NEW t, NEW add, ControlOK, ev[p].in = {}, ev[p].out = {},
           Land(p, t, add)
    PROVE  /\ MustHold' \subseteq MustHold
           /\ MayHold \subseteq MayHold'
           /\ ev'[p].t = t /\ ev'[p].add = add
           /\ ev'[p].in = Effective' \ Effective /\ ev'[p].out = Effective \ Effective'
<1>1. /\ ev'[p].t = t /\ ev'[p].add = add
      /\ ev'[p].in = Effective' \ Effective /\ ev'[p].out = Effective \ Effective'
  BY DEF Land, ControlOK
<1>2. \A q \in Procs \ {p} : ev'[q] = ev[q]
  BY DEF Land, ControlOK
<1>3. MustHold' \subseteq MustHold
  BY <1>1, <1>2 DEF MustHold
<1>4. MayHold \subseteq MayHold'
  BY <1>1, <1>2 DEF MayHold
<1> QED
  BY <1>1, <1>3, <1>4

\* The steps that touch neither the membership nor the cache.
Still(p) ==
    /\ UNCHANGED <<listed, rows, gen, cached, idx, ev>>
    /\ \A q \in Procs : pc'[q] = "rangeRows" => pc[q] = "rangeRows" /\ build' = build
    /\ build'.gen \in {0, build.gen}
    /\ \A q \in Procs : held'[q].gen \in {0, held[q].gen, idx.gen}

\* The steps that write a row, remove a row, or write a document.  A document
\* write never lists a member that still has a row of that group.
Lands(p) ==
    /\ ev[p].t = "none"
    /\ UNCHANGED <<gen, cached, idx, build, held>>
    /\ pc'[p] # "rangeRows"
    /\ \/ \E row : Land(p, "put", {row}) /\ rows' = rows \cup {row} /\ listed' = listed
       \/ Land(p, "del", {}) /\ rows' \subseteq rows /\ listed' = listed
       \/ Land(p, "doc", {}) /\ rows' = rows /\ (listed' \ listed) \cap rows = {}

\* Every step is of one of these kinds, or reports a write, or builds an index.
LEMMA StepKinds ==
    ASSUME NEW p \in Procs, TypeInv, DataAt(p), Moves(p)
    PROVE  \/ Still(p) \/ Lands(p) \/ Note(p)
           \/ GetLock(p) \/ RangeDocs(p) \/ RangeRows(p)
<1>t. StoreOK /\ CacheOK /\ ControlOK /\ \A q \in Procs : Control(q)
  BY TypeParts DEF TypeInv
<1>f. Frame(p)
  BY MovesFrame
<1>0. NoHeld.gen = 0 /\ NoIndex.gen = 0
  BY DEF NoHeld, NoIndex
<1>1. CASE Arrive(p)
  <2>1. UNCHANGED <<listed, rows, gen, cached, idx, ev, build, held>>
    BY <1>1, <1>t, ArriveKeeps DEF store, cache
  <2>2. pc'[p] # "rangeRows"
    BY <1>1, <1>t, ArriveBegins DEF Begin, Goto, ControlOK, FreeSteps
  <2> QED
    BY <1>f, <2>1, <2>2 DEF Still, Frame
<1>2. CASE StoreError(p)
  <2>1. UNCHANGED <<listed, rows, gen, cached, idx, ev>> /\ pc'[p] = "idle"
    BY <1>2, <1>t DEF StoreError, store, Finish, Goto, ControlOK
  <2>2. \A q \in Procs : held'[q].gen \in {0, held[q].gen}
    BY <1>0, <1>2, <1>t DEF StoreError, Finish, ControlOK
  <2>3. build'.gen \in {0, build.gen}
    BY <1>0, <1>2 DEF StoreError
  <2>4. ASSUME NEW q \in Procs, pc'[q] = "rangeRows"
        PROVE  pc[q] = "rangeRows" /\ build' = build
    <3>1. q # p /\ pc[q] = "rangeRows"
      BY <1>f, <2>1, <2>4 DEF Frame
    <3>2. cmu = q
      BY <1>t, <3>1 DEF Control
    <3> QED
      BY <1>2, <3>1, <3>2 DEF StoreError
  <2> QED
    BY <2>1, <2>2, <2>3, <2>4 DEF Still
<1>3. CASE \/ RLock(p) \/ Lock(p) \/ GetRead(p) \/ GetFresh(p) \/ UseIndex(p) \/ Create(p)
           \/ FindUser(p) \/ FindAssoc(p) \/ FindInvite(p) \/ ConsumeInvite(p) \/ PutAssoc(p)
           \/ Done(p) \/ CheckInvite(p) \/ PutInvite(p) \/ DropInvite(p) \/ Lookup(p)
           \/ DelAssoc(p) \/ DelInvite(p) \/ Recheck(p)
  <2>1. UNCHANGED <<listed, rows, gen, cached, idx, ev, build>>
    BY <1>3 DEF RLock, Lock, GetRead, GetFresh, UseIndex, Create, FindUser, FindAssoc,
         FindInvite, ConsumeInvite, PutAssoc, Done, CheckInvite, PutInvite, DropInvite, Lookup,
         DelAssoc, DelInvite, Recheck, store, cache
  <2>2. pc'[p] # "rangeRows"
    BY <1>3, <1>t DEF RLock, Lock, GetRead, GetFresh, UseIndex, Create, FindUser, FindAssoc,
         FindInvite, ConsumeInvite, PutAssoc, Done, CheckInvite, PutInvite, DropInvite, Lookup,
         DelAssoc, DelInvite, Recheck, Goto, Finish, ControlOK
  <2>3. \A q \in Procs : held'[q].gen \in {0, held[q].gen, idx.gen}
    BY <1>0, <1>3, <1>t DEF RLock, Lock, GetRead, GetFresh, UseIndex, Create, FindUser,
         FindAssoc, FindInvite, ConsumeInvite, PutAssoc, Done, CheckInvite, PutInvite,
         DropInvite, Lookup, DelAssoc, DelInvite, Recheck, Finish, ControlOK
  <2> QED
    BY <1>f, <2>1, <2>2, <2>3 DEF Still, Frame
<1>4. CASE AddMember(p)
  BY <1>4, <1>t DEF AddMember, At, Goto, Lands, ControlOK, cache
<1>5. CASE RemoveRows(p)
  <2>1. pc'[p] # "rangeRows"
    BY <1>5, <1>t DEF RemoveRows, At, Goto, ControlOK
  <2>2. CASE UNCHANGED <<store, ev>>
    BY <1>5, <1>f, <2>1, <2>2 DEF RemoveRows, Still, Frame, store, cache
  <2>3. CASE Land(p, "del", {}) /\ rows' \subseteq rows /\ listed' = listed
    BY <1>5, <2>1, <2>3 DEF RemoveRows, At, Lands, cache
  <2> QED
    BY <1>5, <2>2, <2>3 DEF RemoveRows
<1>6. CASE RemoveFromDocs(p)
  <2>1. pc'[p] # "rangeRows"
    BY <1>6, <1>t DEF RemoveFromDocs, At, Goto, ControlOK
  <2>2. CASE UNCHANGED <<store, ev>>
    BY <1>6, <1>f, <2>1, <2>2 DEF RemoveFromDocs, Still, Frame, store, cache
  <2>3. CASE Land(p, "doc", {}) /\ rows' = rows /\ listed' \subseteq listed
    BY <1>6, <2>1, <2>3 DEF RemoveFromDocs, At, Lands, cache
  <2> QED
    BY <1>6, <2>2, <2>3 DEF RemoveFromDocs
<1>7. CASE Delete(p)
  <2>1. pc'[p] # "rangeRows"
    BY <1>7, <1>t DEF Delete, Goto, ControlOK
  <2>2. CASE UNCHANGED <<listed, rows, ev>>
    BY <1>7, <1>f, <2>1, <2>2 DEF Delete, Still, Frame, cache
  <2>3. CASE Land(p, "doc", {}) /\ rows' = rows /\ listed' \subseteq listed
    BY <1>7, <2>1, <2>3 DEF Delete, At, Lands, cache
  <2> QED
    BY <1>7, <2>2, <2>3 DEF Delete
<1>8. CASE CreateDoc(p) \/ UpdateDoc(p)
  <2>1. pc'[p] # "rangeRows" /\ ev[p].t = "none" /\ pc[p] \in {"createDoc", "putDoc"}
    BY <1>8, <1>t DEF CreateDoc, UpdateDoc, At, Goto, ControlOK
  <2>2. UNCHANGED <<gen, cached, idx, build, held>>
    BY <1>8 DEF CreateDoc, UpdateDoc, cache
  <2>3. CASE UNCHANGED <<store, ev>>
    BY <1>f, <2>1, <2>2, <2>3 DEF Still, Frame, store
  <2>4. CASE PutDoc(p, req[p].on, req[p].body)
    <3>1. rows' = rows /\ Land(p, "doc", {})
      BY <2>4 DEF PutDoc
    <3>2. \A r \in listed' \ listed : r[1] = req[p].on
      BY <2>4 DEF PutDoc
    <3>3. (listed' \ listed) \cap rows = {}
      BY <2>1, <3>2 DEF DataAt
    <3> QED
      BY <2>1, <2>2, <3>1, <3>3 DEF Lands
  <2> QED
    BY <1>8, <2>3, <2>4 DEF CreateDoc, UpdateDoc
<1> QED
  BY <1>1, <1>2, <1>3, <1>4, <1>5, <1>6, <1>7, <1>8 DEF Moves, Work

\* What is certain, and what is possible, once p has reported.
LEMMA NoteSandwich ==
    ASSUME NEW p \in Procs, ControlOK, UNCHANGED <<listed, rows>>,
           ev' = [ev EXCEPT ![p] = NoEvent]
    PROVE  /\ MustHold' \subseteq MustHold \cup ev[p].in
           /\ MayHold \subseteq MayHold' \cup ev[p].out
           /\ MustHold \subseteq MustHold'
           /\ MayHold' \subseteq MayHold
           /\ ev'[p].t = "none" /\ ev'[p].in = {} /\ ev'[p].out = {}
<1>1. ev'[p].t = "none" /\ ev'[p].in = {} /\ ev'[p].out = {}
  BY DEF ControlOK, NoEvent
<1>2. \A q \in Procs \ {p} : ev'[q] = ev[q]
  BY DEF ControlOK
<1>3. Effective' = Effective
  BY DEF Effective
<1>4. MustHold' \subseteq MustHold \cup ev[p].in /\ MustHold \subseteq MustHold'
  BY <1>1, <1>2, <1>3 DEF MustHold
<1>5. MayHold \subseteq MayHold' \cup ev[p].out /\ MayHold' \subseteq MayHold
  BY <1>1, <1>2, <1>3 DEF MayHold
<1> QED
  BY <1>1, <1>4, <1>5

LEMMA StillHolds ==
    ASSUME UNCHANGED <<listed, rows, ev>>
    PROVE  Effective' = Effective /\ MayHold' = MayHold /\ MustHold' = MustHold
  BY DEF Effective, MayHold, MustHold

LEMMA EventStep ==
    ASSUME NEW p \in Procs, TypeInv, DataAt(p), \A q \in Procs : EventAt(q), Moves(p)
    PROVE  \A q \in Procs : EventAt(q)'
<1>t. /\ StoreOK /\ CacheOK /\ ControlOK /\ Exclusion
      /\ \A q \in Procs : Control(q)
  BY TypeParts DEF TypeInv
<1>1. ASSUME NEW q \in Procs \ {p} PROVE EventAt(q)'
  <2>1. ev'[q] = ev[q]
    BY MovesFrame DEF Frame
  <2>2. CASE ev[q].t = "put"
    <3>1. holds[p] # "exclusive"
      BY <1>t, <2>2 DEF Control, EventUnder, Exclusion
    <3>2. rows \subseteq rows'
      BY <1>t, <3>1, Writers DEF ControlOK
    <3> QED
      BY <2>1, <2>2, <3>2 DEF EventAt
  <2> QED
    BY <2>1, <2>2 DEF EventAt
<1>2. EventAt(p)'
  <2>1. CASE UNCHANGED <<rows, ev>>
    BY <2>1 DEF EventAt
  <2>2. CASE Note(p)
    <3>1. ev' = [ev EXCEPT ![p] = NoEvent]
      BY <2>2 DEF Note, NoteDoc, NotePut, NoteDel
    <3>2. ev'[p].t = "none" /\ ev'[p].in = {} /\ ev'[p].out = {}
      BY <1>t, <3>1 DEF ControlOK, NoEvent
    <3> QED
      BY <3>2 DEF EventAt
  <2>3. CASE Lands(p)
    <3>1. ev[p].t = "none" /\ ev[p].in = {} /\ ev[p].out = {}
      BY <2>3 DEF Lands, EventAt
    <3>2. ASSUME NEW row, Land(p, "put", {row}), rows' = rows \cup {row}, listed' = listed
          PROVE  EventAt(p)'
      <4>1. /\ ev'[p].t = "put" /\ ev'[p].add = {row}
            /\ ev'[p].in = Effective' \ Effective /\ ev'[p].out = Effective \ Effective'
        BY <1>t, <3>1, <3>2, LandSandwich
      <4>2. Effective' = Effective \cup {row}
        BY <3>2 DEF Effective
      <4> QED
        BY <3>2, <4>1, <4>2 DEF EventAt
    <3>3. CASE Land(p, "del", {}) \/ Land(p, "doc", {})
      <4>1. ev'[p].t \in {"del", "doc"}
        BY <1>t, <3>1, <3>3, LandSandwich
      <4> QED
        BY <4>1 DEF EventAt
    <3> QED
      BY <2>3, <3>2, <3>3 DEF Lands
  <2>4. CASE GetLock(p) \/ RangeDocs(p) \/ RangeRows(p)
    BY <2>1, <2>4 DEF GetLock, RangeDocs, RangeRows, store
  <2> QED
    BY <2>1, <2>2, <2>3, <2>4, StepKinds DEF Still
<1> QED
  BY <1>1, <1>2

LEMMA GenStep ==
    ASSUME NEW p \in Procs, TypeInv, DataAt(p), GenInv, Moves(p)
    PROVE  GenInv' /\ gen <= gen'
<1>t. CacheOK /\ ControlOK
  BY TypeParts DEF TypeInv
<1>n. /\ gen \in Nat /\ idx.gen \in Nat /\ build.gen \in Nat
      /\ \A q \in Procs : held[q].gen \in Nat
  BY <1>t DEF CacheOK, ControlOK, IndexType, HeldType
<1>1. CASE Still(p)
  BY <1>1, <1>n DEF Still, GenInv
<1>2. CASE Lands(p)
  BY <1>2, <1>n DEF Lands, GenInv
<1>3. CASE NoteDoc(p)
  BY <1>3, <1>n DEF NoteDoc, GenInv, cache
<1>4. CASE NotePut(p)
  <2>1. gen' = gen /\ build' = build /\ idx'.gen = idx.gen
    BY <1>4, <1>t DEF NotePut, CacheOK, IndexType
  <2>2. \A q \in Procs : held'[q].gen = held[q].gen
    BY <1>4, <1>t DEF NotePut, ControlOK, HeldType
  <2> QED
    BY <1>n, <2>1, <2>2 DEF GenInv
<1>5. CASE NoteDel(p)
  <2>1. gen' = gen /\ build' = build /\ idx'.gen = 0
    BY <1>5 DEF NoteDel, NoIndex
  <2>2. \A q \in Procs : held'[q].gen = held[q].gen
    BY <1>5, <1>t DEF NoteDel, ControlOK, HeldType
  <2> QED
    BY <1>n, <2>1, <2>2 DEF GenInv
<1>6. CASE GetLock(p)
  <2>1. gen' = gen /\ idx' = idx /\ build'.gen \in {build.gen, gen}
    BY <1>6 DEF GetLock
  <2>2. \A q \in Procs : held'[q].gen \in {held[q].gen, idx.gen}
    BY <1>6, <1>t DEF GetLock, ControlOK
  <2> QED
    BY <1>n, <2>1, <2>2 DEF GenInv
<1>7. CASE RangeDocs(p)
  <2>1. gen' = gen /\ idx' = idx /\ build'.gen = build.gen /\ held' = held
    BY <1>7, <1>t DEF RangeDocs, CacheOK, IndexType
  <2> QED
    BY <1>n, <2>1 DEF GenInv
<1>8. CASE RangeRows(p)
  <2>1. gen' = gen /\ idx'.gen = build.gen /\ build'.gen = 0
    BY <1>8, <1>t DEF RangeRows, CacheOK, IndexType, NoIndex
  <2>2. \A q \in Procs : held'[q].gen \in {held[q].gen, build.gen}
    BY <1>8, <1>t DEF RangeRows, ControlOK, HeldType, CacheOK, IndexType
  <2> QED
    BY <1>n, <2>1, <2>2 DEF GenInv
<1> QED
  BY <1>1, <1>2, <1>3, <1>4, <1>5, <1>6, <1>7, <1>8, StepKinds DEF Note

\* Nobody is building an index when the cache's lock is free.
LEMMA NobodyBuilds ==
    ASSUME TypeInv, cmu = NoProc
    PROVE  \A q \in Procs : pc[q] \notin {"rangeDocs", "rangeRows"}
  BY ConstantTypes DEF TypeInv, Control

LEMMA BuildStep ==
    ASSUME NEW p \in Procs, TypeInv, DataAt(p), GenInv, \A q \in Procs : EventAt(q),
           BuildSandwich, Moves(p)
    PROVE  BuildSandwich'
<1>t. /\ StoreOK /\ CacheOK /\ ControlOK /\ Exclusion
      /\ \A q \in Procs : Control(q)
  BY TypeParts DEF TypeInv
<1>f. Frame(p)
  BY MovesFrame
<1>1. CASE Still(p)
  <2>1. MayHold' = MayHold /\ MustHold' = MustHold
    BY <1>1, StillHolds DEF Still
  <2> QED
    BY <1>1, <2>1 DEF Still, BuildSandwich
<1>2. CASE Lands(p)
  <2>1. ev[p].in = {} /\ ev[p].out = {} /\ ev[p].t = "none"
    BY <1>2 DEF Lands, EventAt
  <2>2. MustHold' \subseteq MustHold /\ MayHold \subseteq MayHold'
    BY <1>2, <1>t, <2>1, LandSandwich DEF Lands
  <2>3. ASSUME NEW q \in Procs, pc'[q] = "rangeRows", build'.gen = gen'
        PROVE  /\ pc[q] = "rangeRows" /\ build.gen = gen /\ build' = build
               /\ MustHold \subseteq build.mem \cup rows
               /\ build.mem \subseteq MayHold
               /\ (\A r \in Procs : ev[r].t # "doc") => build.mem = listed
    BY <1>2, <1>f, <2>3 DEF Lands, Frame, BuildSandwich
  <2>4. CASE \E row : Land(p, "put", {row}) /\ rows' = rows \cup {row} /\ listed' = listed
    <3>1. ev'[p].t = "put" /\ rows \subseteq rows' /\ listed' = listed
      BY <2>4, <1>t, <2>1, LandSandwich
    <3>2. (\A r \in Procs : ev'[r].t # "doc") => \A r \in Procs : ev[r].t # "doc"
      BY <1>f, <2>1 DEF Frame
    <3> QED
      BY <2>2, <2>3, <3>1, <3>2 DEF BuildSandwich
  <2>5. CASE Land(p, "del", {}) /\ rows' \subseteq rows /\ listed' = listed
    <3>1. ev'[p].t = "del"
      BY <2>5, <1>t, <2>1, LandSandwich
    <3>2. Control(p)'
      BY ArriveControl, WorkControl, <1>t DEF Moves
    <3>3. holds'[p] = "exclusive"
      BY <3>1, <3>2 DEF Control, EventUnder
    <3>4. Exclusion'
      BY ArriveControl, WorkExclusion, <1>t, <1>f DEF Moves
    <3>5. \A r \in Procs \ {p} : holds[r] = "none"
      BY <3>3, <3>4, <1>f DEF Exclusion, Frame
    <3>6. \A r \in Procs : ev[r].t # "doc"
      BY <3>5, <1>t, <2>1 DEF Control, EventUnder
    <3>7. MustHold' \subseteq Effective'
      BY DEF MustHold
    <3> QED
      BY <2>2, <2>3, <2>5, <3>6, <3>7 DEF BuildSandwich, Effective
  <2>6. CASE Land(p, "doc", {}) /\ rows' = rows
    <3>1. ev'[p].t = "doc"
      BY <2>6, <1>t, <2>1, LandSandwich
    <3> QED
      BY <2>2, <2>3, <2>6, <3>1 DEF BuildSandwich
  <2> QED
    BY <1>2, <2>4, <2>5, <2>6 DEF Lands
<1>3. CASE NoteDoc(p)
  <2>1. build'.gen # gen'
    BY <1>3, <1>t DEF NoteDoc, GenInv, CacheOK, IndexType, cache
  <2> QED
    BY <2>1 DEF BuildSandwich
<1>4. CASE NotePut(p) \/ NoteDel(p)
  <2>1. cmu = NoProc /\ pc' = pc
    BY <1>4 DEF NotePut, NoteDel
  <2> QED
    BY <2>1, NobodyBuilds DEF BuildSandwich
<1>5. CASE GetLock(p)
  <2>1. cmu = NoProc /\ pc'[p] # "rangeRows"
    BY <1>5, <1>t DEF GetLock, Goto, ControlOK
  <2> QED
    BY <1>f, <2>1, NobodyBuilds DEF BuildSandwich, Frame
<1>6. CASE RangeDocs(p)
  <2>1. build'.mem = listed /\ listed' = listed /\ rows' = rows
    BY <1>6, <1>t DEF RangeDocs, CacheOK, IndexType, store
  <2>2. MustHold' \subseteq Effective' /\ Effective' \subseteq MayHold'
    BY DEF MustHold, MayHold
  <2> QED
    BY <2>1, <2>2 DEF BuildSandwich, Effective
<1>7. CASE RangeRows(p)
  <2>1. pc[p] = "rangeRows" /\ cmu = p /\ pc'[p] = "use"
    BY <1>7, <1>t DEF RangeRows, At, Goto, ControlOK, Control
  <2>2. \A q \in Procs : pc'[q] # "rangeRows"
    BY <1>f, <1>t, <2>1 DEF Frame, Control
  <2> QED
    BY <2>2 DEF BuildSandwich
<1> QED
  BY <1>1, <1>2, <1>3, <1>4, <1>5, <1>6, <1>7, StepKinds DEF Note

LEMMA IndexStep ==
    ASSUME NEW p \in Procs, TypeInv, DataAt(p), GenInv, \A q \in Procs : EventAt(q),
           BuildSandwich, IndexSandwich, Moves(p)
    PROVE  IndexSandwich'
<1>t. StoreOK /\ CacheOK /\ ControlOK
  BY TypeParts DEF TypeInv
<1>1. CASE Still(p)
  <2>1. MayHold' = MayHold /\ MustHold' = MustHold
    BY <1>1, StillHolds DEF Still
  <2> QED
    BY <1>1, <2>1 DEF Still, IndexSandwich
<1>2. CASE Lands(p)
  <2>1. ev[p].in = {} /\ ev[p].out = {}
    BY <1>2 DEF Lands, EventAt
  <2>2. MustHold' \subseteq MustHold /\ MayHold \subseteq MayHold'
    BY <1>2, <1>t, <2>1, LandSandwich DEF Lands
  <2> QED
    BY <1>2, <2>2 DEF Lands, IndexSandwich
<1>3. CASE NoteDoc(p)
  <2>1. idx'.gen # gen'
    BY <1>3, <1>t DEF NoteDoc, GenInv, CacheOK, IndexType, cache
  <2> QED
    BY <2>1 DEF IndexSandwich
<1>4. CASE NotePut(p)
  <2>1. ev[p].add \subseteq rows /\ ev[p].in \subseteq ev[p].add /\ ev[p].out = {}
    BY <1>4 DEF NotePut, EventAt
  <2>2. /\ ev' = [ev EXCEPT ![p] = NoEvent]
        /\ UNCHANGED <<listed, rows, gen, cached>>
    BY <1>4 DEF NotePut, store
  <2>3. MustHold' \subseteq MustHold \cup ev[p].in /\ MayHold \subseteq MayHold' \cup ev[p].out
    BY <1>t, <2>2, NoteSandwich
  <2>4. rows \subseteq MayHold'
    BY <2>2 DEF MayHold, Effective
  <2>5. cached => idx'.gen = idx.gen /\ idx'.mem = idx.mem \cup ev[p].add
    BY <1>4, <1>t DEF NotePut, CacheOK, IndexType
  <2> QED
    BY <2>1, <2>2, <2>3, <2>4, <2>5 DEF IndexSandwich
<1>5. CASE NoteDel(p)
  BY <1>5 DEF NoteDel, IndexSandwich
<1>6. CASE GetLock(p) \/ RangeDocs(p)
  <2>1. UNCHANGED <<listed, rows, ev, gen, cached, idx>>
    BY <1>6 DEF GetLock, RangeDocs, store
  <2> QED
    BY <2>1, StillHolds DEF IndexSandwich
<1>7. CASE RangeRows(p)
  <2>1. /\ pc[p] = "rangeRows" /\ UNCHANGED <<listed, rows, ev, gen>>
        /\ idx'.gen = build.gen /\ idx'.mem = build.mem \cup rows
    BY <1>7, <1>t DEF RangeRows, At, CacheOK, IndexType, store
  <2>2. MayHold' = MayHold /\ MustHold' = MustHold
    BY <2>1, StillHolds
  <2>3. rows \subseteq MayHold
    BY DEF MayHold, Effective
  <2> QED
    BY <2>1, <2>2, <2>3 DEF IndexSandwich, BuildSandwich
<1> QED
  BY <1>1, <1>2, <1>3, <1>4, <1>5, <1>6, <1>7, StepKinds DEF Note

LEMMA NextIndexInv ==
    ASSUME TypeInv, DataInv, IndexInv, [Next]_vars
    PROVE  IndexInv'
<1>1. ASSUME NEW p \in Procs, Step(p) PROVE IndexInv'
  <2>1. Moves(p) /\ DataAt(p) /\ GenInv
    BY <1>1 DEF Step, Moves, DataInv, IndexInv
  <2>2. GenInv' /\ BuildSandwich' /\ IndexSandwich' /\ \A q \in Procs : EventAt(q)'
    BY <2>1, GenStep, EventStep, BuildStep, IndexStep DEF IndexInv
  <2> QED
    BY <2>2 DEF IndexInv
<1>2. CASE UNCHANGED vars
  BY <1>2 DEF vars, IndexInv, GenInv, EventAt, BuildSandwich, IndexSandwich, MayHold, MustHold, Effective
<1> QED
  BY <1>1, <1>2 DEF Next, Quiet

LEMMA InitIndexInv == Init => IndexInv
<1> SUFFICES ASSUME Init PROVE IndexInv
  OBVIOUS
<1>1. \A p \in Procs : EventAt(p)
  BY DEF Init, EventAt, NoEvent
<1>2. BuildSandwich /\ IndexSandwich
  BY DEF Init, BuildSandwich, IndexSandwich
<1>3. idx.gen <= gen /\ build.gen <= gen /\ \A p \in Procs : held[p].gen <= gen
  BY DEF Init, NoIndex, NoHeld
<1> QED
  BY <1>1, <1>2, <1>3 DEF IndexInv, GenInv

LEMMA IndexInvariant == Spec => [](TypeInv /\ DataInv /\ IndexInv)
<1>1. Init => IndexInv
  BY InitIndexInv
<1>2. TypeInv /\ DataInv /\ IndexInv /\ [Next]_vars => IndexInv'
  BY NextIndexInv
<1> QED
  BY <1>1, <1>2, DataInvariant, PTL DEF Spec

\* The cached index never latches onto stale membership: whenever its generation
\* is current, it agrees with the store up to the writes still being reported.
THEOREM IndexNeverStale == Spec => []IndexSandwich
<1>1. IndexInv => IndexSandwich
  BY DEF IndexInv
<1> QED
  BY <1>1, IndexInvariant, PTL

-----------------------------------------------------------------------------
(* What is decided from the index.                                          *)

\* The index in q's hands changes under it only by gaining rows that exist.
LEMMA HeldFrame ==
    ASSUME NEW p \in Procs, NEW q \in Procs \ {p}, TypeInv, DataAt(p), EventAt(p), Moves(p)
    PROVE  /\ held'[q].gen = held[q].gen
           /\ held[q].mem \subseteq held'[q].mem
           /\ held'[q].mem \subseteq held[q].mem \cup rows'
<1>t. StoreOK /\ CacheOK /\ ControlOK
  BY TypeParts DEF TypeInv
<1>1. CASE held'[q] = held[q]
  BY <1>1
<1>2. CASE NotePut(p)
  <2>1. ev[p].add \subseteq rows /\ rows' = rows
    BY <1>2 DEF NotePut, EventAt, store
  <2>2. /\ held'[q].gen = held[q].gen
        /\ held'[q].mem \in {held[q].mem, held[q].mem \cup ev[p].add}
    BY <1>2, <1>t DEF NotePut, ControlOK, HeldType
  <2> QED
    BY <2>1, <2>2
<1>3. CASE NoteDel(p) \/ RangeRows(p)
  <2>1. held'[q] = [held[q] EXCEPT !.live = FALSE]
    BY <1>3 DEF NoteDel, RangeRows
  <2>2. held'[q].gen = held[q].gen /\ held'[q].mem = held[q].mem
    BY <1>t, <2>1 DEF ControlOK, HeldType
  <2> QED
    BY <2>2
<1>4. CASE Arrive(p)
  BY <1>1, <1>4, <1>t, ArriveKeeps
<1>5. CASE \/ RLock(p) \/ Lock(p) \/ NoteDoc(p) \/ GetRead(p) \/ GetFresh(p) \/ GetLock(p)
           \/ RangeDocs(p) \/ UseIndex(p) \/ Create(p) \/ FindUser(p) \/ FindAssoc(p)
           \/ FindInvite(p) \/ ConsumeInvite(p) \/ PutAssoc(p) \/ AddMember(p) \/ Done(p)
           \/ CheckInvite(p) \/ PutInvite(p) \/ DropInvite(p) \/ Lookup(p) \/ DelAssoc(p)
           \/ DelInvite(p) \/ RemoveRows(p) \/ RemoveFromDocs(p) \/ Delete(p) \/ CreateDoc(p)
           \/ Recheck(p) \/ UpdateDoc(p) \/ StoreError(p)
  <2>1. held'[q] = held[q]
    BY <1>5, <1>t DEF ControlOK, RLock, Lock, NoteDoc, GetRead, GetFresh, GetLock, RangeDocs,
         UseIndex, Create, FindUser, FindAssoc, FindInvite, ConsumeInvite, PutAssoc, AddMember,
         Done, CheckInvite, PutInvite, DropInvite, Lookup, DelAssoc, DelInvite, RemoveRows,
         RemoveFromDocs, Delete, CreateDoc, Recheck, UpdateDoc, StoreError, Finish
  <2> QED
    BY <2>1, <1>1
<1> QED
  BY <1>2, <1>3, <1>4, <1>5 DEF Moves, Work, Note

\* Nobody else touches the index q is building.
LEMMA BuildFrame ==
    ASSUME NEW p \in Procs, NEW q \in Procs \ {p}, TypeInv, DataAt(p), pc[q] = "rangeRows",
           Moves(p)
    PROVE  build' = build /\ pc'[q] = "rangeRows"
<1>1. pc'[q] = "rangeRows"
  BY MovesFrame DEF Frame
<1>2. cmu = q /\ ControlOK /\ pc[p] \notin {"rangeDocs", "rangeRows"} /\ q # NoProc
  BY TypeParts, ConstantTypes DEF TypeInv, Control
<1>3. build' = build
  BY <1>1, <1>2, StepKinds DEF Still, Lands, Note, NoteDoc, NotePut, NoteDel, GetLock, RangeDocs,
                               RangeRows, At, cache
<1> QED
  BY <1>1, <1>3

LEMMA GroupsOfMonotone ==
    ASSUME NEW m1, NEW m2, NEW a, m1 \subseteq m2
    PROVE  GroupsOf(m1, a) \subseteq GroupsOf(m2, a)
<1> SUFFICES ASSUME NEW g \in GroupsOf(m1, a), NEW S \in SUBSET Groups,
                    \A h \in Groups : (<<h, a>> \in m2 \/ \E k \in S : <<h, k>> \in m2) => h \in S
             PROVE  g \in S
  BY DEF GroupsOf
<1>1. \A h \in Groups : (<<h, a>> \in m1 \/ \E k \in S : <<h, k>> \in m1) => h \in S
  OBVIOUS
<1> QED
  BY <1>1 DEF GroupsOf

\* Under the exclusive lock, with its own writes reported, a handler sees every
\* write reported: what is certain is what holds.
LEMMA Settled ==
    ASSUME NEW p \in Procs, TypeInv, \A q \in Procs : EventAt(q), holds[p] = "exclusive",
           ev[p].t = "none"
    PROVE  MustHold = Effective
<1>1. \A q \in Procs : ev[q].t = "none"
  BY TypeParts DEF TypeInv, Exclusion, Control, EventUnder, ControlOK, EvType
<1>2. \A q \in Procs : ev[q].in = {}
  BY <1>1 DEF EventAt
<1> QED
  BY <1>2 DEF MustHold

LEMMA AdminStep ==
    ASSUME NEW p \in Procs, TypeInv, DataAt(p), IndexInv, AdminInv, Moves(p)
    PROVE  AdminInv'
<1>t. /\ StoreOK /\ CacheOK /\ ControlOK /\ Exclusion
      /\ \A q \in Procs : Control(q)
  BY TypeParts DEF TypeInv
<1>e. \A q \in Procs : EventAt(q)
  BY DEF IndexInv
<1>1. ASSUME NEW q \in Procs \ {p} PROVE AdminAt(q)'
  <2>1. pc'[q] = pc[q] /\ req'[q] = req[q]
    BY MovesFrame DEF Frame
  <2> SUFFICES ASSUME req[q].op = "disassociate",
                      pc[q] \in {"rangeRows", "getFresh", "use", "delAssoc"}
               PROVE  AdminAt(q)'
    BY <2>1 DEF AdminAt
  <2>2. holds[q] = "exclusive"
    BY <1>t DEF Control, LockAt, IndexSteps, ExclusiveSteps
  <2>3. holds[p] = "none"
    BY <1>t, <2>2 DEF Exclusion
  <2>4. UNCHANGED <<listed, rows>>
    BY <1>t, <2>3, Writers
  <2>5. Effective' = Effective
    BY <2>4 DEF Effective
  <2>6. held'[q].gen = held[q].gen /\ held[q].mem \subseteq held'[q].mem
    BY <1>e, HeldFrame
  <2>7. pc[q] = "rangeRows" => build' = build
    BY BuildFrame
  <2>8. held'[q].gen = gen' => held[q].gen = gen
    <3>1. gen <= gen' /\ held[q].gen <= gen
      BY GenStep DEF IndexInv, GenInv
    <3>2. gen \in Nat /\ held[q].gen \in Nat /\ gen' \in Nat
      BY <1>t, BeginType, ArriveBegins, WorkType DEF CacheOK, ControlOK, HeldType, Moves, Control
    <3> QED
      BY <2>6, <3>1, <3>2
  <2> QED
    BY <2>1, <2>4, <2>5, <2>6, <2>7, <2>8 DEF AdminAt, AdminInv
<1>2. AdminAt(p)'
  <2> SUFFICES ASSUME req'[p].op = "disassociate",
                      pc'[p] \in {"rangeRows", "getFresh", "use", "delAssoc"}
               PROVE  AdminAt(p)'
    BY DEF AdminAt
  <2>1. CASE UNCHANGED <<pc, req>> /\ UNCHANGED <<listed, rows>> /\ Note(p)
    <3>1. ev[p].t = "none"
      BY <1>t, <2>1 DEF Control
    <3> QED
      BY <2>1, <3>1 DEF Note, NoteDoc, NotePut, NoteDel
  <2>2. CASE GetRead(p)
    <3>1. pc[p] = "getRead" /\ req'[p] = req[p] /\ ev[p].t = "none" /\ pc'[p] = "getFresh"
      BY <2>2, <1>t DEF GetRead, At, Goto, ControlOK
    <3>2. holds[p] = "exclusive"
      BY <1>t, <3>1 DEF Control, LockAt, IndexSteps
    <3>3. MustHold = Effective
      BY <1>e, <3>1, <3>2, Settled
    <3>4. /\ cached /\ held'[p].gen = idx.gen /\ held'[p].mem = idx.mem
          /\ UNCHANGED <<listed, rows, gen>>
      BY <2>2, <3>1, <1>t DEF GetRead, Goto, ControlOK, store
    <3> QED
      BY <3>1, <3>3, <3>4 DEF IndexInv, IndexSandwich, AdminAt, Effective
  <2>3. CASE GetFresh(p)
    <3>1. /\ pc[p] = "getFresh" /\ req'[p] = req[p] /\ pc'[p] = "use" /\ held[p].gen = gen
          /\ held' = held /\ UNCHANGED <<listed, rows>>
      BY <2>3, <1>t DEF GetFresh, At, Goto, ControlOK, store
    <3> QED
      BY <3>1 DEF AdminInv, AdminAt, Effective
  <2>4. CASE GetLock(p)
    <3>1. pc[p] = "getLock" /\ req'[p] = req[p] /\ ev[p].t = "none" /\ pc'[p] = "use"
      BY <2>4, <1>t DEF GetLock, At, Goto, ControlOK
    <3>2. holds[p] = "exclusive"
      BY <1>t, <3>1 DEF Control, LockAt, IndexSteps
    <3>3. MustHold = Effective
      BY <1>e, <3>1, <3>2, Settled
    <3>4. cached /\ idx.gen = gen /\ held'[p].mem = idx.mem /\ UNCHANGED <<listed, rows>>
      BY <2>4, <3>1, <1>t DEF GetLock, Goto, ControlOK, store
    <3> QED
      BY <3>1, <3>3, <3>4 DEF IndexInv, IndexSandwich, AdminAt, Effective
  <2>5. CASE RangeDocs(p)
    <3>1. pc'[p] = "rangeRows" /\ build'.mem = listed /\ listed' = listed
      BY <2>5, <1>t DEF RangeDocs, Goto, ControlOK, CacheOK, IndexType, store
    <3> QED
      BY <3>1 DEF AdminAt
  <2>6. CASE RangeRows(p)
    <3>1. /\ pc[p] = "rangeRows" /\ req'[p] = req[p] /\ pc'[p] = "use"
          /\ held'[p].mem = build.mem \cup rows /\ UNCHANGED <<listed, rows>>
      BY <2>6, <1>t DEF RangeRows, At, Goto, ControlOK, CacheOK, IndexType, store
    <3> QED
      BY <3>1 DEF AdminInv, AdminAt, Effective
  <2>7. CASE UseIndex(p)
    <3>1. /\ pc[p] = "use" /\ req'[p] = req[p] /\ pc'[p] = "delAssoc"
          /\ AdminsGroup \notin GroupsOf(held[p].mem, req[p].on) /\ UNCHANGED <<listed, rows>>
      BY <2>7, <1>t DEF UseIndex, At, Goto, Finish, ControlOK, store
    <3>2. Effective \subseteq held[p].mem
      BY <3>1 DEF AdminInv, AdminAt
    <3>3. AdminsGroup \notin GroupsOf(Effective, req[p].on)
      BY <3>1, <3>2, GroupsOfMonotone
    <3>4. Effective' = Effective
      BY <3>1 DEF Effective
    <3> QED
      BY <3>1, <3>3, <3>4 DEF AdminAt
  <2>8. CASE Arrive(p)
    BY <2>8, <1>t, ArriveBegins DEF Begin, Goto, ControlOK, FreeSteps
  <2>9. CASE Lookup(p)
    BY <2>9, <1>t DEF Lookup, At, Goto, Finish, ControlOK, Control, Route
  <2>10. CASE \/ RLock(p) \/ Lock(p) \/ Create(p) \/ FindUser(p) \/ FindAssoc(p)
              \/ FindInvite(p) \/ ConsumeInvite(p) \/ PutAssoc(p) \/ AddMember(p) \/ Done(p)
              \/ CheckInvite(p) \/ PutInvite(p) \/ DropInvite(p) \/ DelAssoc(p) \/ DelInvite(p)
              \/ RemoveRows(p) \/ RemoveFromDocs(p) \/ Delete(p) \/ CreateDoc(p) \/ Recheck(p)
              \/ UpdateDoc(p) \/ StoreError(p)
    BY <2>10, <1>t DEF ControlOK, RLock, Lock, Create, FindUser, FindAssoc, FindInvite,
         ConsumeInvite, PutAssoc, AddMember, Done, CheckInvite, PutInvite, DropInvite, DelAssoc,
         DelInvite, RemoveRows, RemoveFromDocs, Delete, CreateDoc, Recheck, UpdateDoc,
         StoreError, Finish, Goto, At
  <2>11. CASE Note(p)
    BY <2>1, <2>11 DEF Note, NoteDoc, NotePut, NoteDel, store
  <2> QED
    BY <2>2, <2>3, <2>4, <2>5, <2>6, <2>7, <2>8, <2>9, <2>10, <2>11 DEF Moves, Work
<1> QED
  BY <1>1, <1>2 DEF AdminInv

\* What must hold shrinks and what may hold grows as a check goes on.
LEMMA HistoryStep ==
    ASSUME NEW q \in Procs, HistoryOK, History, Checking(q)'
    PROVE  /\ must'[q] \subseteq MustHold'
           /\ MayHold' \subseteq may'[q]
           /\ Checking(q) => must'[q] \subseteq must[q] /\ may[q] \subseteq may'[q]
<1>1. must'[q] = IF Checking(q) THEN must[q] \cap MustHold' ELSE MustHold'
  BY DEF History
<1>2. may'[q] = may[q] \cup MayHold'
  BY DEF History
<1> QED
  BY <1>1, <1>2

LEMMA CheckStep ==
    ASSUME NEW p \in Procs, TypeInv, DataAt(p), IndexInv, CheckInv, Moves(p), History
    PROVE  CheckInv'
<1>t. /\ StoreOK /\ CacheOK /\ ControlOK /\ HistoryOK /\ Exclusion
      /\ \A q \in Procs : Control(q)
  BY TypeParts DEF TypeInv
<1>e. \A q \in Procs : EventAt(q)
  BY DEF IndexInv
<1>h. MustHold' \subseteq Effective' /\ rows' \subseteq MayHold' /\ listed' \subseteq MayHold'
  BY DEF MustHold, MayHold, Effective
<1>1. ASSUME NEW q \in Procs \ {p}, Checking(q)' PROVE CheckAt(q)'
  <2>1. pc'[q] = pc[q] /\ req'[q] = req[q]
    BY MovesFrame DEF Frame
  <2>2. Checking(q) /\ CheckAt(q)
    BY <1>1, <2>1 DEF Checking, CheckInv
  <2>3. /\ must'[q] \subseteq MustHold' /\ MayHold' \subseteq may'[q]
        /\ must'[q] \subseteq must[q] /\ may[q] \subseteq may'[q]
    BY <1>1, <1>t, <2>2, HistoryStep
  <2>4. /\ held'[q].gen = held[q].gen /\ held[q].mem \subseteq held'[q].mem
        /\ held'[q].mem \subseteq held[q].mem \cup rows'
    BY <1>e, HeldFrame
  <2>5. held'[q].gen = gen' => held[q].gen = gen
    <3>1. gen <= gen' /\ held[q].gen <= gen
      BY GenStep DEF IndexInv, GenInv
    <3>2. gen \in Nat /\ held[q].gen \in Nat /\ gen' \in Nat
      BY <1>t, BeginType, ArriveBegins, WorkType DEF CacheOK, ControlOK, HeldType, Moves, Control
    <3> QED
      BY <2>4, <3>1, <3>2
  <2>6. (pc'[q] = "getFresh" /\ held'[q].gen = gen') \/ pc'[q] = "use" =>
          must'[q] \subseteq held'[q].mem /\ held'[q].mem \subseteq may'[q]
    BY <1>h, <2>1, <2>2, <2>3, <2>4, <2>5 DEF CheckAt
  <2>7. ASSUME pc'[q] = "rangeRows"
        PROVE  /\ build'.mem \subseteq may'[q]
               /\ \A r \in must'[q] : r \in build'.mem \/ (r \in rows' /\ r \notin listed')
    <3>1. build' = build
      BY <2>1, <2>7, BuildFrame
    <3>2. build.mem \subseteq may'[q]
      BY <2>1, <2>2, <2>3, <2>7 DEF CheckAt
    <3>3. ASSUME NEW r \in must'[q], r \notin build.mem PROVE r \in rows' /\ r \notin listed'
      <4>1. r \in rows /\ r \notin listed
        BY <2>1, <2>2, <2>3, <2>7, <3>3 DEF CheckAt
      <4>2. r \in Effective'
        BY <1>h, <2>3
      <4>3. CASE UNCHANGED <<listed, rows>>
        BY <4>1, <4>3
      <4>4. CASE Lands(p)
        BY <4>1, <4>2, <4>4 DEF Lands, Effective
      <4> QED
        BY <4>3, <4>4, StepKinds DEF Still, Note, NoteDoc, NotePut, NoteDel, GetLock, RangeDocs,
                                     RangeRows, store
    <3> QED
      BY <3>1, <3>2, <3>3
  <2> QED
    BY <2>3, <2>6, <2>7 DEF CheckAt
<1>2. ASSUME Checking(p)' PROVE CheckAt(p)'
  <2>1. must'[p] \subseteq MustHold' /\ MayHold' \subseteq may'[p]
    BY <1>2, <1>t, HistoryStep
  <2> SUFFICES ASSUME pc'[p] \in {"getFresh", "use", "rangeRows"}
               PROVE  CheckAt(p)'
    BY <2>1 DEF CheckAt
  <2>2. CASE GetRead(p)
    <3>1. pc'[p] = "getFresh"
      BY <2>2, <1>t DEF GetRead, Goto, ControlOK
    <3>2. /\ cached /\ held'[p].gen = idx.gen /\ held'[p].mem = idx.mem
          /\ UNCHANGED <<listed, rows, gen, ev>>
      BY <2>2, <3>1, <1>t DEF GetRead, Goto, ControlOK, store
    <3>3. MustHold' = MustHold /\ MayHold' = MayHold
      BY <3>2, StillHolds
    <3> QED
      BY <2>1, <3>1, <3>2, <3>3 DEF IndexInv, IndexSandwich, CheckAt
  <2>3. CASE GetFresh(p)
    <3>1. /\ pc[p] = "getFresh" /\ req' = req /\ pc'[p] = "use" /\ held[p].gen = gen
          /\ held' = held
      BY <2>3, <1>t DEF GetFresh, At, Goto, ControlOK
    <3>2. Checking(p) /\ CheckAt(p)
      BY <1>2, <3>1 DEF Checking, CheckInv
    <3>3. must'[p] \subseteq must[p] /\ may[p] \subseteq may'[p]
      BY <1>2, <1>t, <3>2, HistoryStep
    <3> QED
      BY <2>1, <3>1, <3>2, <3>3 DEF CheckAt
  <2>4. CASE GetLock(p)
    <3>1. pc'[p] = "use"
      BY <2>4, <1>t DEF GetLock, Goto, ControlOK
    <3>2. /\ cached /\ idx.gen = gen /\ held'[p].mem = idx.mem
          /\ UNCHANGED <<listed, rows, ev>>
      BY <2>4, <3>1, <1>t DEF GetLock, Goto, ControlOK, store
    <3>3. MustHold' = MustHold /\ MayHold' = MayHold
      BY <3>2, StillHolds
    <3> QED
      BY <2>1, <3>1, <3>2, <3>3 DEF IndexInv, IndexSandwich, CheckAt
  <2>5. CASE RangeDocs(p)
    <3>1. pc'[p] = "rangeRows" /\ build'.mem = listed' /\ UNCHANGED <<listed, rows>>
      BY <2>5, <1>t DEF RangeDocs, Goto, ControlOK, CacheOK, IndexType, store
    <3>2. must'[p] \subseteq listed' \cup rows'
      BY <1>h, <2>1 DEF Effective
    <3> QED
      BY <1>h, <2>1, <3>1, <3>2 DEF CheckAt
  <2>6. CASE RangeRows(p)
    <3>1. /\ pc[p] = "rangeRows" /\ req' = req /\ pc'[p] = "use"
          /\ held'[p].mem = build.mem \cup rows /\ rows' = rows
      BY <2>6, <1>t DEF RangeRows, At, Goto, ControlOK, CacheOK, IndexType, store
    <3>2. Checking(p) /\ CheckAt(p)
      BY <1>2, <3>1 DEF Checking, CheckInv
    <3>3. must'[p] \subseteq must[p] /\ may[p] \subseteq may'[p]
      BY <1>2, <1>t, <3>2, HistoryStep
    <3> QED
      BY <1>h, <2>1, <3>1, <3>2, <3>3 DEF CheckAt
  <2>7. CASE Note(p)
    <3>1. pc' = pc /\ ev[p].t # "none"
      BY <2>7 DEF Note, NoteDoc, NotePut, NoteDel
    <3> QED
      BY <1>t, <3>1 DEF Control
  <2>8. CASE Arrive(p)
    BY <2>8, <1>t, ArriveBegins DEF Begin, Goto, ControlOK, FreeSteps
  <2>9. CASE \/ RLock(p) \/ Lock(p) \/ UseIndex(p) \/ Create(p) \/ FindUser(p) \/ FindAssoc(p)
             \/ FindInvite(p) \/ ConsumeInvite(p) \/ PutAssoc(p) \/ AddMember(p) \/ Done(p)
             \/ CheckInvite(p) \/ PutInvite(p) \/ DropInvite(p) \/ Lookup(p) \/ DelAssoc(p)
             \/ DelInvite(p) \/ RemoveRows(p) \/ RemoveFromDocs(p) \/ Delete(p) \/ CreateDoc(p)
             \/ Recheck(p) \/ UpdateDoc(p) \/ StoreError(p)
    BY <2>9, <1>t DEF ControlOK, RLock, Lock, UseIndex, Create, FindUser, FindAssoc, FindInvite,
         ConsumeInvite, PutAssoc, AddMember, Done, CheckInvite, PutInvite, DropInvite, Lookup,
         DelAssoc, DelInvite, RemoveRows, RemoveFromDocs, Delete, CreateDoc, Recheck, UpdateDoc,
         StoreError, Finish, Goto, At
  <2> QED
    BY <2>2, <2>3, <2>4, <2>5, <2>6, <2>7, <2>8, <2>9 DEF Moves, Work
<1> QED
  BY <1>1, <1>2 DEF CheckInv

LEMMA DecisionInvariant ==
    Spec => [](TypeInv /\ DataInv /\ IndexInv /\ AdminInv /\ CheckInv)
<1>1. Init => AdminInv /\ CheckInv
  <2> SUFFICES ASSUME Init PROVE AdminInv /\ CheckInv
    OBVIOUS
  <2>1. \A p \in Procs : pc[p] = "idle"
    BY DEF Init
  <2> QED
    BY <2>1 DEF AdminInv, AdminAt, CheckInv, Checking
<1>2. TypeInv /\ DataInv /\ IndexInv /\ AdminInv /\ CheckInv /\ [Next]_vars
        => (AdminInv /\ CheckInv)'
  <2> SUFFICES ASSUME TypeInv, DataInv, IndexInv, AdminInv, CheckInv, [Next]_vars
               PROVE  (AdminInv /\ CheckInv)'
    OBVIOUS
  <2>1. ASSUME NEW p \in Procs, Step(p) PROVE (AdminInv /\ CheckInv)'
    <3>1. Moves(p) /\ History /\ DataAt(p)
      BY <2>1 DEF Step, Moves, DataInv
    <3> QED
      BY <3>1, AdminStep, CheckStep
  <2>2. CASE UNCHANGED vars
    <3>1. Effective' = Effective /\ MayHold' = MayHold /\ MustHold' = MustHold
      BY <2>2, StillHolds DEF vars
    <3>2. AdminInv'
      BY <2>2, <3>1 DEF vars, AdminInv, AdminAt
    <3>3. CheckInv'
      BY <2>2, <3>1 DEF vars, CheckInv, CheckAt, Checking
    <3> QED
      BY <3>2, <3>3
  <2> QED
    BY <2>1, <2>2 DEF Next, Quiet
<1> QED
  BY <1>1, <1>2, IndexInvariant, PTL DEF Spec

\* Every check decides on an index between what held all the time it ran and what
\* held at some moment while it ran, however the index came to it.
THEOREM ChecksAreBounded == Spec => []CheckSandwich
<1>1. CheckInv => CheckSandwich
  BY DEF CheckInv, CheckAt, Checking, CheckSandwich
<1> QED
  BY <1>1, DecisionInvariant, PTL

\* An admin, direct or through nesting, is never dissociated.
THEOREM AdminsAreNotDissociated == Spec => []AdminsStay
<1>1. AdminInv => AdminsStay
  BY DEF AdminInv, AdminAt, AdminsStay
<1> QED
  BY <1>1, DecisionInvariant, PTL

=============================================================================
