SPECIFICATION Spec
CONSTANTS
  Procs = {p1, p2}
  Clients = {c1}
  Users = {u1}
  NoProc = NoProc
  Groups = {gu, ga, gc}
  ClientsGroup = gc
  UsersGroup = gu
  AdminsGroup = ga
  Bodies = {{}, {u1}, {gu}}
  KindSets = {{"groups"}, {"users"}}
  Ops = {"invite", "deleteActor", "respond"}
  SeedActors = {u1}
  SeedAssoc = {}
  SeedDocs <- SeedChoices
  MaxRequests = 3
SYMMETRY Symmetry
INVARIANT UserRowsNameUsers
