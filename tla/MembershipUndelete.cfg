SPECIFICATION Spec
CONSTANTS
  Procs = {p1, p2}
  Clients = {c1}
  Users = {u1}
  NoProc = NoProc
  Groups = {gu, ga, gc}
  ClientsGroup = gc
  UsersGroup = gu
  AdminsGroup = ga
  Bodies = {{}, {u1}, {gu}}
  KindSets = {{"groups"}, {"users"}}
  Ops = {"putGroup", "deleteGroup"}
  SeedActors = {u1}
  SeedAssoc = {}
  SeedDocs <- SeedChoices
  MaxRequests = 2
SYMMETRY Symmetry
PROPERTY OnlyCreateMakesGroups
