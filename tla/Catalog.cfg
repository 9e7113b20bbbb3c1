SPECIFICATION Spec
CONSTANTS
    Procs = {p1, p2}
    Scenarios <- const_Scenarios
    BootOrg = "o"
    Groups = {"dev", "prod", "test"}
INVARIANTS DeploymentsExist NothingOrphaned BootKeys
PROPERTIES WritesLast
SYMMETRY Symmetry
