SPECIFICATION Spec
CONSTANTS
    Procs = {p1, p2}
    Scenarios <- const_Deployment
    BootOrg = "o"
    Groups = {"dev", "prod", "test"}
INVARIANT DeploymentsGoToo
SYMMETRY Symmetry
