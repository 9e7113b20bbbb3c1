SPECIFICATION Spec
CONSTANTS
    Procs = {p1, p2}
    Scenarios <- const_LastRevision
    BootOrg = "o"
    Groups = {"dev", "prod", "test"}
INVARIANT NoACLOutlives
SYMMETRY Symmetry
