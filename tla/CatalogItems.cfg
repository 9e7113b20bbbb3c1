SPECIFICATION Spec
CONSTANTS
    Procs = {p1, p2}
    Scenarios <- const_NewItem
    BootOrg = "o"
    Groups = {"dev", "prod", "test"}
INVARIANT ItemsGoToo
SYMMETRY Symmetry
