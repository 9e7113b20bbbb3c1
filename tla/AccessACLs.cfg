SPECIFICATION Spec
CONSTANTS
    Procs = {p1, p2}
    Scenarios <- const_Editors
    Objects <- const_Objects
    Org = "o"
    WebKey = "web"
    Trusted <- const_Trusted
    TrustedKeys <- const_TrustedKeys
    Guarded <- const_Guarded
    MaxErrors = 0
    NoKey = ""
    Nobody = Nobody
PROPERTY OnePermissionAtATime
SYMMETRY Symmetry
