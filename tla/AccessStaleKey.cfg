SPECIFICATION Spec
CONSTANTS
    Procs = {p1, p2}
    Scenarios <- const_Rotations
    Objects <- const_Objects
    Org = "o"
    WebKey = "web"
    Trusted <- const_Trusted
    TrustedKeys <- const_TrustedKeys
    Guarded <- const_Guarded
    MaxErrors = 0
    NoKey = ""
    Nobody = Nobody
INVARIANT SignedByListed
SYMMETRY Symmetry
