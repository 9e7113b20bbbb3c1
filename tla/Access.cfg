SPECIFICATION Spec
CONSTANTS
    Procs = {p1, p2}
    Scenarios <- const_Scenarios
    Objects <- const_Objects
    Org = "o"
    WebKey = "web"
    Trusted <- const_Trusted
    TrustedKeys <- const_TrustedKeys
    Guarded <- const_Guarded
    MaxErrors = 1
    NoKey = ""
    Nobody = Nobody
INVARIANTS DefaultInStep NothingInherited KeysAuthenticate NoEscalation
PROPERTIES KeyWritesTake NoRevival ACLUpdatesKept
SYMMETRY Symmetry
