SPECIFICATION Spec
CONSTANTS
    Admins = {a1}
    Tenants = {"dev", "cds"}
    Kids = {"kid-1"}
    k1 = k1
    k2 = k2
    Keys = {k1, k2}
    DevTenant = "dev"
    Workflows <- MCWorkflows
    NoKey = NoKey
    Missing = Missing
    Torn = Torn
    AuthModes = {TRUE, FALSE}
    AddCap = 3
    FeedbackCap = 1
INVARIANTS
    AnsweredToOwner
PROPERTY
    RegistrationsKept
