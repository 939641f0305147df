SPECIFICATION Spec
CONSTANTS
    o0 = o0
    o1 = o1
    o2 = o2
    u0 = u0
    u1 = u1
    u2 = u2
    k1 = k1
    l1 = l1
    q1 = q1
    q2 = q2
    default = default
    acme = acme
    None = None
    Orgs <- SomeOrgs
    Users <- SomeUsers
    Keys <- SomeKeys
    Logs <- SomeLogs
    Slugs <- SomeSlugs
    DefaultSlug <- default
    Hashes <- SomeHashes
    FirstOrg <- o0
    FirstUser <- u0
    Requests <- TwoRequests
    GivenRoles <- SomeRoles
    MaxRequests = 4
SYMMETRY Symmetry
CHECK_DEADLOCK FALSE
INVARIANTS
    TypeOK
    OneTenant
    TenantsApart
    FoundersAlone
    DeletionsFit
PROPERTIES
    DirSpec
