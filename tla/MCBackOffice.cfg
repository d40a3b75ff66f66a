SPECIFICATION MCSpec
CONSTANTS
    Requests = {q1, q2}
    RoleIds = {i1, i2, i3}
    Users = {"ann", "bob"}
    Nobody = ""
    Absent = absent
    Gone = gone
    Founder = "ann"
    FirstAdmin = "bob"
    Profiled = {"ann"}
    ProfileInputs = {TRUE}
    MaxTroubles = 1
    Companies = {c1}
    Payments = {q1, q2}
    VatReports = {i1, i2, i3}
    NoRecord = norecord
    Countries <- MCCountries
    DaysInMonth = 1
    PastDays = {0}
    Overlap = TRUE
    MaxDay = 4
    MaxVatFailures = 1
SYMMETRY MCSymmetry
CHECK_DEADLOCK FALSE
INVARIANTS BackOfficeTypesOK PermissionsFollowRoles GrantNeedsInvitation DecidedReportIsComplete PastPeriodsAreDecided
