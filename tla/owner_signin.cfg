SPECIFICATION Spec
CONSTANTS
    Reqs = {r1, r2}
    Kids = {"old", "new"}
    FirstKids = {"old"}
    IdTokens <- MCIdTokens
    Provider = "google"
    AppleIssuer = "apple"
    GoogleIssuers = {"google", "https google"}
    Audiences = {"app"}
    TTL = 1
    Fetch = 1
    MaxRotations = 2
    Instances = {i1, i2}
    RelayURL = TRUE
    APNsConfigured = FALSE
    Faults = TRUE
    Admins = {"ann"}
    None = None
INVARIANTS
    TypeOK
    PaidIsServed
SYMMETRY Symmetry
PROPERTIES
    WithdrawnKeyDiesOut
    PublishedKeyIsKnown
CHECK_DEADLOCK FALSE
