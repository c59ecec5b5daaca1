SPECIFICATION LoadSpec
CONSTANTS
    Identities = {"apple1", "google1", "apple2", "dev"}
    DevIdentities = {"dev"}
    Emails = {"e1", "e2"}
    EmailOf <- MCEmailOf
    Verified = {"apple1", "google1", "apple2"}
    Codes = {"c1"}
    Scopes <- MCScopes
    MaxUsers = 3
    None = None
    Reqs = {r1, r2}
    EnvAllowed = {"e1"}
    AdminEmails = {}
    Faults = TRUE
    MaxInputs = 5
    MaxBusyInputs = 4
SYMMETRY Symmetry
INVARIANTS
    TypeOK
    NoOrphans
    RedeemerCameIn
    AccountsWereAdmitted
    QuietInviteSingleUse
    SerialOneAccountPerPerson
    SerialOneOwner
    QuietScopedBeforeTokens
PROPERTIES
    IdentityNeverMoves
    AnsweredForItsPerson
    RedemptionIsFinal
    SerialAnsweredForItsIdentity
CHECK_DEADLOCK FALSE
