SPECIFICATION Spec
CONSTANTS
    Identities = {"apple1", "google1", "apple2", "dev"}
    DevIdentities = {"dev"}
    Emails = {"e1", "e2"}
    EmailOf <- MCEmailOf
    Verified = {"apple1", "google1", "apple2"}
    Codes = {"c1"}
    Scopes <- MCScopes
    MaxUsers = 2
    None = None
    Reqs = {r1, r2}
    EnvAllowed = {"e1"}
    AdminEmails = {}
    Faults = FALSE
    MaxInputs = 3
INVARIANT
    InviteSingleUse
CHECK_DEADLOCK FALSE
