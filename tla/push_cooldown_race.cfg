SPECIFICATION Spec
CONSTANTS
    Users = {"ann", "bob"}
    Admins = {"ann"}
    Tokens = {"t1", "t2"}
    PlatformOf <- MCPlatformOf
    Cameras = {"front", "yard"}
    Scopes <- MCScopes
    FirstOwner <- MCFirstOwner
    FirstRules <- MCFirstRules
    FirstMinute = 3
    RulesSent <- MCRulesSent
    Dispatches = {d1, d2}
    CamOf <- MCCamOf
    EventOf <- MCEventOf
    Day = 4
    Full = 2
    Names = {"car", "person", "drive", "door"}
    Typed = {"car", "person", "drive", "door", " car", " "}
    Trim <- MCTrim
    Blank = ""
    Transport = "relay"
    Faults = FALSE
    MaxChanges = 0
    None = None
SYMMETRY Symmetry
INVARIANTS
    CooldownSuppresses
CHECK_DEADLOCK FALSE
