SPECIFICATION Spec
CONSTANTS
    Users = {"bob"}
    Cameras = {"front", "yard"}
    Settings = "settings"
    Scopes <- MCScopes
    FirstRole <- MCFirstRole
    FirstScope <- MCFirstScope
    Reqs = {r1, r2}
    Faults = FALSE
    MaxTokens = 3
    MaxReads = 1
    Asked = {"events", "search", "me", "settings", "front"}
    MaxCommands = 2
    None = None
SYMMETRY Symmetry
INVARIANTS
    NoAccountSeesNothing
CHECK_DEADLOCK FALSE
