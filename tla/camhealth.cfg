SPECIFICATION FairSpec
CONSTANTS
    Cameras = {"front", "yard"}
    OfflineAfter = 3
    Gap = 2
    MaxRestarts = 1
    None = None
INVARIANTS
    TypeOK
    NotByOnePoll
    GraceAtStartup
PROPERTIES
    DownIsTagged
