CONSTANTS
    Subscriptions = {"snapshots", "corrections"}
    Snapshots = "snapshots"
    Installs = TRUE
    MaxBacklog = 4
    MaxJobs = 2
SPECIFICATION FairSpec
CHECK_DEADLOCK FALSE
INVARIANTS TypeOK HandedOverOnce Serialized ShowsTheState
PROPERTIES NothingAfterClosing WorkEnds
CONSTRAINT Followed
