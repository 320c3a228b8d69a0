SPECIFICATION FairSpec
CONSTANTS
    None = None
    Eof = Eof
    Backlog = 0
    MaxHandlers = 2
    MaxEpoch = 2
    MaxFaults = 1
    Faults = {"lostReply", "brokerRestart"}
PROPERTIES
    FollowsModel
