SPECIFICATION FairSpec
CONSTANTS
    Snapshots = {"inventory"}
    Rank <- MCRank
    Emitters = {"engine"}
    Engine = "engine"
    ChannelCap = 1
    BatchMax = 2
    MaxItems <- MCMaxItems
    MaxFaults = 1
    MaxCrashes = 1
INVARIANTS TypeOK BatchedIsKept SettledIsGone
PROPERTIES ReplaysInOrder StopEnds PayloadsArrive
