SPECIFICATION FairSpec
CONSTANTS
    toThree = toThree
    toTwo = toTwo
    Requests <- MCRequests
    Target <- MCTarget
    FirstVersion = 1
    MaxConfig = 2
    MaxCrashes = 1
    MaxFailedSaves = 0
PROPERTIES
    OutcomeLearned
