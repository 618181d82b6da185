SPECIFICATION FairSpec
CONSTANTS
    f1 = f1
    f2 = f2
    Files <- MCFiles
    Policies <- AllPolicies
    MaxRules = 2
    MaxChanges = 4
    MaxRestarts = 1
INVARIANTS
    TypeOK
    NoFileMissed
PROPERTY
    FileIsRead
