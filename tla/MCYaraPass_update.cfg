SPECIFICATION Spec
CONSTANTS
    f1 = f1
    f2 = f2
    Files <- MCFiles
    Policies <- OwnSchedule
    MaxRules = 1
    MaxChanges = 1
    MaxRestarts = 1
INVARIANT
    RuleUpdateScansAll
