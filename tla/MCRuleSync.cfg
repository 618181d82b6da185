SPECIFICATION FairSpec
CONSTANTS
    MaxConfig = 2
    BundleOf <- MCBundleOf
    MaxRestarts = 1
INVARIANTS
    TypeOK
    ReloadIsPending
PROPERTY
    ConfigConverges
