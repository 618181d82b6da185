SPECIFICATION Spec
CONSTANTS
    MaxConfig = 1
    BundleOf <- MCBundleOf
    MaxRestarts = 1
INVARIANT
    AppliedIsOnDisk
