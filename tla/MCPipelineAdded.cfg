SPECIFICATION Spec
CONSTANTS
    MaxFragments = 2
    MaxLong = 6
    Inputs <- MCInputs
INVARIANT
    NothingAdded
