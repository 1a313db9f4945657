SPECIFICATION Spec
CONSTANTS
    MaxGen = 4
    MaxRows = 3
    MaxCopies = 2
INVARIANT
    AnythingOlderIsRefused
