CONSTANTS
    x = x
    a = a
    zero = zero
    one = one
    Variables <- MCVariables
    Fields <- MCFields
    Scalars <- MCScalars
    Zero <- zero
    CellSizes <- MCCellSizes
    Aliasing = TRUE
    MaxNodes = 5
    MaxDepth = 3
    MaxSaved = 1
SPECIFICATION Spec
INVARIANTS
    ClonesLiveData
