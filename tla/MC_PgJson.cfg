CONSTANTS
    Names <- MCNames
    MaxCols = 2
    MaxRows = 1

SPECIFICATION Spec

INVARIANT KeysInDriverOrder
