CONSTANTS
    Add = Add
    Scan = Scan
    Sort = Sort
    Opunits <- MCOpunits
    ArithmeticOpunits <- MCArithmetic
    TransformedOpunits <- MCTransformed
    MLModels <- MCMLModels
    Errors <- MCErrors
    One = 2
    MaxData = 2

SPECIFICATION Spec

INVARIANT TypeOK
INVARIANT SelectedIsBest
