SPECIFICATION Spec
CONSTANTS
    Height = 5
    Shapes <- MCShapes
    MaxBlocks = 4
INVARIANTS RootIsReference OutputsStayProvable CommitmentsRebuild
    WithdrawalsAreDistinct
