CONSTANTS
    TopHeight = 9
    MaxForks = 2
    ForkHeights = {1, 2, 3, 4, 5, 6, 7, 8, 9}
    MinTip = 3
    Block <- MCBlock
    Parent <- MCParent
    Height <- MCHeight
    Chains <- MCChains
    MaxHeight = 9
    MaxReorg = 2
    ConfirmNum = 1
    ConcurrencyNum = 2
    ConfigStart = 2
    Keep = 2
    WordMod = 1000
SPECIFICATION Spec
INVARIANTS
    TypeOK
    RowsFinal
    NoCanonicalBlockSkipped
PROPERTIES
    CursorMonotone
    FeedsOneBranch
