CONSTANTS
    TopHeight = 10
    MaxForks = 1
    ForkHeights = {5, 6}
    MinTip = 3
    Block <- MCBlock
    Parent <- MCParent
    Height <- MCHeight
    Chains <- MCChains
    MaxHeight = 10
    MaxReorg = 4
    ConfirmNum = 0
    ConcurrencyNum = 0
    ConfigStart = 0
    Keep = 3
    WordMod = 1000
SPECIFICATION FairSpec
INVARIANTS
    GuessIsRight
    ParentsParsed
    NoCanonicalBlockSkipped
PROPERTIES
    CatchesUp
