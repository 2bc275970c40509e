CONSTANTS
    Tx = {t1, t2}
    MaxSends = 1
    TopHeight = 6
    MinTip = 3
    Block <- MCBlock
    Parent <- MCParent
    Height <- MCHeight
    Chains <- MCChains
    TxIn <- MCTxIn
    MaxHeight = 6
    MaxReorg = 2
    ConfirmNum = 1
    ConcurrencyNum = 2
    ConfigStart = 1
    Keep = 1
    WordMod = 1000
SPECIFICATION ConfSpec
INVARIANTS
    ConfTypeOK
    ConfirmedIsFinal
PROPERTIES
    ImplementsTxPending
