CONSTANTS
    doge = doge
    wif = wif
    privateWS = privateWS
    unknownEffect = unknownEffect
    Symbols <- MCSymbols
    Codes <- MCCodes
    SharedCodes <- MCSharedCodes
    MaxEpoch = 1
SPECIFICATION GateSpec
SYMMETRY Symmetry
INVARIANTS
    ReasonsBlock
PROPERTIES
    LocalFailuresStayLocal
    HumanReasonsDoNotVanish
