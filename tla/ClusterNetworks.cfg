SPECIFICATION LiveSpec
CONSTANTS
    CIDRs <- MCCIDRs
    IPv4 <- MCIPv4
    Bad = 0
    Specs <- MCSpecs
    Items <- MCItems
    MaxDisturb = 2
INVARIANTS
    TypeOK
    AtRestCurrent
PROPERTIES
    DenyComplete
    NoSpuriousRoll
    
CHECK_DEADLOCK FALSE
