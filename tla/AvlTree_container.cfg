SPECIFICATION Spec
CONSTANTS
    Key <- MCThree
    Nil = Nil
    Freed = Freed
    Fresh = Fresh
    Cmp <- IpCmp
    Updatable = {}
    CopyKeys = TRUE
    AddressRange = 16
INVARIANTS FoundUnderOwnKey
CHECK_DEADLOCK FALSE
