SPECIFICATION LibrarySpec
CONSTANTS
    Key <- MCKeys
    Nil = Nil
    Freed = Freed
    Fresh = Fresh
    Cmp <- IpCmp
    Updatable <- MCUpdatable
    CopyKeys = TRUE
    AddressRange = 16
    num_samples = 4
    servo_min_ticks = 1
    servo_max_ticks = 4
    step_time_us = 10
    Start <- MCStart
    Commands <- MCCommands
    idle_timeout = TRUE
    l1 = l1
    l2 = l2
    n1 = n1
    n2 = n2
    n3 = n3
    n4 = n4
    m1 = m1
    List <- MCList
    Element <- MCDatum
    MaxLength = 3
    Area <- MCArea
    AreaAtoms = 2
    NoArea = 0
    NULL = NULL
    Node <- MCNode
    Datum <- MCDatum
    Value <- MCValue
    HEAPINCREMENT = 2
    MaxElements = 6
    EMPTY = EMPTY
    FREED = FREED
    NoEntry = NoEntry
    FieldName <- MCFieldName
    Val <- MCVal
    hash_fn <- MCHash
    InitialSize = 3
    MaxSize = 12
    NONE = NONE
    Object <- MCObject
    NoObject = NULL
    Field <- MCField
    MaxIndex = 2
    MaxHeld = 2
INVARIANTS AvlShape WalksAgree ChunkAccounts HeapOrder SearchTree RingIntact
    OrderKept IteratorSeesAll VerdictOfGrammar RoundTrip ReferencesCounted OffWhenReset
PROPERTIES ImplementsMap CurrencyLostOnlyInside ListsAreSequences PulsesAreWhole
CHECK_DEADLOCK FALSE
