SPECIFICATION Spec
CONSTANTS
    o1 = o1
    o2 = o2
    o3 = o3
    Objects <- ThreeObjects
    Nobody = Nobody
    MaxLeaves = 7
    ImageSize = 5
    MAX_CACHED_CHUNKS = 2
    MAX_EBR_CHAIN = 3
    MAX_ADS_PER_FILE = 2
    MaxMft = 3
    Radix = 8
    Unused = Unused
    NoPath = NoPath
    NoMft = NoMft
    None = None
    Missing = Missing
    Blank = Blank
    Garbled = Garbled
    No = No
    EmptyList = EmptyList
    NoRows = NoRows
    MaxEdges = 3
INVARIANTS
    TreesBind
    ReadsExact
    GraphsAnswered
    PartitionsFound
    FilesIndexed
    WrittenReadsBack
