SPECIFICATION Spec
CONSTANTS
    a = a
    b = b
    p1 = p1
    p2 = p2
    c1 = c1
    c2 = c2
    Blocks <- TwoBlocks
    Images <- FewImages
    FileTrees <- FewFileTrees
    Converters <- TwoConverters
    Collectors <- TwoCollectors
    Outputs = {"main", "side"}
    Main = "main"
    Settings <- TwoSettings
    MaxTools = 2
    MaxDamage = 3
    Missing = Missing
    Garbled = Garbled
    None = None
SYMMETRY Alike
INVARIANTS
    PublishedIsWhole
    ImageVouched
    CollectionWhole
CHECK_DEADLOCK FALSE
