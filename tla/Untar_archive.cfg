SPECIFICATION Spec
CONSTANTS
    BlockSize = 2
    EndCount = 2
    Chunks = {1, 5}
    Folders <- Paths
    Sizes = {0, 2, 3}
    Texts = {1, 2}
    MetaSize = 3
INVARIANTS
    UnpacksExactly
    BoundRight
CHECK_DEADLOCK FALSE
