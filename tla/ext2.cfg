\* Two files of the directory d, on a volume of five blocks.
SPECIFICATION Spec
CONSTANTS
    Blocks <- MCBlocks
    Inodes = {2, 3, 4, 5}
    DIRECT = 1
    PTRS = 2
    Units = 10
    Names = {"d", "f", "L"}
    Span <- MCSpan
    FilePaths <- MCFiles
    DirPaths <- MCDirs
    Writes <- MCWrites
    Data = {"a"}
    MaxCuts = 1
    Remounts = 1
INVARIANTS ReadsBack CountsMatch NoDoubleUse DirTiled
CHECK_DEADLOCK FALSE
