\* A short and a long name in a subdirectory of a four-cluster volume.
SPECIFICATION Spec
CONSTANTS
    ShortNames = {"d", "f"}
    LongNames = {"L"}
    LFN = 1
    Slots = 5
    Total = 4
    MAX_ALIAS = 3
    FilePaths <- MCFiles
    DirPaths <- MCDirs
    Writes <- MCWrites
    Data = {a, b}
    MaxCuts = 1
SYMMETRY MCSymmetry
INVARIANTS  ClustersOwned RenameKeepsName
