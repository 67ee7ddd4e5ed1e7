SPECIFICATION FatSpec
CONSTANTS
    N = 8
    RootSlots = 2
    DirSlots = 3
    Volumes <- SomeVolumes
    Programs <- SomePrograms
    DirPaths <- SomeDirs
    FileNames <- SomeFiles
    Sizes <- SomeSizes
    Games <- GamesName
    MaxFiles = 3
    MaxImports = 2
    MaxDeletes = 1
    GoesOn = FALSE
INVARIANTS VolumeSound PlacedTogether
PROPERTIES FailsOnlyWhenFull ImplementsTree
CHECK_DEADLOCK FALSE
