SPECIFICATION FairSpec
CONSTANTS
    f = f
    g = g
    writer = writer
    r1 = r1
    Names = {f, g}
    Reads <- MCReads
    Writes <- MCWrites
    NumSectors = 4
    SectorSize = 2
    NumDirEntries = 2
    Straddling = 1
    FileSizes = {1, 3}
    Writer = writer
    Readers = {r1}
    NoThread = NoThread
    NoName = NoName
    Junk = Junk
    Halts = TRUE
    SectorsPerTrack = 3
    NumTracks = 3
    SeekTime = 3
    RotationTime = 2
    MaxTicks = 14
PROPERTIES
    DiskRight
    MapMatchesFiles
    ReadsRight
    OperationsEnd
    ImplementsFiles
CHECK_DEADLOCK FALSE
