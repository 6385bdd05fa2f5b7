CONSTANTS
    ChunkLen = 2
    RingChunks = 6
    FrameChunks = {1, 2}
    PartLens = {1, 4}
    MaxEvents = 6
SPECIFICATION FairSpec
INVARIANTS TypeOK FullChunks StallBounded
PROPERTIES WriteEnds ReaderServed
