CONSTANTS
    MaxEpoch = 2
    MaxFrames = 3
    MaxRecordings = 2
    RingCap = 1
SPECIFICATION Spec
CONSTRAINT MCBound
INVARIANTS TypeOK FramesInOrder OneTrailingFrame NoOrphanStart StaleAudioBounded
