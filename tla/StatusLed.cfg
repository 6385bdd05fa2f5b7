CONSTANT MaxEpoch = 2
SPECIFICATION FairSpec
INVARIANTS TypeOK ButtonStatesHold PlayingIsConnected
PROPERTIES RecordingEnds ErrorClears
