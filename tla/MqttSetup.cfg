CONSTANTS
    MaxBreaks = 2
    MaxFailures = 2
SPECIFICATION FairSpec
INVARIANTS TypeOK OneClient StateFollowsClient
PROPERTIES WifiComesBack LogInCompletes
