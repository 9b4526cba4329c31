CONSTANTS
    Files <- MCFiles
    Unwritable <- MCUnwritable
    Disks <- MCDisks
    Jobs <- MCJobs
    BufSize = 2
    MaxRuns = 3
    SizeMax = 3
SPECIFICATION FairSpec
CHECK_DEADLOCK FALSE
INVARIANTS OnlyContent RoundTrip FailsForAReason
PROPERTY RunEnds
