SPECIFICATION Spec
CONSTANTS
    SegmentSize = 3
    Candidate = {1}
    SnapCount = 1
    MaxTerm = 2
    MaxIndex = 3
    MaxEvents = 3
    MaxRestarts = 2
INVARIANT CommittedOnQuorum
CHECK_DEADLOCK FALSE
