SPECIFICATION Spec
CONSTANTS
    Logs <- MCLogs
    SnapCount = 1
    CatchUp = 1
    MaxNext = 2
INVARIANT SlicesAgree
INVARIANT NeverFatal
PROPERTY ReadsAreOneLog
PROPERTY AppliedInOrder
CHECK_DEADLOCK FALSE
