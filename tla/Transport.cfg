SPECIFICATION Spec
CONSTANTS
    MIN_BUFFERING = 4
    MaxMessages = 3
    MaxTicks = 1
    MaxBreaks = 1
INVARIANTS TypeOK InOrder LossNeedsABreak
PROPERTIES Implements SentIsSettled
CHECK_DEADLOCK FALSE
