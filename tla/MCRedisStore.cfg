SPECIFICATION Spec
CONSTANTS
    Node = {n1, n2}
    Key <- MCKey
    Value = {v1}
    SnapCount = 0
    MaxRequests = 2
    MaxRestarts = 1
INVARIANTS TypeOK StoreIsReplay AnsweredOnce SetIsApplied ErrorIsFinal KeysExact
PROPERTIES CommittedIsAnswered Converges
CHECK_DEADLOCK FALSE
