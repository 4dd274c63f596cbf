SPECIFICATION Spec
CONSTANTS
    Node = {n1, n2, n3}
    Nil = Nil
    Value = {v1}
    PreVote = FALSE
    CheckQuorum = FALSE
    MaxInflight = 1
    MaxEntsPerMsg = 1
    MaxUncommitted = 1
    SnapCount = 100
    CatchUp = 100
    MaxTerm = 5
    MaxNet = 1
    MaxProposals = 0
    MaxRestarts = 0
    MaxTransfers = 0
    MaxBeats = 2
SYMMETRY Symmetry
INVARIANTS LeaderCompleteness StateMachineSafety

CHECK_DEADLOCK FALSE
VIEW LogView
