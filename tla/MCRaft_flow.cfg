SPECIFICATION Spec
CONSTANTS
    Node = {n1, n2}
    Nil = Nil
    Value = {v1}
    PreVote = TRUE
    CheckQuorum = TRUE
    MaxInflight = 2
    MaxEntsPerMsg = 1
    MaxUncommitted = 2
    SnapCount = 100
    CatchUp = 100
    MaxTerm = 3
    MaxNet = 2
    MaxProposals = 3
    MaxRestarts = 0
    MaxTransfers = 1
    MaxBeats = 1
SYMMETRY Symmetry
INVARIANTS WindowOK QuotaNeverOverestimates 

CHECK_DEADLOCK FALSE
VIEW LogView
