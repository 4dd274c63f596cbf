SPECIFICATION Spec
CONSTANTS
    Node = {n1, n2, n3}
    Nil = Nil
    Value = {v1}
    PreVote = TRUE
    CheckQuorum = TRUE
    MaxInflight = 1
    MaxEntsPerMsg = 2
    MaxUncommitted = 1
    SnapCount = 100
    CatchUp = 100
    MaxTerm = 2
    MaxNet = 3
    MaxProposals = 0
    MaxRestarts = 0
    MaxTransfers = 0
    MaxBeats = 0
SYMMETRY Symmetry
INVARIANTS ElectedByQuorum

CHECK_DEADLOCK FALSE
