SPECIFICATION Spec
CONSTANTS
    Node = {n1, n2, n3}
    Nil = Nil
    Value = {v1}
    PreVote = FALSE
    CheckQuorum = TRUE
    MaxInflight = 1
    MaxEntsPerMsg = 2
    MaxUncommitted = 1
    SnapCount = 100
    CatchUp = 100
    MaxTerm = 3
    MaxNet = 2
    MaxProposals = 0
    MaxRestarts = 1
    MaxTransfers = 0
    MaxBeats = 0
SYMMETRY Symmetry
INVARIANTS TypeOK ElectionSafety ElectionInv
PROPERTIES VoteIsStable
CHECK_DEADLOCK FALSE
