SPECIFICATION Spec
CONSTANTS
    Node = {n1, n2, n3}
    Nil = Nil
    Value = {v1}
    PreVote = FALSE
    CheckQuorum = FALSE
    MaxInflight = 1
    MaxEntsPerMsg = 1
    MaxUncommitted = 1
    SnapCount = 100
    CatchUp = 100
    MaxTerm = 3
    MaxNet = 2
    MaxProposals = 1
    MaxRestarts = 0
    MaxTransfers = 2
    MaxBeats = 0
SYMMETRY Symmetry
INVARIANTS LogMatching MatchIsReal LeaderCompleteness NextInLog

CHECK_DEADLOCK FALSE
VIEW LogView
